--------------------------- MODULE WebSocketClient ---------------------------
(***************************************************************************)
(* The client's one connection to the server: a QWebSocket, a timer that    *)
(* retries and a timer that sends heartbeats, all on the GUI thread.  The   *)
(* retry timer repeats until a connection stops it: an attempt that is      *)
(* still under way when it fires is thrown away by the next open().         *)
(*                                                                         *)
(* QWebSocket is external: open() drops the old socket without a signal,    *)
(* an attempt that fails and a connection that is lost both emit            *)
(* disconnected().                                                          *)
(***************************************************************************)
EXTENDS Integers

CONSTANTS
  RetryInterval,   (* m_retryInterval, in ticks.                             *)
  MaxRetries,      (* m_maxRetries.                                          *)
  AttemptTicks,    (* What an attempt to connect takes at most.              *)
  MaxConnectCalls, (* Bound: calls of connectUrl.                            *)
  MaxOutages       (* Bound: how often the server goes down.                 *)

ASSUME RetryAssumption == RetryInterval \in Nat \ {0} /\ MaxRetries \in Nat \ {0}
ASSUME AttemptAssumption == AttemptTicks \in Nat /\ MaxConnectCalls \in Nat /\ MaxOutages \in Nat

VARIABLES
  webSocket,       (* m_webSocket: closed, connecting or connected.          *)
  attemptAge,      (* Ticks since open().                                    *)
  retryTimer,      (* m_retryTimer: the ticks since it was started or fired,
                      or Stopped.                                            *)
  heartbeatTimer,  (* m_heartbeatTimer is running.                           *)
  m_retryCount,    (* Counted up to m_maxRetries, which it is compared with. *)
  connectCalls,    (* The calls of connectUrl so far.                        *)
  serverUp,        (* The server can be reached.                             *)
  outages          (* What is left of the bound.                             *)

linkVars    == <<serverUp, outages>>
webSocketVars == <<webSocket, attemptAge, retryTimer, heartbeatTimer, m_retryCount, connectCalls,
                   linkVars>>

Stopped == -1

WebSocketInit ==
  /\ webSocket = "closed" /\ attemptAge = 0
  /\ retryTimer = Stopped /\ heartbeatTimer = FALSE
  /\ m_retryCount = 0 /\ connectCalls = 0
  /\ serverUp \in BOOLEAN /\ outages = MaxOutages

open == webSocket' = "connecting" /\ attemptAge' = 0

connectUrl ==
  /\ connectCalls < MaxConnectCalls /\ connectCalls' = connectCalls + 1
  /\ m_retryCount' = 0
  /\ open
  /\ UNCHANGED <<retryTimer, heartbeatTimer, linkVars>>

(* Wrong variant: the heartbeats go on. *)
onDisconnected_Heartbeat ==
  /\ retryTimer' = IF m_retryCount < MaxRetries THEN 0 ELSE retryTimer
  /\ UNCHANGED heartbeatTimer

(* Restarts the retry timer; at the limit it leaves it as it is. *)
onDisconnected ==
  /\ heartbeatTimer' = FALSE
  /\ retryTimer' = IF m_retryCount < MaxRetries THEN 0 ELSE retryTimer

(* Wrong variant: the retry timer runs on. *)
onConnected_NoStop ==
  /\ webSocket = "connecting" /\ serverUp
  /\ webSocket' = "connected"
  /\ m_retryCount' = 0 /\ heartbeatTimer' = TRUE
  /\ UNCHANGED <<attemptAge, retryTimer, connectCalls, linkVars>>

onConnected ==
  /\ webSocket = "connecting" /\ serverUp
  /\ webSocket' = "connected"
  /\ retryTimer' = Stopped /\ m_retryCount' = 0 /\ heartbeatTimer' = TRUE
  /\ UNCHANGED <<attemptAge, connectCalls, linkVars>>

(* An attempt fails, or a connection ends, while the server is down. *)
disconnected ==
  /\ webSocket # "closed" /\ ~serverUp
  /\ webSocket' = "closed"
  /\ onDisconnected
  /\ UNCHANGED <<attemptAge, m_retryCount, connectCalls, linkVars>>

(* The retry timer fires. *)
onRetryConnection ==
  /\ retryTimer = RetryInterval /\ retryTimer' = 0
  /\ m_retryCount' = IF m_retryCount < MaxRetries THEN m_retryCount + 1 ELSE m_retryCount
  /\ open
  /\ UNCHANGED <<heartbeatTimer, connectCalls, linkVars>>

(* Time passes, until the retry timer is due or an attempt is decided. *)
ClientTick ==
  /\ retryTimer # RetryInterval
  /\ webSocket = "connecting" => attemptAge < AttemptTicks
  /\ retryTimer # Stopped \/ webSocket = "connecting"
  /\ retryTimer' = IF retryTimer = Stopped THEN Stopped ELSE retryTimer + 1
  /\ attemptAge' = IF webSocket = "connecting" THEN attemptAge + 1 ELSE attemptAge
  /\ UNCHANGED <<webSocket, heartbeatTimer, m_retryCount, connectCalls, linkVars>>

ServerGoesDown ==
  /\ serverUp /\ outages > 0 /\ serverUp' = FALSE /\ outages' = outages - 1
  /\ UNCHANGED <<webSocket, attemptAge, retryTimer, heartbeatTimer, m_retryCount, connectCalls>>

ServerComesUp ==
  /\ ~serverUp /\ serverUp' = TRUE
  /\ UNCHANGED <<webSocket, attemptAge, retryTimer, heartbeatTimer, m_retryCount, connectCalls,
                 outages>>

(* What the event loop, the timers and the network do on their own. *)
WebSocketStep == onConnected \/ disconnected \/ onRetryConnection \/ ClientTick

WebSocketNext == WebSocketStep \/ connectUrl \/ ServerGoesDown \/ ServerComesUp

(* The event loop gets round to everything that is due. *)
WebSocketSpec ==
  WebSocketInit /\ [][WebSocketNext]_webSocketVars /\ WF_webSocketVars(WebSocketStep)

-----------------------------------------------------------------------------

WebSocketTypeOK ==
  /\ webSocket \in {"closed", "connecting", "connected"}
  /\ attemptAge \in 0 .. AttemptTicks
  /\ retryTimer \in {Stopped} \union 0 .. RetryInterval
  /\ {heartbeatTimer, serverUp} \subseteq BOOLEAN
  /\ m_retryCount \in 0 .. MaxRetries
  /\ connectCalls \in 0 .. MaxConnectCalls /\ outages \in 0 .. MaxOutages

(* Whenever a connection is up, heartbeats are sent and no retry can tear it
   down; whenever one was asked for and none is up or under way, no heartbeat goes
   to a closed socket, and below the limit of retries one is coming. *)
TimersMatchConnection ==
  /\ webSocket = "connected" => heartbeatTimer /\ retryTimer = Stopped
  /\ webSocket = "closed" /\ connectCalls > 0 =>
       ~heartbeatTimer /\ (m_retryCount < MaxRetries => retryTimer # Stopped)

(* If the server stays up and the retries below their limit, the client is connected
   in the end and stays so.  That takes attempts that are decided before the next
   retry. *)
Reconnects ==
  AttemptTicks < RetryInterval =>
    (<>[](serverUp /\ connectCalls > 0 /\ m_retryCount < MaxRetries)
       => <>[](webSocket = "connected"))

(* What onDisconnected says at the limit, "Max retry attempts reached. Giving up.":
   no retry is to come.  The timer repeats (see the README). *)
GivesUpAtTheLimit ==
  webSocket = "closed" /\ m_retryCount = MaxRetries => retryTimer = Stopped
=============================================================================
