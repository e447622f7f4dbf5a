---------------------------- MODULE ServerLogPush ----------------------------
(***************************************************************************)
(* WebSocketService, the server's connections to its clients, together     *)
(* with UploadLoggerService, a logger that broadcasts every log line over  *)
(* them.  The two call each other: the service logs when a client comes,   *)
(* goes or cannot be sent to, and the logger broadcasts through the        *)
(* service.                                                                *)
(*                                                                         *)
(* Threads: the accept loop, one handler per connection, the send thread,  *)
(* and workers, which stand for every other thread that logs.              *)
(* The connection map is a plain Dictionary that all of them use without a *)
(* lock; an insertion makes every enumeration under way throw, which can   *)
(* end the process.  Of all log lines the queue holds one object,          *)
(* m_ResServerLogPush, that the next Log changes while it waits; the send  *)
(* thread reads it when it serialises.                                     *)
(***************************************************************************)
EXTENDS Integers, Sequences, FiniteSets

CONSTANTS
  Workers,         (* Threads that log.                                      *)
  Acceptor, Sender,(* The accept loop and the send thread.                   *)
  MaxConnections,  (* Bound: connections accepted.                           *)
  MaxDepartures,   (* Bound: clients that leave.                             *)
  MaxLines,        (* Bound: lines the workers log.                          *)
  MaxClears        (* Bound: daily clearings of the history.                 *)

ASSUME ThreadsAssumption ==
  /\ IsFiniteSet(Workers) /\ Acceptor \notin Workers /\ Sender \notin Workers
  /\ Acceptor # Sender
ASSUME BoundsAssumption ==
  /\ MaxConnections \in Nat \ {0} /\ MaxLines \in Nat
  /\ MaxDepartures \in Nat /\ MaxClears \in Nat

VARIABLES
  m_ID,         (* The id of the next connection.                            *)
  connections,  (* The ids m_UserId2ConnectionInfoMap enumerates.            *)
  inserts,      (* How often a key was inserted: what enumerators compare.   *)
  socket,       (* The WebSocket of each connection.                         *)
  peer,         (* The client is at the other end.                           *)
  accept,       (* Where the accept loop is.                                 *)
  handler,      (* Where the handler thread of each connection is.           *)
  queue,        (* m_MessageQueue: the recipients, all of one message.       *)
  send,         (* Where the send thread is.                                 *)
  frame,        (* The message the send thread works on.                     *)
  history,      (* The number of lines in m_HistoryLog.                      *)
  push,         (* m_ResServerLogPush: its index and its line.               *)
  call,         (* Each thread's call of Log: where it is, and its locals.   *)
  crashed,      (* An unhandled exception ended the process.                 *)
  budget,       (* What is left of the bounds.                               *)
  lines,        (* History: lines logged so far; the line's number is its text. *)
  received,     (* History: the last log message each client received.       *)
  covered       (* History: connections that a broadcast since they joined
                   visits, and that the last interrupted one had visited.    *)

mapVars    == <<m_ID, connections, inserts>>
netVars    == <<socket, peer>>
sendVars   == <<send, frame>>
logVars    == <<history, push, lines>>
ghostVars  == <<received, covered>>
vars == <<mapVars, netVars, accept, handler, queue, sendVars, logVars, call, crashed,
          budget, ghostVars>>

Connection == 1 .. MaxConnections
Threads == Workers \union {Acceptor, Sender} \union Connection

NoLine == [index |-> 0, line |-> 0, epoch |-> 0]
NoFrame == [to |-> 0, log |-> NoLine]
NoCall == [at |-> "none", line |-> 0, inserts |-> 0, left |-> {}]

(* How often the history was cleared. *)
Epoch == MaxClears - budget.clears

(* A client that is there and can still be sent to. *)
Reachable(c) == socket[c] = "open" /\ peer[c]

-----------------------------------------------------------------------------
Init ==
  /\ m_ID = 1
  /\ connections = {}
  /\ inserts = 0
  /\ socket = [c \in Connection |-> "none"]
  /\ peer = [c \in Connection |-> FALSE]
  /\ accept = "wait"
  /\ handler = [c \in Connection |-> "none"]
  /\ queue = <<>>
  /\ send = "idle"
  /\ frame = NoFrame
  /\ history = 0
  /\ push = NoLine
  /\ call = [t \in Threads |-> NoCall]
  /\ crashed = FALSE
  /\ budget = [departures |-> MaxDepartures, lines |-> MaxLines, clears |-> MaxClears]
  /\ lines = 0
  /\ received = [c \in Connection |-> NoLine]
  /\ covered = {}

-----------------------------------------------------------------------------
(* UploadLoggerService.Log, called by any thread t. *)

StartLog(t) == call' = [call EXCEPT ![t] = [NoCall EXCEPT !.at = "lock"]]

Idle(t) == call[t].at = "none"

(* lock (m_HistoryLog): the index is set and the line is remembered. *)
LogIndex(t) ==
  /\ ~crashed /\ call[t].at = "lock"
  /\ push' = [push EXCEPT !.index = history, !.epoch = Epoch]
  /\ history' = history + 1
  /\ lines' = lines + 1
  /\ call' = [call EXCEPT ![t].at = "assign", ![t].line = lines + 1]
  /\ UNCHANGED <<mapVars, netVars, accept, handler, queue, sendVars, crashed, budget, ghostVars>>

(* Wrong variant: the index, too, is set after the lock is released. *)
LogText_SetsIndex(t) ==
  /\ ~crashed /\ call[t].at = "assign"
  /\ push' = [push EXCEPT !.line = call[t].line, !.index = call[t].line - 1]
  /\ call' = [call EXCEPT ![t].at = "enumerate"]
  /\ UNCHANGED <<mapVars, netVars, accept, handler, queue, sendVars, history, lines, crashed,
                 budget, ghostVars>>

(* m_ResServerLogPush.Log = message, after the lock is released. *)
LogText(t) ==
  /\ ~crashed /\ call[t].at = "assign"
  /\ push' = [push EXCEPT !.line = call[t].line]
  /\ call' = [call EXCEPT ![t].at = "enumerate"]
  /\ UNCHANGED <<mapVars, netVars, accept, handler, queue, sendVars, history, lines, crashed,
                 budget, ghostVars>>

(* BroadcastMessage: the enumerator is taken. *)
BeginBroadcast(t) ==
  /\ ~crashed /\ call[t].at = "enumerate"
  /\ call' = [call EXCEPT ![t].at = "broadcast", ![t].inserts = inserts, ![t].left = connections]
  /\ covered' = covered \union connections
  /\ UNCHANGED <<mapVars, netVars, accept, handler, queue, sendVars, logVars, crashed, budget,
                 received>>

Interrupted(t) == call[t].inserts # inserts

(* Wrong variant: a client that is just being sent to gets no second message. *)
BroadcastTo_SkipsBusy(t, c) ==
  /\ ~crashed /\ call[t].at = "broadcast" /\ ~Interrupted(t)
  /\ c \in call[t].left \intersect connections
  /\ queue' = IF frame.to = c THEN queue ELSE Append(queue, c)
  /\ call' = [call EXCEPT ![t].left = @ \ {c}]
  /\ UNCHANGED <<mapVars, netVars, accept, handler, sendVars, logVars, crashed, budget, ghostVars>>

(* The next entry; one that was removed meanwhile is no longer visited. *)
BroadcastTo(t, c) ==
  /\ ~crashed /\ call[t].at = "broadcast" /\ ~Interrupted(t)
  /\ c \in call[t].left \intersect connections
  /\ queue' = Append(queue, c)
  /\ call' = [call EXCEPT ![t].left = @ \ {c}]
  /\ UNCHANGED <<mapVars, netVars, accept, handler, sendVars, logVars, crashed, budget, ghostVars>>

EndBroadcast(t) ==
  /\ ~crashed /\ call[t].at = "broadcast" /\ ~Interrupted(t)
  /\ call[t].left \intersect connections = {}
  /\ call' = [call EXCEPT ![t] = NoCall]
  /\ UNCHANGED <<mapVars, netVars, accept, handler, queue, sendVars, logVars, crashed, budget,
                 ghostVars>>

(* MoveNext throws InvalidOperationException: the clients that are left get no
   message.  On a thread of the service nobody catches it; what a worker was
   called by may or may not. *)
BroadcastThrows(t) ==
  /\ ~crashed /\ call[t].at = "broadcast" /\ Interrupted(t)
  /\ call' = [call EXCEPT ![t].at = "threw"]
  /\ crashed' \in IF t \in Workers THEN BOOLEAN ELSE {TRUE}
  /\ covered' = covered \ call[t].left
  /\ UNCHANGED <<mapVars, netVars, accept, handler, queue, sendVars, logVars, budget, received>>

WorkerCatches(w) ==
  /\ ~crashed /\ call[w].at = "threw"
  /\ call' = [call EXCEPT ![w] = NoCall]
  /\ UNCHANGED <<mapVars, netVars, accept, handler, queue, sendVars, logVars, crashed, budget,
                 ghostVars>>

(* The daily clearing, on the main thread. *)
ClearHistory ==
  /\ ~crashed /\ budget.clears > 0 /\ history > 0
  /\ budget' = [budget EXCEPT !.clears = @ - 1]
  /\ history' = 0
  /\ UNCHANGED <<mapVars, netVars, accept, handler, queue, sendVars, push, lines, call, crashed,
                 ghostVars>>

(* A worker logs. *)
WorkerLogs(w) ==
  /\ ~crashed /\ Idle(w) /\ budget.lines > 0
  /\ budget' = [budget EXCEPT !.lines = @ - 1]
  /\ StartLog(w)
  /\ UNCHANGED <<mapVars, netVars, accept, handler, queue, sendVars, logVars, crashed, ghostVars>>

-----------------------------------------------------------------------------
(* The accept loop. *)

(* A client connects; the loop logs before it inserts. *)
AcceptWebSocket ==
  /\ ~crashed /\ accept = "wait" /\ m_ID <= MaxConnections
  /\ socket' = [socket EXCEPT ![m_ID] = "open"]
  /\ peer' = [peer EXCEPT ![m_ID] = TRUE]
  /\ accept' = "log"
  /\ StartLog(Acceptor)
  /\ UNCHANGED <<mapVars, handler, queue, sendVars, logVars, crashed, budget, ghostVars>>

(* Wrong variant: the id is not used up. *)
InsertConnection_SameId ==
  /\ ~crashed /\ accept = "log" /\ Idle(Acceptor)
  /\ connections' = connections \union {m_ID}
  /\ inserts' = inserts + 1
  /\ m_ID' = m_ID
  /\ handler' = [handler EXCEPT ![m_ID] = "receive"]
  /\ accept' = "wait"
  /\ UNCHANGED <<netVars, queue, sendVars, logVars, call, crashed, budget, ghostVars>>

InsertConnection ==
  /\ ~crashed /\ accept = "log" /\ Idle(Acceptor)
  /\ connections' = connections \union {m_ID}
  /\ inserts' = inserts + 1
  /\ m_ID' = m_ID + 1
  /\ handler' = [handler EXCEPT ![m_ID] = "receive"]
  /\ accept' = "wait"
  /\ UNCHANGED <<netVars, queue, sendVars, logVars, call, crashed, budget, ghostVars>>

(* The client closes the connection or is cut off. *)
PeerLeaves(c) ==
  /\ peer[c] /\ budget.departures > 0
  /\ budget' = [budget EXCEPT !.departures = @ - 1]
  /\ peer' = [peer EXCEPT ![c] = FALSE]
  /\ UNCHANGED <<mapVars, socket, accept, handler, queue, sendVars, logVars, call, crashed,
                 ghostVars>>

-----------------------------------------------------------------------------
(* The handler thread of a connection: ShutDownConnection in three steps. *)

(* ReceiveAsync returns Close or throws, and the socket is disposed of. *)
DisposeSocket(c) ==
  /\ ~crashed /\ handler[c] = "receive"
  /\ ~Reachable(c)
  /\ socket' = [socket EXCEPT ![c] = "closed"]
  /\ handler' = [handler EXCEPT ![c] = "log"]
  /\ StartLog(c)
  /\ UNCHANGED <<mapVars, peer, accept, queue, sendVars, logVars, crashed, budget, ghostVars>>

(* Wrong variant: the entry stays. *)
RemoveConnection_Forgotten(c) ==
  /\ ~crashed /\ handler[c] = "log" /\ Idle(c)
  /\ handler' = [handler EXCEPT ![c] = "ended"]
  /\ UNCHANGED <<mapVars, netVars, accept, queue, sendVars, logVars, call, crashed, budget,
                 ghostVars>>

RemoveConnection(c) ==
  /\ ~crashed /\ handler[c] = "log" /\ Idle(c)
  /\ connections' = connections \ {c}
  /\ handler' = [handler EXCEPT ![c] = "ended"]
  /\ received' = [received EXCEPT ![c] = NoLine]
  /\ covered' = covered \ {c}
  /\ UNCHANGED <<m_ID, inserts, netVars, accept, queue, sendVars, logVars, call, crashed,
                 budget>>

-----------------------------------------------------------------------------
(* The send thread. *)

EndSend == send' = "idle" /\ frame' = NoFrame

(* TryDequeue and the test of the socket's state. *)
Dequeue ==
  /\ ~crashed /\ send = "idle" /\ Idle(Sender)
  /\ queue # <<>>
  /\ queue' = Tail(queue)
  /\ \/ /\ socket[Head(queue)] = "open"
        /\ frame' = [NoFrame EXCEPT !.to = Head(queue)]
        /\ send' = "measure"
     \/ /\ socket[Head(queue)] # "open"
        /\ UNCHANGED <<send, frame>>
  /\ UNCHANGED <<mapVars, netVars, accept, handler, logVars, call, crashed, budget,
                 ghostVars>>

(* ToByteArray: the size of the message is computed, *)
Measure ==
  /\ ~crashed /\ send = "measure"
  /\ frame' = [frame EXCEPT !.log = push]
  /\ send' = "write"
  /\ UNCHANGED <<mapVars, netVars, accept, handler, queue, logVars, call, crashed, budget,
                 ghostVars>>

(* then its fields are written, the index first. *)
Write ==
  /\ ~crashed /\ send = "write"
  /\ \E early \in BOOLEAN :
       frame' = [frame EXCEPT !.log = IF early THEN [@ EXCEPT !.line = push.line] ELSE push]
  /\ send' = "send"
  /\ UNCHANGED <<mapVars, netVars, accept, handler, queue, logVars, call, crashed, budget,
                 ghostVars>>

(* If the message has changed in between, its size may not fit: this throws,
   and the catch logs. *)
WriteThrows ==
  /\ ~crashed /\ send = "write"
  /\ frame.log # push
  /\ EndSend
  /\ StartLog(Sender)
  /\ UNCHANGED <<mapVars, netVars, accept, handler, queue, logVars, crashed, budget,
                 ghostVars>>

(* SendAsync.  A client that is gone may take the network a while to notice. *)
SendAsync ==
  /\ ~crashed /\ send = "send"
  /\ socket[frame.to] = "open"
  /\ received' = IF peer[frame.to] THEN [received EXCEPT ![frame.to] = frame.log]
                                ELSE received
  /\ EndSend
  /\ UNCHANGED <<mapVars, netVars, accept, handler, queue, logVars, call, crashed,
                 budget, covered>>

SendThrows ==
  /\ ~crashed /\ send = "send"
  /\ ~Reachable(frame.to)
  /\ socket' = [socket EXCEPT ![frame.to] = "closed"]
  /\ EndSend
  /\ StartLog(Sender)
  /\ UNCHANGED <<mapVars, peer, accept, handler, queue, logVars, crashed, budget,
                 ghostVars>>

-----------------------------------------------------------------------------
Log(t) ==
  \/ LogIndex(t)
  \/ LogText(t)
  \/ BeginBroadcast(t)
  \/ \E c \in Connection : BroadcastTo(t, c)
  \/ EndBroadcast(t)
  \/ BroadcastThrows(t)

Handle(c) == DisposeSocket(c) \/ RemoveConnection(c)

SendMessageThread ==
  \/ Dequeue \/ Measure \/ Write \/ WriteThrows \/ SendAsync \/ SendThrows

Next ==
  \/ \E t \in Threads : Log(t)
  \/ \E w \in Workers : WorkerLogs(w) \/ WorkerCatches(w)
  \/ \E c \in Connection : PeerLeaves(c) \/ Handle(c)
  \/ ClearHistory
  \/ AcceptWebSocket
  \/ InsertConnection
  \/ SendMessageThread

(* A handler thread that can run does, be it in Log or not: the operating
   system schedules it.  No other thread is assumed to. *)
Fairness == \A c \in Connection : WF_vars(Log(c)) /\ WF_vars(Handle(c))

Spec == Init /\ [][Next]_vars /\ Fairness

-----------------------------------------------------------------------------
(* Properties. *)

Lines == [index : Nat, line : Nat, epoch : 0 .. MaxClears]

(* Every variable is of its type. *)
TypeOK ==
  /\ m_ID \in 1 .. MaxConnections + 1
  /\ connections \subseteq 1 .. m_ID - 1
  /\ inserts \in 0 .. MaxConnections
  /\ socket \in [Connection -> {"none", "open", "closed"}]
  /\ peer \in [Connection -> BOOLEAN]
  /\ accept \in {"wait", "log"}
  /\ handler \in [Connection -> {"none", "receive", "log", "ended"}]
  /\ queue \in Seq(Connection)
  /\ send \in {"idle", "measure", "write", "send"}
  /\ frame \in [to : Connection \union {0}, log : Lines]
  /\ history \in Nat
  /\ push \in Lines
  /\ call \in [Threads -> [at : {"none", "lock", "assign", "enumerate", "broadcast", "threw"},
                           line : Nat, inserts : Nat, left : SUBSET Connection]]
  /\ crashed \in BOOLEAN
  /\ budget \in [departures : 0 .. MaxDepartures, lines : 0 .. MaxLines, clears : 0 .. MaxClears]
  /\ lines \in Nat
  /\ received \in [Connection -> Lines]
  /\ covered \subseteq Connection

Quiet ==
  /\ ~crashed
  /\ queue = <<>> /\ send = "idle"
  /\ \A t \in Threads : Idle(t)

(* Although the queued log messages are one object that later calls of Log
   overwrite, nobody is left behind: when nothing is under way, every client
   that was connected for some broadcast and still is has last received what
   the object holds now. *)
LatestLogReachesEveryone ==
  Quiet => \A c \in covered : Reachable(c) => received[c] = push

(* A client never sees the index go back, except across a clearing of the
   history, and never sees an index from before a clearing after one. *)
IndexNeverGoesBack ==
  [][\A c \in connections' :
       \/ received'[c].epoch > received[c].epoch
       \/ /\ received'[c].epoch = received[c].epoch
          /\ received'[c].index >= received[c].index]_<<received, connections>>

(* A connection whose client has left does not stay in the map, unless a
   broadcast that a new client interrupted brings the server down first. *)
LeftConnectionsGo ==
  \A c \in Connection :
    (c \in connections /\ ~peer[c]) ~> (c \notin connections \/ crashed)

(* The documented effect of BroadcastMessage: the message is queued for every
   client, here every one that is there from the beginning to the end of the
   call.  An insertion in between denies it (see the README). *)
BroadcastReachesAll ==
  \A t \in Threads : call[t].at = "threw" => call[t].left \intersect connections = {}

=============================================================================
