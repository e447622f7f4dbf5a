------------------------- MODULE ServerLogPushProofs -------------------------
(***************************************************************************)
(* The log lines that the server pushes: whoever a broadcast covers ends   *)
(* with the line of the shared object, and no client sees the index go     *)
(* back, for any number of connections, of threads that log and of lines.  *)
(***************************************************************************)
EXTENDS ServerLogPush, SequenceTheorems, TLAPS

USE DEF mapVars, netVars, sendVars, logVars, ghostVars, Connection

-----------------------------------------------------------------------------
(* Types.  A connection's id is used up by its insertion, and the send thread
   has a message when it is not idle. *)

TypeInv ==
  /\ TypeOK
  /\ inserts = m_ID - 1
  /\ accept = "log" => m_ID <= MaxConnections
  /\ send = "idle" => frame = NoFrame
  /\ send # "idle" => frame.to \in Connection

Points == {"none", "lock", "assign", "enumerate", "broadcast", "threw"}
Calls == [at : Points, line : Nat, inserts : Nat, left : SUBSET Connection]

(* Where a call of Log starts and ends. *)
LEMMA CallTypes ==
  /\ NoCall \in Calls
  /\ [NoCall EXCEPT !.at = "lock"] \in Calls
  /\ NoLine \in Lines
  /\ NoFrame \in [to : Connection \union {0}, log : Lines]
  BY BoundsAssumption DEF NoCall, Calls, Points, NoLine, Lines, NoFrame

(* The types hold at the start. *)
LEMMA InitTypeInv == Init => TypeInv
<1> SUFFICES ASSUME Init PROVE TypeInv
  OBVIOUS
<1>1. queue \in Seq(Connection)
  BY DEF Init
<1>2. budget \in [departures : 0 .. MaxDepartures, lines : 0 .. MaxLines, clears : 0 .. MaxClears]
  BY BoundsAssumption DEF Init
<1>3. call \in [Threads -> Calls]
  BY CallTypes DEF Init
<1>4. received \in [Connection -> Lines] /\ push \in Lines
  BY CallTypes DEF Init
<1>5. frame \in [to : Connection \union {0}, log : Lines] /\ frame = NoFrame
  BY CallTypes DEF Init
<1>6. m_ID \in 1 .. MaxConnections + 1 /\ connections \subseteq 1 .. m_ID - 1
      /\ inserts \in 0 .. MaxConnections /\ inserts = m_ID - 1
  BY BoundsAssumption DEF Init
<1>7. /\ socket \in [Connection -> {"none", "open", "closed"}]
      /\ peer \in [Connection -> BOOLEAN]
      /\ handler \in [Connection -> {"none", "receive", "log", "ended"}]
  BY DEF Init
<1> QED
  BY <1>1, <1>2, <1>3, <1>4, <1>5, <1>6, <1>7 DEF Init, TypeInv, TypeOK, Calls, Points

(* The steps of a call of Log keep the types. *)
LEMMA LogTypeStep ==
  ASSUME TypeInv, NEW t \in Threads, Log(t)
  PROVE  TypeInv'
<1> USE DEF TypeInv, TypeOK
<1>0. call \in [Threads -> Calls] /\ call[t] \in Calls
  BY DEF Calls, Points
<1>1. CASE LogIndex(t)
  <2>1. Epoch \in 0 .. MaxClears /\ history \in Nat
    BY BoundsAssumption DEF Epoch
  <2>2. push' \in Lines
    BY <1>1, <2>1 DEF LogIndex, Lines
  <2>3. call' \in [Threads -> Calls]
    <3> DEFINE new == [call[t] EXCEPT !.at = "assign", !.line = lines + 1]
    <3>1. new \in Calls
      <4>1. lines + 1 \in Nat
        OBVIOUS
      <4>2. ASSUME NEW k \in Calls, NEW n \in Nat
            PROVE  [k EXCEPT !.at = "assign", !.line = n] \in Calls
        BY DEF Calls, Points
      <4> QED
        BY <1>0, <4>1, <4>2
    <3>2. call' = [call EXCEPT ![t] = new]
      BY <1>0, <1>1 DEF LogIndex
    <3> HIDE DEF new
    <3> QED
      BY <1>0, <3>1, <3>2
  <2>4. history' \in Nat /\ lines' \in Nat
    BY <1>1 DEF LogIndex
  <2>5. /\ UNCHANGED <<m_ID, connections, inserts, socket, peer, accept, handler, queue, send,
                       frame, crashed, budget, received, covered>>
    BY <1>1 DEF LogIndex
  <2> QED
    BY <2>2, <2>3, <2>4, <2>5 DEF Calls, Points
<1>2. CASE LogText(t)
  <2>1. push' \in Lines
    BY <1>0, <1>2 DEF LogText, Lines, Calls
  <2>2. call' \in [Threads -> Calls]
    BY <1>0, <1>2 DEF LogText, Calls, Points
  <2> QED
    BY <1>2, <2>1, <2>2 DEF LogText, Calls, Points
<1>3. CASE BeginBroadcast(t)
  <2>1. connections \subseteq Connection /\ inserts \in Nat
    BY BoundsAssumption
  <2>2. call' \in [Threads -> Calls]
    BY <1>0, <1>3, <2>1 DEF BeginBroadcast, Calls, Points
  <2> QED
    BY <1>3, <2>1, <2>2 DEF BeginBroadcast, Calls, Points
<1>4. ASSUME NEW c \in Connection, BroadcastTo(t, c) PROVE TypeInv'
  <2>1. queue' \in Seq(Connection)
    BY <1>4 DEF BroadcastTo
  <2>2. call' \in [Threads -> Calls]
    BY <1>0, <1>4 DEF BroadcastTo, Calls, Points
  <2> QED
    BY <1>4, <2>1, <2>2 DEF BroadcastTo, Calls, Points
<1>5. CASE EndBroadcast(t)
  BY <1>0, <1>5, CallTypes DEF EndBroadcast, Calls, Points
<1>6. CASE BroadcastThrows(t)
  <2>1. call' \in [Threads -> Calls]
    BY <1>0, <1>6 DEF BroadcastThrows, Calls, Points
  <2>2. crashed' \in BOOLEAN
    BY <1>6 DEF BroadcastThrows
  <2> QED
    BY <1>6, <2>1, <2>2 DEF BroadcastThrows, Calls, Points
<1> QED
  BY <1>1, <1>2, <1>3, <1>4, <1>5, <1>6 DEF Log

(* So do the workers, the accept loop and the handler threads. *)
LEMMA ConnectionTypeStep ==
  ASSUME TypeInv,
         \/ \E w \in Workers : WorkerLogs(w) \/ WorkerCatches(w)
         \/ \E c \in Connection : PeerLeaves(c) \/ Handle(c)
         \/ ClearHistory \/ AcceptWebSocket \/ InsertConnection
  PROVE  TypeInv'
<1> USE DEF TypeInv, TypeOK, StartLog
<1>0. call \in [Threads -> Calls]
  BY DEF Calls, Points
<1>1. ASSUME NEW w \in Workers, WorkerLogs(w) \/ WorkerCatches(w) PROVE TypeInv'
  <2>1. call' \in [Threads -> Calls]
    BY <1>0, <1>1, CallTypes DEF WorkerLogs, WorkerCatches
  <2>2. budget' \in [departures : 0 .. MaxDepartures, lines : 0 .. MaxLines,
                     clears : 0 .. MaxClears]
    <3>1. budget \in [departures : 0 .. MaxDepartures, lines : 0 .. MaxLines, clears : 0 .. MaxClears]
      OBVIOUS
    <3>2. CASE WorkerLogs(w)
      <4>1. budget.lines > 0 /\ budget' = [budget EXCEPT !.lines = @ - 1]
        BY <3>2 DEF WorkerLogs
      <4> HIDE DEF TypeInv, TypeOK
      <4> QED
        BY <3>1, <4>1, BoundsAssumption
    <3>3. CASE WorkerCatches(w)
      BY <3>1, <3>3 DEF WorkerCatches
    <3> QED
      BY <1>1, <3>2, <3>3
  <2> QED
    BY <1>1, <2>1, <2>2 DEF WorkerLogs, WorkerCatches, Calls, Points
<1>2. ASSUME NEW c \in Connection, PeerLeaves(c) PROVE TypeInv'
  <2>1. budget' \in [departures : 0 .. MaxDepartures, lines : 0 .. MaxLines,
                     clears : 0 .. MaxClears]
    <3>1. budget \in [departures : 0 .. MaxDepartures, lines : 0 .. MaxLines, clears : 0 .. MaxClears]
      OBVIOUS
    <3>2. budget.departures > 0 /\ budget' = [budget EXCEPT !.departures = @ - 1]
      BY <1>2 DEF PeerLeaves
    <3> HIDE DEF TypeInv, TypeOK
    <3> QED
      BY <3>1, <3>2, BoundsAssumption
  <2> QED
    BY <1>2, <2>1 DEF PeerLeaves
<1>3. ASSUME NEW c \in Connection, DisposeSocket(c) PROVE TypeInv'
  <2>1. call' \in [Threads -> Calls]
    BY <1>0, <1>3, CallTypes DEF DisposeSocket
  <2> QED
    BY <1>3, <2>1 DEF DisposeSocket, Calls, Points
<1>4. ASSUME NEW c \in Connection, RemoveConnection(c) PROVE TypeInv'
  BY <1>4, CallTypes DEF RemoveConnection
<1>5. CASE ClearHistory
  <2>1. budget' \in [departures : 0 .. MaxDepartures, lines : 0 .. MaxLines,
                     clears : 0 .. MaxClears]
    <3>1. budget \in [departures : 0 .. MaxDepartures, lines : 0 .. MaxLines, clears : 0 .. MaxClears]
      OBVIOUS
    <3>2. budget.clears > 0 /\ budget' = [budget EXCEPT !.clears = @ - 1]
      BY <1>5 DEF ClearHistory
    <3> HIDE DEF TypeInv, TypeOK
    <3> QED
      BY <3>1, <3>2, BoundsAssumption
  <2> QED
    BY <1>5, <2>1 DEF ClearHistory
<1>6. CASE AcceptWebSocket
  <2>1. call' \in [Threads -> Calls]
    BY <1>0, <1>6, CallTypes DEF AcceptWebSocket
  <2> QED
    BY <1>6, <2>1, BoundsAssumption DEF AcceptWebSocket, Calls, Points
<1>7. CASE InsertConnection
  <2>1. m_ID \in 1 .. MaxConnections
    BY <1>7, BoundsAssumption DEF InsertConnection
  <2>2. connections' \subseteq 1 .. m_ID' - 1 /\ m_ID' \in 1 .. MaxConnections + 1
    BY <1>7, <2>1, BoundsAssumption DEF InsertConnection
  <2> QED
    BY <1>7, <2>1, <2>2, BoundsAssumption DEF InsertConnection
<1> QED
  BY <1>1, <1>2, <1>3, <1>4, <1>5, <1>6, <1>7 DEF Handle

(* So does the send thread. *)
LEMMA SendTypeStep ==
  ASSUME TypeInv, SendMessageThread
  PROVE  TypeInv'
<1> USE DEF TypeInv, TypeOK, StartLog, EndSend
<1>0. call \in [Threads -> Calls]
  BY DEF Calls, Points
<1>1. CASE Dequeue
  <2>1. Head(queue) \in Connection /\ queue' \in Seq(Connection)
    <3>1. queue \in Seq(Connection) /\ queue # <<>> /\ queue' = Tail(queue)
      BY <1>1 DEF Dequeue
    <3> QED
      BY <3>1, HeadTailProperties
  <2>2. frame' \in [to : Connection \union {0}, log : Lines]
    BY <1>1, <2>1, CallTypes DEF Dequeue, NoFrame
  <2> QED
    BY <1>1, <2>1, <2>2 DEF Dequeue, NoFrame
<1>2. CASE Measure
  BY <1>2 DEF Measure
<1>3. CASE Write
  <2>1. PICK early \in BOOLEAN :
          frame' = [frame EXCEPT !.log = IF early THEN [@ EXCEPT !.line = push.line] ELSE push]
    BY <1>3 DEF Write
  <2>2. frame'.log \in Lines /\ frame'.to = frame.to
        /\ frame' \in [to : Connection \union {0}, log : Lines]
    <3>1. CASE early
      BY <2>1, <3>1 DEF Lines
    <3>2. CASE ~early
      BY <2>1, <3>2
    <3> QED
      BY <3>1, <3>2
  <2> QED
    BY <1>3, <2>2 DEF Write
<1>4. CASE WriteThrows
  <2>1. call' \in [Threads -> Calls]
    BY <1>0, <1>4, CallTypes DEF WriteThrows
  <2> QED
    BY <1>4, <2>1, CallTypes DEF WriteThrows, Calls, Points
<1>5. CASE SendAsync
  BY <1>5, CallTypes DEF SendAsync
<1>6. CASE SendThrows
  <2>1. call' \in [Threads -> Calls]
    BY <1>0, <1>6, CallTypes DEF SendThrows
  <2> QED
    BY <1>6, <2>1, CallTypes DEF SendThrows, Calls, Points
<1> QED
  BY <1>1, <1>2, <1>3, <1>4, <1>5, <1>6 DEF SendMessageThread

(* So does every step. *)
LEMMA NextTypeInv ==
  ASSUME TypeInv, [Next]_vars
  PROVE  TypeInv'
<1>1. CASE UNCHANGED vars
  BY <1>1 DEF vars, TypeInv, TypeOK
<1> QED
  BY <1>1, LogTypeStep, ConnectionTypeStep, SendTypeStep DEF Next

(* Every variable is of its type, whatever is logged, sent, cleared and
   interrupted (WebSocketService.cs, UploadLoggerService.cs). *)
THEOREM TypesAlwaysCorrect == Spec => []TypeOK
<1>1. TypeInv => TypeOK
  BY DEF TypeInv
<1> QED
  BY <1>1, InitTypeInv, NextTypeInv, PTL DEF Spec

-----------------------------------------------------------------------------
(* The last line.  What the shared object holds changes inside a call of Log that
   has its broadcast still to come; so a client that does not have it will. *)

StillToBroadcast == \E t \in Threads : call[t].at \in {"lock", "assign", "enumerate"}

Promised(c) ==
  \/ StillToBroadcast
  \/ \E t \in Threads : call[t].at = "broadcast" /\ c \in call[t].left
  \/ \E i \in 1 .. Len(queue) : queue[i] = c

(* The message that the send thread works on overwrites what the client has. *)
UpToDate(c) ==
  IF frame.to = c THEN send = "measure" \/ frame.log = push
                  ELSE received[c] = push

Delivered ==
  /\ covered \subseteq connections
  /\ ~crashed => \A c \in covered : Reachable(c) => Promised(c) \/ UpToDate(c)

(* A call of Log that starts has its broadcast to come. *)
LEMMA StartPromises ==
  ASSUME TypeInv, NEW t \in Threads, StartLog(t)
  PROVE  StillToBroadcast'
<1>1. call'[t].at = "lock"
  BY DEF StartLog, TypeInv, TypeOK, NoCall
<1> QED
  BY <1>1 DEF StillToBroadcast

(* What is promised stays so while calls and queue stay. *)
LEMMA SamePromises ==
  ASSUME NEW c, Promised(c), UNCHANGED <<call, queue>>
  PROVE  Promised(c)'
  BY DEF Promised, StillToBroadcast

(* A step of a call of Log keeps the promise. *)
LEMMA LogDelivers ==
  ASSUME TypeInv, Delivered, NEW t \in Threads, Log(t)
  PROVE  Delivered'
<1> USE DEF Reachable
<1>0. /\ call \in [Threads -> Calls] /\ call[t] \in Calls
      /\ queue \in Seq(Connection)
  BY DEF TypeInv, TypeOK, Calls, Points
<1>1. CASE LogIndex(t) \/ LogText(t)
  <2>1. call'[t].at \in {"assign", "enumerate"}
    BY <1>0, <1>1 DEF LogIndex, LogText, Calls
  <2>2. StillToBroadcast'
    BY <2>1 DEF StillToBroadcast
  <2>3. UNCHANGED <<covered, connections>>
    BY <1>1 DEF LogIndex, LogText
  <2> QED
    BY <2>2, <2>3 DEF Delivered, Promised
<1>2. CASE BeginBroadcast(t)
  <2>1. /\ call'[t].at = "broadcast" /\ call'[t].left = connections
        /\ covered' = covered \union connections /\ connections' = connections
    BY <1>0, <1>2 DEF BeginBroadcast, Calls
  <2>2. covered' \subseteq connections
    BY <2>1 DEF Delivered
  <2>3. \A c \in covered' : Promised(c)'
    BY <2>1, <2>2 DEF Promised
  <2> QED
    BY <2>1, <2>2, <2>3 DEF Delivered
<1>3. ASSUME NEW d \in Connection, BroadcastTo(t, d) PROVE Delivered'
  <2>1. /\ queue' = Append(queue, d) /\ call' = [call EXCEPT ![t].left = @ \ {d}]
        /\ UNCHANGED <<covered, connections, socket, peer, crashed, frame, send, push, received>>
    BY <1>3 DEF BroadcastTo
  <2>2. /\ Len(queue') = Len(queue) + 1 /\ Len(queue) \in Nat
        /\ queue'[Len(queue) + 1] = d
        /\ \A i \in 1 .. Len(queue) : queue'[i] = queue[i]
    BY <1>0, <2>1
  <2>3. \A u \in Threads : call'[u].at = call[u].at
                           /\ call'[u].left \in {call[u].left, call[u].left \ {d}}
    BY <1>0, <2>1 DEF Calls
  <2>4. ASSUME NEW c, Promised(c) PROVE Promised(c)'
    <3>1. CASE StillToBroadcast
      BY <2>3, <3>1 DEF Promised, StillToBroadcast
    <3>2. CASE c = d
      <4>1. Len(queue) + 1 \in 1 .. Len(queue') /\ queue'[Len(queue) + 1] = c
        BY <2>2, <3>2
      <4> QED
        BY <4>1 DEF Promised
    <3>3. ASSUME c # d, NEW u \in Threads, call[u].at = "broadcast", c \in call[u].left
          PROVE  Promised(c)'
      BY <2>3, <3>3 DEF Promised
    <3>4. ASSUME NEW i \in 1 .. Len(queue), queue[i] = c
          PROVE  Promised(c)'
      <4>1. i \in 1 .. Len(queue') /\ queue'[i] = c
        BY <2>2, <3>4
      <4> QED
        BY <4>1 DEF Promised
    <3> QED
      BY <2>4, <3>1, <3>2, <3>3, <3>4 DEF Promised
  <2>5. ASSUME NEW c, UpToDate(c) PROVE UpToDate(c)'
    BY <2>1, <2>5 DEF UpToDate
  <2> QED
    BY <2>1, <2>4, <2>5 DEF Delivered
<1>4. CASE EndBroadcast(t) \/ BroadcastThrows(t)
  <2>1. /\ call[t].at = "broadcast" /\ ~crashed
        /\ \A u \in Threads : u # t => call'[u] = call[u]
        /\ UNCHANGED <<queue, connections, socket, peer, frame, send, push, received>>
        /\ covered' \subseteq covered
    BY <1>0, <1>4 DEF EndBroadcast, BroadcastThrows
  <2>2. ASSUME NEW c \in covered' PROVE c \notin call[t].left
    <3>1. c \in connections
      BY <2>1 DEF Delivered
    <3>2. CASE EndBroadcast(t)
      BY <3>1, <3>2 DEF EndBroadcast
    <3>3. CASE BroadcastThrows(t)
      BY <3>3 DEF BroadcastThrows
    <3> QED
      BY <1>4, <3>2, <3>3
  <2>3. ASSUME NEW c \in covered', Promised(c) PROVE Promised(c)'
    <3>1. CASE StillToBroadcast
      <4>1. PICK u \in Threads : call[u].at \in {"lock", "assign", "enumerate"}
        BY <3>1 DEF StillToBroadcast
      <4>2. u # t
        BY <2>1, <4>1
      <4> QED
        BY <2>1, <4>1, <4>2 DEF Promised, StillToBroadcast
    <3>2. ASSUME NEW u \in Threads, call[u].at = "broadcast", c \in call[u].left
          PROVE  Promised(c)'
      <4>1. u # t
        BY <2>2, <3>2
      <4> QED
        BY <2>1, <3>2, <4>1 DEF Promised
    <3>3. CASE \E i \in 1 .. Len(queue) : queue[i] = c
      BY <2>1, <3>3 DEF Promised
    <3> QED
      BY <2>3, <3>1, <3>2, <3>3 DEF Promised
  <2>4. ASSUME NEW c, UpToDate(c) PROVE UpToDate(c)'
    BY <2>1, <2>4 DEF UpToDate
  <2>5. ASSUME NEW c \in covered', Reachable(c)' PROVE Promised(c)' \/ UpToDate(c)'
    <3>1. c \in covered /\ Reachable(c)
      BY <2>1, <2>5
    <3> QED
      BY <2>1, <2>3, <2>4, <3>1 DEF Delivered
  <2>6. covered' \subseteq connections'
    BY <2>1 DEF Delivered
  <2> QED
    BY <2>5, <2>6 DEF Delivered
<1> QED
  BY <1>1, <1>2, <1>3, <1>4 DEF Log

(* So do the workers, the accept loop, the handler threads and the clients. *)
LEMMA ConnectionDelivers ==
  ASSUME TypeInv, Delivered,
         \/ \E w \in Workers : WorkerLogs(w) \/ WorkerCatches(w)
         \/ \E c \in Connection : PeerLeaves(c) \/ Handle(c)
         \/ ClearHistory \/ AcceptWebSocket \/ InsertConnection
  PROVE  Delivered'
<1> USE DEF Reachable
<1>0. /\ call \in [Threads -> Calls] /\ peer \in [Connection -> BOOLEAN]
      /\ received \in [Connection -> Lines]
  BY DEF TypeInv, TypeOK, Calls, Points
<1>1. ASSUME UNCHANGED <<covered, connections>>, StillToBroadcast'
      PROVE  Delivered'
  BY <1>1 DEF Delivered, Promised
<1>2. ASSUME NEW w \in Workers, WorkerLogs(w) PROVE Delivered'
  <2>1. StartLog(w) /\ w \in Threads
    BY <1>2 DEF WorkerLogs, Threads
  <2> QED
    BY <1>1, <1>2, <2>1, StartPromises DEF WorkerLogs
<1>3. ASSUME NEW w \in Workers, WorkerCatches(w) PROVE Delivered'
  <2>1. /\ call[w].at = "threw" /\ \A u \in Threads : u # w => call'[u] = call[u]
        /\ UNCHANGED <<queue, connections, covered, socket, peer, crashed, frame, send, push,
                       received>>
    BY <1>0, <1>3 DEF WorkerCatches
  <2>2. ASSUME NEW c, Promised(c) PROVE Promised(c)'
    BY <2>1, <2>2 DEF Promised, StillToBroadcast
  <2>3. ASSUME NEW c, UpToDate(c) PROVE UpToDate(c)'
    BY <2>1, <2>3 DEF UpToDate
  <2> QED
    BY <2>1, <2>2, <2>3 DEF Delivered
<1>4. ASSUME NEW d \in Connection, PeerLeaves(d) PROVE Delivered'
  <2>1. /\ UNCHANGED <<call, queue, connections, covered, socket, crashed, frame, send, push,
                       received>>
        /\ peer' = [peer EXCEPT ![d] = FALSE]
    BY <1>4 DEF PeerLeaves
  <2>2. ASSUME NEW c \in covered, Reachable(c)' PROVE Reachable(c)
    BY <1>0, <2>1, <2>2 DEF TypeInv, TypeOK, Delivered
  <2>3. ASSUME NEW c, UpToDate(c) PROVE UpToDate(c)'
    BY <2>1, <2>3 DEF UpToDate
  <2> QED
    BY <2>1, <2>2, <2>3, SamePromises DEF Delivered
<1>5. ASSUME NEW d \in Connection, DisposeSocket(d) PROVE Delivered'
  <2>1. StartLog(d) /\ d \in Threads
    BY <1>5 DEF DisposeSocket, Threads
  <2> QED
    BY <1>1, <1>5, <2>1, StartPromises DEF DisposeSocket
<1>6. ASSUME NEW d \in Connection, RemoveConnection(d) PROVE Delivered'
  <2>1. /\ UNCHANGED <<call, queue, socket, peer, crashed, frame, send, push>>
        /\ connections' = connections \ {d} /\ covered' = covered \ {d}
        /\ received' = [received EXCEPT ![d] = NoLine]
    BY <1>6 DEF RemoveConnection
  <2>2. ASSUME NEW c \in covered', UpToDate(c) PROVE UpToDate(c)'
    BY <1>0, <2>1, <2>2 DEF UpToDate
  <2> QED
    BY <2>1, <2>2, SamePromises DEF Delivered
<1>7. CASE ClearHistory \/ InsertConnection
  <2>1. /\ UNCHANGED <<call, queue, covered, socket, peer, crashed, frame, send, push, received>>
        /\ connections \subseteq connections'
    BY <1>7 DEF ClearHistory, InsertConnection
  <2>2. ASSUME NEW c, UpToDate(c) PROVE UpToDate(c)'
    BY <2>1, <2>2 DEF UpToDate
  <2> QED
    BY <2>1, <2>2, SamePromises DEF Delivered
<1>8. CASE AcceptWebSocket
  <2>1. StartLog(Acceptor) /\ Acceptor \in Threads
    BY <1>8 DEF AcceptWebSocket, Threads
  <2> QED
    BY <1>1, <1>8, <2>1, StartPromises DEF AcceptWebSocket
<1> QED
  BY <1>2, <1>3, <1>4, <1>5, <1>6, <1>7, <1>8 DEF Handle

(* So does the send thread. *)
LEMMA SendDelivers ==
  ASSUME TypeInv, Delivered, SendMessageThread
  PROVE  Delivered'
<1> USE DEF Reachable
<1>0. /\ received \in [Connection -> Lines] /\ covered \subseteq Connection
      /\ frame \in [to : Connection \union {0}, log : Lines]
      /\ queue \in Seq(Connection)
      /\ send = "idle" => frame.to = 0
      /\ 0 \notin Connection
  BY DEF TypeInv, TypeOK, NoFrame
<1>1. CASE Dequeue
  <2>1. /\ queue # <<>> /\ queue' = Tail(queue) /\ send = "idle"
        /\ UNCHANGED <<call, connections, covered, socket, peer, crashed, push, received>>
        /\ \/ frame' = [NoFrame EXCEPT !.to = Head(queue)] /\ send' = "measure"
           \/ socket[Head(queue)] # "open" /\ UNCHANGED <<send, frame>>
    BY <1>1 DEF Dequeue
  <2>2. /\ Len(queue) \in Nat \ {0} /\ Head(queue) = queue[1]
        /\ Len(queue') = Len(queue) - 1
        /\ \A i \in 1 .. Len(queue) - 1 : queue'[i] = queue[i + 1]
    BY <1>0, <2>1
  <2>3. ASSUME NEW c \in covered, Reachable(c), Promised(c)
        PROVE  Promised(c)' \/ UpToDate(c)'
    <3>1. CASE StillToBroadcast \/ \E t \in Threads : call[t].at = "broadcast" /\ c \in call[t].left
      BY <2>1, <3>1 DEF Promised, StillToBroadcast
    <3>2. ASSUME NEW i \in 1 .. Len(queue), queue[i] = c
          PROVE  Promised(c)' \/ UpToDate(c)'
      <4>1. CASE i = 1
        <5>1. frame'.to = c /\ send' = "measure"
          BY <2>1, <2>2, <2>3, <3>2, <4>1 DEF NoFrame
        <5> QED
          BY <5>1 DEF UpToDate
      <4>2. CASE i # 1
        <5>1. i - 1 \in 1 .. Len(queue') /\ queue'[i - 1] = queue[(i - 1) + 1] /\ (i - 1) + 1 = i
          BY <2>2, <4>2
        <5> QED
          BY <3>2, <5>1 DEF Promised
      <4> QED
        BY <4>1, <4>2
    <3> QED
      BY <2>3, <3>1, <3>2 DEF Promised
  <2>4. ASSUME NEW c \in covered, UpToDate(c) PROVE UpToDate(c)'
    <3>1. received'[c] = push'
      BY <1>0, <2>1, <2>4 DEF UpToDate
    <3>2. frame'.to = c => send' = "measure"
      BY <1>0, <2>1
    <3> QED
      BY <3>1, <3>2 DEF UpToDate
  <2> QED
    BY <2>1, <2>3, <2>4 DEF Delivered
<1>2. CASE Measure \/ Write
  <2>1. /\ UNCHANGED <<call, queue, connections, covered, socket, peer, crashed, push, received>>
        /\ frame'.to = frame.to
        /\ send # "measure" /\ frame.log = push => frame'.log = push
        /\ send = "measure" => frame'.log = push
    <3>1. CASE Measure
      BY <1>0, <3>1 DEF Measure
    <3>2. CASE Write
      <4>1. PICK early \in BOOLEAN :
              frame' = [frame EXCEPT !.log = IF early THEN [@ EXCEPT !.line = push.line] ELSE push]
        BY <3>2 DEF Write
      <4>2. frame'.to = frame.to /\ (frame.log = push => frame'.log = push)
        <5>1. push = [push EXCEPT !.line = push.line]
          BY DEF TypeInv, TypeOK, Lines
        <5> QED
          BY <1>0, <4>1, <5>1
      <4> QED
        BY <3>2, <4>2 DEF Write
    <3> QED
      BY <1>2, <3>1, <3>2
  <2>2. ASSUME NEW c, UpToDate(c) PROVE UpToDate(c)'
    BY <2>1, <2>2 DEF UpToDate
  <2> QED
    BY <2>1, <2>2, SamePromises DEF Delivered
<1>3. CASE WriteThrows \/ SendThrows
  <2>1. StartLog(Sender) /\ Sender \in Threads /\ UNCHANGED <<covered, connections>>
    BY <1>3 DEF WriteThrows, SendThrows, Threads
  <2>2. StillToBroadcast'
    BY <2>1, StartPromises
  <2> QED
    BY <2>1, <2>2 DEF Delivered, Promised
<1>4. CASE SendAsync
  <2>1. /\ UNCHANGED <<call, queue, connections, covered, socket, peer, crashed, push>>
        /\ send = "send" /\ frame' = NoFrame
        /\ received' = IF peer[frame.to] THEN [received EXCEPT ![frame.to] = frame.log]
                                         ELSE received
    BY <1>4 DEF SendAsync, EndSend
  <2>2. ASSUME NEW c \in covered, Reachable(c), UpToDate(c) PROVE UpToDate(c)'
    <3>1. received'[c] = push
      <4>1. CASE frame.to = c
        BY <1>0, <2>1, <2>2, <4>1 DEF UpToDate
      <4>2. CASE frame.to # c
        BY <1>0, <2>1, <2>2, <4>2 DEF UpToDate
      <4> QED
        BY <4>1, <4>2
    <3>2. frame'.to # c
      BY <1>0, <2>1 DEF NoFrame
    <3> QED
      BY <2>1, <3>1, <3>2 DEF UpToDate
  <2> QED
    BY <2>1, <2>2, SamePromises DEF Delivered
<1> QED
  BY <1>1, <1>2, <1>3, <1>4 DEF SendMessageThread

(* For any number of connections and threads: when nothing is under way, whoever
   a broadcast covers has what the shared object holds
   (UploadLoggerService.cs:32-41, WebSocketService.cs:229-308). *)
THEOREM LatestLogIsDelivered == Spec => []LatestLogReachesEveryone
<1>1. Init => Delivered
  BY DEF Init, Delivered
<1>2. TypeInv /\ Delivered /\ [Next]_vars => Delivered'
  <2> SUFFICES ASSUME TypeInv, Delivered, [Next]_vars PROVE Delivered'
    OBVIOUS
  <2>1. CASE UNCHANGED vars
    BY <2>1 DEF vars, Delivered, Promised, StillToBroadcast, UpToDate, Reachable
  <2> QED
    BY <2>1, LogDelivers, ConnectionDelivers, SendDelivers DEF Next
<1>3. TypeInv /\ Delivered => LatestLogReachesEveryone
  <2> SUFFICES ASSUME TypeInv, Delivered, Quiet, NEW c \in covered, Reachable(c)
               PROVE  received[c] = push
    BY DEF LatestLogReachesEveryone
  <2>1. ~Promised(c)
    BY DEF Promised, StillToBroadcast, Quiet, Idle
  <2>2. UpToDate(c)
    BY <2>1 DEF Delivered, Quiet
  <2>3. frame.to = 0 /\ c # 0
    BY DEF TypeInv, TypeOK, Quiet, NoFrame
  <2> QED
    BY <2>2, <2>3 DEF UpToDate
<1> QED
  BY <1>1, <1>2, <1>3, InitTypeInv, NextTypeInv, PTL DEF Spec

-----------------------------------------------------------------------------
(* The index.  The object's index is that of the latest line of the history, and
   no message under way, nor any that a client has, is later. *)

NotAfter(a, b) == a.epoch < b.epoch \/ (a.epoch = b.epoch /\ a.index <= b.index)

Ordered ==
  /\ push.epoch <= Epoch
  /\ push.epoch = Epoch => push.index <= history
  /\ \A c \in Connection : NotAfter(received[c], push)
  /\ send \in {"write", "send"} =>
       NotAfter(received[frame.to], frame.log) /\ NotAfter(frame.log, push)

(* The order of two messages is transitive, and ignores their text. *)
LEMMA NotAfterFacts ==
  /\ \A a \in Lines : NotAfter(a, a)
  /\ \A a, b, d \in Lines : NotAfter(a, b) /\ NotAfter(b, d) => NotAfter(a, d)
  /\ \A a, b, d \in Lines :
       NotAfter(a, b) /\ b.index = d.index /\ b.epoch = d.epoch => NotAfter(a, d)
  /\ \A a, b, d \in Lines :
       NotAfter(a, b) /\ a.index = d.index /\ a.epoch = d.epoch => NotAfter(d, b)
<1>1. \A a \in Lines : a.index \in Nat /\ a.epoch \in Nat
  BY BoundsAssumption DEF Lines
<1>2. \A a \in Lines : NotAfter(a, a)
  BY <1>1 DEF NotAfter
<1>3. \A a, b, d \in Lines : NotAfter(a, b) /\ NotAfter(b, d) => NotAfter(a, d)
  BY <1>1 DEF NotAfter
<1> QED
  BY <1>2, <1>3 DEF NotAfter

(* A step that moves the object on, or begins another epoch, and leaves clients
   and send thread alone. *)
LEMMA PushStep ==
  ASSUME TypeInv, TypeInv', Ordered, UNCHANGED <<received, send, frame>>,
         NotAfter(push, push'), push'.epoch <= Epoch',
         push'.epoch = Epoch' => push'.index <= history'
  PROVE  Ordered'
<1>1. /\ push \in Lines /\ push' \in Lines /\ frame.log \in Lines
      /\ \A c \in Connection : received[c] \in Lines
  BY DEF TypeInv, TypeOK
<1>2. \A c \in Connection : NotAfter(received[c], push')
  BY <1>1, NotAfterFacts DEF Ordered
<1>3. send \in {"write", "send"} => NotAfter(frame.log, push')
  BY <1>1, NotAfterFacts DEF Ordered
<1> QED
  BY <1>2, <1>3 DEF Ordered

(* A step of a call of Log keeps the order. *)
LEMMA LogOrdered ==
  ASSUME TypeInv, TypeInv', Ordered, NEW t \in Threads, LogIndex(t) \/ LogText(t)
  PROVE  Ordered'
<1>1. /\ push \in Lines /\ push.index \in Nat /\ push.epoch \in Nat
      /\ history \in Nat /\ Epoch \in Nat /\ Epoch' = Epoch
      /\ UNCHANGED <<received, send, frame>>
  <2>1. push \in Lines /\ history \in Nat
    BY DEF TypeInv, TypeOK
  <2>2. push.index \in Nat /\ push.epoch \in Nat
    BY <2>1, BoundsAssumption DEF Lines
  <2>3. Epoch \in Nat
    <3>1. budget.clears \in 0 .. MaxClears
      BY DEF TypeInv, TypeOK
    <3> QED
      BY <3>1, BoundsAssumption DEF Epoch
  <2>4. budget' = budget /\ UNCHANGED <<received, send, frame>>
    BY DEF LogIndex, LogText
  <2> QED
    BY <2>1, <2>2, <2>3, <2>4 DEF Epoch
<1>2. push.epoch <= Epoch /\ (push.epoch = Epoch => push.index <= history)
  BY DEF Ordered
<1>3. CASE LogIndex(t)
  <2>1. push'.index = history /\ push'.epoch = Epoch /\ history' = history + 1
    BY <1>1, <1>3 DEF LogIndex, Lines
  <2>2. NotAfter(push, push')
    BY <1>1, <1>2, <2>1 DEF NotAfter
  <2>3. push'.epoch <= Epoch' /\ push'.index <= history'
    BY <1>1, <2>1
  <2> QED
    BY <1>1, <2>2, <2>3, PushStep
<1>4. CASE LogText(t)
  <2>1. push'.index = push.index /\ push'.epoch = push.epoch /\ history' = history
    BY <1>1, <1>4 DEF LogText, Lines
  <2>2. NotAfter(push, push')
    BY <1>1, <2>1 DEF NotAfter
  <2> QED
    BY <1>1, <1>2, <2>1, <2>2, PushStep
<1> QED
  BY <1>3, <1>4

(* So does the daily clearing, which begins another epoch. *)
LEMMA ClearOrdered ==
  ASSUME TypeInv, TypeInv', Ordered, ClearHistory
  PROVE  Ordered'
<1>1. /\ push \in Lines /\ push.epoch \in Nat /\ Epoch \in Nat /\ Epoch' = Epoch + 1
      /\ UNCHANGED <<push, received, send, frame>>
  <2>1. push \in Lines
    BY DEF TypeInv, TypeOK
  <2>2. push.epoch \in Nat
    BY <2>1, BoundsAssumption DEF Lines
  <2>3. budget.clears \in 1 .. MaxClears /\ budget'.clears = budget.clears - 1
    BY BoundsAssumption DEF TypeInv, TypeOK, ClearHistory
  <2>4. Epoch \in Nat /\ Epoch' = Epoch + 1
    BY <2>3, BoundsAssumption DEF Epoch
  <2> QED
    BY <2>1, <2>2, <2>4 DEF ClearHistory
<1>2. push.epoch <= Epoch
  BY DEF Ordered
<1>3. push'.epoch <= Epoch' /\ push'.epoch # Epoch' /\ NotAfter(push, push')
  BY <1>1, <1>2, NotAfterFacts
<1> QED
  BY <1>1, <1>3, PushStep

(* The other steps leave object, history and epoch alone. *)
LEMMA OthersKeepPush ==
  ASSUME TypeInv, [Next]_vars, ~ClearHistory,
         \A t \in Threads : ~LogIndex(t) /\ ~LogText(t)
  PROVE  UNCHANGED <<push, history, Epoch>>
<1>1. /\ push' = push /\ history' = history
      /\ \/ budget' = budget
         \/ budget' = [budget EXCEPT !.lines = @ - 1]
         \/ budget' = [budget EXCEPT !.departures = @ - 1]
  <2>1. CASE UNCHANGED vars
    BY <2>1 DEF vars
  <2>2. ASSUME NEW t \in Threads, Log(t)
        PROVE  push' = push /\ history' = history /\ budget' = budget
    BY <2>2 DEF Log, BeginBroadcast, BroadcastTo, EndBroadcast, BroadcastThrows
  <2>3. CASE SendMessageThread
    BY <2>3 DEF SendMessageThread, Dequeue, Measure, Write, WriteThrows, SendAsync, SendThrows
  <2>4. CASE \/ \E w \in Workers : WorkerLogs(w) \/ WorkerCatches(w)
             \/ \E c \in Connection : PeerLeaves(c) \/ Handle(c)
             \/ AcceptWebSocket \/ InsertConnection
    BY <2>4 DEF WorkerLogs, WorkerCatches, PeerLeaves, Handle, DisposeSocket, RemoveConnection,
                AcceptWebSocket, InsertConnection
  <2> QED
    BY <2>1, <2>2, <2>3, <2>4 DEF Next
<1>2. Epoch' = Epoch
  BY <1>1 DEF TypeInv, TypeOK, Epoch
<1> QED
  BY <1>1, <1>2

(* They give a client the message of the send thread, forget a client that left,
   or move the send thread on. *)
LEMMA OthersOnClients ==
  ASSUME [Next]_vars, ~ClearHistory,
         \A t \in Threads : ~LogIndex(t) /\ ~LogText(t)
  PROVE  \/ UNCHANGED <<received, send, frame>>
         \/ \E c \in Connection : RemoveConnection(c)
         \/ SendMessageThread
<1>1. CASE UNCHANGED vars
  BY <1>1 DEF vars
<1>2. ASSUME NEW t \in Threads, Log(t)
      PROVE  UNCHANGED <<received, send, frame>>
  BY <1>2 DEF Log, BeginBroadcast, BroadcastTo, EndBroadcast, BroadcastThrows
<1>3. CASE \/ \E w \in Workers : WorkerLogs(w) \/ WorkerCatches(w)
           \/ \E c \in Connection : PeerLeaves(c) \/ DisposeSocket(c)
           \/ AcceptWebSocket \/ InsertConnection
  BY <1>3 DEF WorkerLogs, WorkerCatches, PeerLeaves, DisposeSocket, AcceptWebSocket,
              InsertConnection
<1> QED
  BY <1>1, <1>2, <1>3 DEF Next, Handle

(* The send thread hands on what is not before anything the client had. *)
LEMMA SendOrdered ==
  ASSUME TypeInv, Ordered, SendMessageThread, UNCHANGED <<push, history, Epoch>>
  PROVE  /\ Ordered'
         /\ \A c \in Connection : NotAfter(received[c], received'[c])
<1>0. /\ push \in Lines /\ frame \in [to : Connection \union {0}, log : Lines]
      /\ received \in [Connection -> Lines]
      /\ send # "idle" => frame.to \in Connection
  BY DEF TypeInv, TypeOK
<1>1. CASE received' = received /\ send' \notin {"write", "send"}
  BY <1>0, <1>1, NotAfterFacts DEF Ordered
<1>2. CASE Dequeue \/ WriteThrows \/ SendThrows
  <2>1. received' = received /\ send' \notin {"write", "send"}
    <3>1. CASE Dequeue
      BY <3>1 DEF Dequeue
    <3>2. CASE WriteThrows \/ SendThrows
      BY <3>2 DEF WriteThrows, SendThrows, EndSend
    <3> QED
      BY <1>2, <3>1, <3>2
  <2> QED
    BY <1>1, <2>1
<1>3. CASE Measure
  <2>1. /\ received' = received /\ frame'.to = frame.to /\ frame'.log = push
        /\ frame.to \in Connection
    BY <1>0, <1>3 DEF Measure
  <2> QED
    BY <1>0, <2>1, NotAfterFacts DEF Ordered
<1>4. CASE Write
  <2>1. PICK early \in BOOLEAN :
          frame' = [frame EXCEPT !.log = IF early THEN [@ EXCEPT !.line = push.line] ELSE push]
    BY <1>4 DEF Write
  <2>2. /\ received' = received /\ frame'.to = frame.to /\ frame.to \in Connection
        /\ send = "write"
    BY <1>0, <1>4, <2>1 DEF Write
  <2>3. NotAfter(received[frame.to], frame.log) /\ NotAfter(frame.log, push)
    BY <2>2 DEF Ordered
  <2>4. NotAfter(received[frame.to], frame'.log) /\ NotAfter(frame'.log, push)
    <3>1. CASE early
      <4>1. /\ frame'.log \in Lines
            /\ frame'.log.index = frame.log.index /\ frame'.log.epoch = frame.log.epoch
        BY <1>0, <2>1, <3>1 DEF Lines
      <4>2. received[frame.to] \in Lines /\ frame.log \in Lines
        BY <1>0, <2>2
      <4> QED
        BY <1>0, <2>3, <4>1, <4>2, NotAfterFacts
    <3>2. CASE ~early
      <4>1. frame'.log = push
        BY <1>0, <2>1, <3>2
      <4> QED
        BY <1>0, <2>2, <4>1, NotAfterFacts DEF Ordered
    <3> QED
      BY <3>1, <3>2
  <2> QED
    BY <1>0, <2>2, <2>4, NotAfterFacts DEF Ordered
<1>5. CASE SendAsync
  <2>1. /\ send = "send" /\ send' = "idle" /\ frame.to \in Connection
        /\ received' \in {received, [received EXCEPT ![frame.to] = frame.log]}
    BY <1>0, <1>5 DEF SendAsync, EndSend
  <2>2. NotAfter(received[frame.to], frame.log) /\ NotAfter(frame.log, push)
    BY <2>1 DEF Ordered
  <2>3. \A c \in Connection : NotAfter(received[c], received'[c]) /\ NotAfter(received'[c], push)
    BY <1>0, <2>1, <2>2, NotAfterFacts DEF Ordered
  <2> QED
    BY <2>1, <2>3 DEF Ordered
<1> QED
  BY <1>2, <1>3, <1>4, <1>5 DEF SendMessageThread

(* Every entry of the map has one of the ids. *)
LEMMA ConnectionsHaveIds ==
  ASSUME TypeInv'
  PROVE  connections' \subseteq Connection
<1> SUFFICES ASSUME NEW c \in connections'
             PROVE  c \in 1 .. MaxConnections
  OBVIOUS
<1>1. m_ID' \in 1 .. MaxConnections + 1
  BY DEF TypeInv, TypeOK
<1>2. connections' \subseteq 1 .. m_ID' - 1
  BY DEF TypeInv, TypeOK
<1>3. c \in 1 .. m_ID' - 1
  BY <1>2
<1>4. MaxConnections \in Nat
  BY BoundsAssumption
<1>5. ASSUME NEW i \in 1 .. MaxConnections + 1, NEW n \in 1 .. i - 1
      PROVE  n \in 1 .. MaxConnections
  BY <1>4
<1> QED
  BY <1>1, <1>3, <1>5

(* Every step keeps the order, and takes no client back that stays. *)
LEMMA NextOrdered ==
  ASSUME TypeInv, TypeInv', Ordered, [Next]_vars
  PROVE  /\ Ordered'
         /\ \A c \in connections' : NotAfter(received[c], received'[c])
<1>0. /\ received \in [Connection -> Lines] /\ connections' \subseteq Connection
      /\ push \in Lines
  BY ConnectionsHaveIds DEF TypeInv, TypeOK
<1>1. ASSUME NEW t \in Threads, LogIndex(t) \/ LogText(t)
      PROVE  Ordered' /\ received' = received
  BY <1>1, LogOrdered DEF LogIndex, LogText
<1>2. CASE ClearHistory
  BY <1>2, ClearOrdered, <1>0, NotAfterFacts DEF ClearHistory
<1>3. CASE ~ClearHistory /\ \A t \in Threads : ~LogIndex(t) /\ ~LogText(t)
  <2>1. UNCHANGED <<push, history, Epoch>>
    BY <1>3, OthersKeepPush
  <2>2. CASE UNCHANGED <<received, send, frame>>
    BY <1>0, <2>1, <2>2, NotAfterFacts DEF Ordered
  <2>3. ASSUME NEW d \in Connection, RemoveConnection(d)
        PROVE  /\ Ordered'
               /\ \A c \in connections' : NotAfter(received[c], received'[c])
    <3>1. /\ received' = [received EXCEPT ![d] = NoLine] /\ UNCHANGED <<send, frame>>
          /\ connections' = connections \ {d}
      BY <2>3 DEF RemoveConnection
    <3>2. \A a \in Lines : NotAfter(NoLine, a)
      BY BoundsAssumption DEF NotAfter, NoLine, Lines
    <3>3. \A c \in Connection : NotAfter(received'[c], push)
      BY <1>0, <3>1, <3>2 DEF Ordered
    <3>4. frame.log \in Lines /\ (send # "idle" => frame.to \in Connection)
      BY DEF TypeInv, TypeOK
    <3>5. send \in {"write", "send"} => NotAfter(received'[frame.to], frame.log)
      BY <1>0, <3>1, <3>2, <3>4 DEF Ordered
    <3>6. \A c \in connections' : NotAfter(received[c], received'[c])
      BY <1>0, <3>1, NotAfterFacts
    <3> QED
      BY <2>1, <3>1, <3>3, <3>5, <3>6 DEF Ordered
  <2>4. CASE SendMessageThread
    BY <1>0, <2>1, <2>4, SendOrdered
  <2> QED
    BY <1>3, <2>2, <2>3, <2>4, OthersOnClients
<1> QED
  BY <1>0, <1>1, <1>2, <1>3, NotAfterFacts

(* For any number of connections, threads and clearings: no client sees the index
   go back within one day's history (UploadLoggerService.cs:32-41,
   WebSocketService.cs:229-308). *)
THEOREM IndexNeverFalls == Spec => IndexNeverGoesBack
<1>1. Init => Ordered
  BY BoundsAssumption DEF Init, Ordered, NotAfter, NoLine, Epoch
<1>2. TypeInv /\ TypeInv' /\ Ordered /\ [Next]_vars => Ordered'
  BY NextOrdered
<1>3. TypeInv /\ TypeInv' /\ Ordered /\ [Next]_vars =>
        [\A c \in connections' :
           \/ received'[c].epoch > received[c].epoch
           \/ /\ received'[c].epoch = received[c].epoch
              /\ received'[c].index >= received[c].index]_<<received, connections>>
  <2> SUFFICES ASSUME TypeInv, TypeInv', Ordered, [Next]_vars, NEW c \in connections'
               PROVE  \/ received'[c].epoch > received[c].epoch
                      \/ /\ received'[c].epoch = received[c].epoch
                         /\ received'[c].index >= received[c].index
    OBVIOUS
  <2>1. received[c] \in Lines /\ received'[c] \in Lines
    BY ConnectionsHaveIds DEF TypeInv, TypeOK
  <2>2. NotAfter(received[c], received'[c])
    BY NextOrdered
  <2> QED
    BY <2>1, <2>2, BoundsAssumption DEF NotAfter, Lines
<1> QED
  BY <1>1, <1>2, <1>3, InitTypeInv, NextTypeInv, PTL DEF Spec, IndexNeverGoesBack
=============================================================================
