------------------------ MODULE SequentialPartsProofs ------------------------
(***************************************************************************)
(* The parts that share nothing, for every value of their constants: the   *)
(* client's connection, the coroutines that place orders, the two-way      *)
(* dictionary, the client's scroll view and bottom popup, the market       *)
(* overview and the query of past candles; and all of them together, with  *)
(* the planned tasks, of which PlannedTaskSchedulerProofs has the theorems. *)
(***************************************************************************)
EXTENDS SequentialParts, PlannedTaskSchedulerProofs, SequenceTheorems, FiniteSumTheorems, TLAPS

-----------------------------------------------------------------------------
(* The timers of the connection. *)

(* Only retries raise the count and only a connection, which resets it, stops the
   timer. *)
CountedWhileRetrying ==
  /\ m_retryCount \in Nat
  /\ retryTimer = Stopped \/ retryTimer \in Nat
  /\ retryTimer = Stopped => m_retryCount = 0

(* The inductive invariant. *)
ConnectionInv == CountedWhileRetrying /\ TimersMatchConnection

-----------------------------------------------------------------------------

(* No timer runs before the first call of connectUrl. *)
LEMMA ConnectionInit == WebSocketInit => ConnectionInv
  BY DEF WebSocketInit, ConnectionInv, CountedWhileRetrying, TimersMatchConnection, Stopped

(* Every slot of the client, and everything around it, keeps the invariant. *)
LEMMA ConnectionStep ==
  ASSUME ConnectionInv, [WebSocketNext]_webSocketVars
  PROVE  ConnectionInv'
<1> USE DEF ConnectionInv, CountedWhileRetrying, TimersMatchConnection, Stopped
<1>1. CASE connectUrl
  BY <1>1 DEF connectUrl, open, linkVars
<1>2. CASE onConnected
  BY <1>2 DEF onConnected, linkVars
<1>3. CASE disconnected
  <2>1. m_retryCount < MaxRetries => retryTimer' = 0
    BY <1>3 DEF disconnected, onDisconnected
  <2>2. ~(m_retryCount < MaxRetries) => retryTimer' = retryTimer
    BY <1>3 DEF disconnected, onDisconnected
  <2>3. UNCHANGED <<m_retryCount, connectCalls>> /\ webSocket # "closed" /\ webSocket' = "closed"
    BY <1>3 DEF disconnected
  <2>4. heartbeatTimer' = FALSE
    BY <1>3 DEF disconnected, onDisconnected
  <2>5. /\ retryTimer' = Stopped \/ retryTimer' \in Nat
        /\ retryTimer' = Stopped => m_retryCount = 0
        /\ m_retryCount < MaxRetries => retryTimer' # Stopped
    BY <2>1, <2>2
  <2> QED
    BY <2>3, <2>4, <2>5
<1>4. CASE onRetryConnection
  BY <1>4, RetryAssumption DEF onRetryConnection, open, linkVars
<1>5. CASE ClientTick
  BY <1>5 DEF ClientTick, linkVars
<1>6. CASE ServerGoesDown \/ ServerComesUp
  BY <1>6 DEF ServerGoesDown, ServerComesUp
<1>7. CASE UNCHANGED webSocketVars
  BY <1>7 DEF webSocketVars, linkVars
<1> QED
  BY <1>1, <1>2, <1>3, <1>4, <1>5, <1>6, <1>7 DEF WebSocketNext, WebSocketStep

(* A connection that is up has its heartbeats and no retry to tear it down, one that
   is down has no heartbeats and, below the limit of retries, a retry to come
   (WebSocketClient.cpp:59-81 and 99-103). *)
THEOREM TimersAgree == WebSocketSpec => []TimersMatchConnection
<1>1. WebSocketInit => ConnectionInv
  BY ConnectionInit
<1>2. ConnectionInv /\ [WebSocketNext]_webSocketVars => ConnectionInv'
  BY ConnectionStep
<1>3. ConnectionInv => TimersMatchConnection
  BY DEF ConnectionInv
<1> QED
  BY <1>1, <1>2, <1>3, PTL DEF WebSocketSpec

-----------------------------------------------------------------------------
(* The placements and the callbacks of the orders. *)

OrdersSpec == OrdersInit /\ [][OrdersNext]_orderVars

Points == {"unstarted", "begin", "placed", "waiting", "placedAgain", "end"}
States == {"none", "running", "answered", "faulted"}

(* What each of the histories is a function of. *)
Shapes ==
  /\ resumeAt \in [Orders -> Points] /\ task \in [Orders -> States]
  /\ placements \in [Orders -> Nat] /\ callbacks \in [Orders -> Nat]

(* What an order's coroutine has done, by where it goes on. *)
Unplaced(o)        == placements[o] = 0 /\ callbacks[o] = 0 /\ o \notin waited
PlacedOnce(o)      == placements[o] = 1 /\ callbacks[o] = 0 /\ o \notin waited
CalledBack(o)      ==
  IF o \in WithCallback THEN callbacks[o] = 1 ELSE callbacks[o] = 0
Waiting(o)         ==
  placements[o] = 1 /\ CalledBack(o) /\ (o \in WithCallback => task[o] = "answered")
PlacedAgain(o)     ==
  placements[o] = 2 /\ CalledBack(o) /\ o \in AutoCancelled /\ o \in waited

Progress(o) ==
  /\ resumeAt[o] \in {"unstarted", "begin"} => Unplaced(o)
  /\ resumeAt[o] = "placed" => PlacedOnce(o) /\ task[o] # "none"
  /\ resumeAt[o] = "waiting" => Waiting(o) /\ (o \in waited => o \in AutoCancelled)
  /\ resumeAt[o] = "placedAgain" => PlacedAgain(o)
  /\ resumeAt[o] = "end" =>
       PlacedOnce(o) \/ (Waiting(o) /\ o \notin waited) \/ PlacedAgain(o)

(* The inductive invariant. *)
OrdersInv == Shapes /\ \A o \in Orders : Progress(o)

-----------------------------------------------------------------------------

(* Nothing has been placed at first. *)
LEMMA OrdersStart == OrdersInit => OrdersInv
  BY DEF OrdersInit, OrdersInv, Shapes, Points, States, Progress, Unplaced

(* Each step of a coroutine, up to its next yield, keeps every order's account. *)
LEMMA MoveNextInv ==
  ASSUME OrdersInv, NEW o \in Orders, IsReady(o), MoveNext(o), UNCHANGED waited
  PROVE  OrdersInv'
<1> USE DEF OrdersInv, Shapes, Points, States, Progress, Unplaced, PlacedOnce, CalledBack,
            Waiting, PlacedAgain
<1>1. CASE resumeAt[o] = "begin" /\ APIPlaceOrderAsync(o) /\ Yields(o, "placed") /\ UNCHANGED callbacks
  BY <1>1 DEF APIPlaceOrderAsync, Yields
<1>2. CASE /\ resumeAt[o] = "placed" /\ o \in WithCallback /\ task[o] # "faulted"
           /\ callbacks' = [callbacks EXCEPT ![o] = @ + 1]
           /\ Throws(o) \/ (Yields(o, "waiting") /\ UNCHANGED <<task, placements>>)
  <2>1. task[o] = "answered"
    BY <1>2 DEF IsReady
  <2>2. Shapes'
    BY <1>2 DEF Yields, Throws
  <2>3. ASSUME NEW p \in Orders PROVE Progress(p)'
    <3>1. CASE Throws(o)
      BY <1>2, <2>1, <3>1 DEF Throws
    <3>2. CASE Yields(o, "waiting") /\ UNCHANGED <<task, placements>>
      BY <1>2, <2>1, <3>2 DEF Yields
    <3> QED
      BY <1>2, <3>1, <3>2
  <2> QED
    BY <2>2, <2>3
<1>3. CASE /\ resumeAt[o] = "placed" /\ o \in WithCallback /\ task[o] = "faulted"
           /\ Throws(o) /\ UNCHANGED callbacks
  BY <1>3 DEF Throws
<1>7. CASE /\ resumeAt[o] = "placed" /\ o \notin WithCallback
           /\ Yields(o, "waiting") /\ UNCHANGED <<task, placements, callbacks>>
  BY <1>7 DEF Yields
<1>4. CASE /\ resumeAt[o] = "waiting" /\ o \in AutoCancelled
           /\ APIPlaceOrderAsync(o) /\ Yields(o, "placedAgain") /\ UNCHANGED callbacks
  <2>1. o \in waited
    BY <1>4 DEF IsReady
  <2>2. Shapes'
    BY <1>4 DEF APIPlaceOrderAsync, Yields
  <2>3. ASSUME NEW p \in Orders PROVE Progress(p)'
    <3>1. CASE p # o
      BY <1>4, <3>1 DEF APIPlaceOrderAsync, Yields
    <3>2. CASE p = o
      <4>1. placements[o] = 1 /\ CalledBack(o)
        BY <1>4, <3>2
      <4>2. placements'[o] = 2 /\ CalledBack(o)' /\ resumeAt'[o] = "placedAgain"
        BY <1>4, <3>2, <4>1 DEF APIPlaceOrderAsync, Yields
      <4> QED
        BY <2>1, <3>2, <4>2
    <3> QED
      BY <3>1, <3>2
  <2> QED
    BY <2>2, <2>3
<1>5. CASE resumeAt[o] = "waiting" /\ o \notin AutoCancelled /\ Ends(o)
  BY <1>5 DEF Ends
<1>6. CASE resumeAt[o] \in {"placedAgain", "end"} /\ Ends(o)
  BY <1>6 DEF Ends
<1> QED
  BY <1>1, <1>2, <1>3, <1>4, <1>5, <1>6, <1>7 DEF MoveNext

(* A step of anything else would touch no order's account. *)
LEMMA NoOrderInv ==
  ASSUME OrdersInv, NEW o, o \notin Orders, MoveNext(o), UNCHANGED waited
  PROVE  OrdersInv'
<1>1. UNCHANGED <<resumeAt, task, placements, callbacks>>
  BY DEF OrdersInv, Shapes, MoveNext, Yields, Ends, Throws, APIPlaceOrderAsync
<1> QED
  BY <1>1 DEF OrdersInv, Shapes, Progress, Unplaced, PlacedOnce, CalledBack, Waiting, PlacedAgain

(* And so does every other step. *)
LEMMA OrdersStep ==
  ASSUME OrdersInv, [OrdersNext]_orderVars
  PROVE  OrdersInv'
<1> USE DEF OrdersInv, Shapes, Points, States, Progress, Unplaced, PlacedOnce, CalledBack,
            Waiting, PlacedAgain
<1>1. CASE BeginOnUpdate
  BY <1>1 DEF BeginOnUpdate
<1>2. CASE Visit
  <2> DEFINE o == coroutines[index]
  <2>1. CASE IsReady(o) /\ MoveNext(o)
    <3>1. UNCHANGED waited
      BY <1>2 DEF Visit
    <3>2. CASE o \in Orders
      BY <2>1, <3>1, <3>2, MoveNextInv
    <3>3. CASE o \notin Orders
      BY <2>1, <3>1, <3>3, NoOrderInv
    <3> QED
      BY <3>2, <3>3
  <2>2. CASE UNCHANGED <<coroutines, resumeAt, task, placements, callbacks>>
    BY <1>2, <2>2 DEF Visit
  <2> QED
    BY <1>2, <2>1, <2>2 DEF Visit
<1>3. ASSUME NEW o \in Orders, PlaceOrderAsync(o) PROVE OrdersInv'
  BY <1>3 DEF PlaceOrderAsync
<1>4. ASSUME NEW o \in Orders, RemoveCoroutine(o) PROVE OrdersInv'
  BY <1>4 DEF RemoveCoroutine
<1>5. ASSUME NEW o \in Orders, TaskEnds(o) PROVE OrdersInv'
  BY <1>5 DEF TaskEnds
<1>6. ASSUME NEW o \in Orders, WaitIsOver(o) PROVE OrdersInv'
  BY <1>6 DEF WaitIsOver
<1>7. CASE VisitThrows
  BY <1>7 DEF VisitThrows
<1>8. CASE UNCHANGED orderVars
  BY <1>8 DEF orderVars
<1> QED
  BY <1>1, <1>2, <1>3, <1>4, <1>5, <1>6, <1>7, <1>8 DEF OrdersNext

(* What an order's coroutine has done accounts for its placements. *)
LEMMA ProgressAccounts ==
  ASSUME Shapes, NEW o \in Orders, Progress(o)
  PROVE  /\ callbacks[o] <= IF o \in WithCallback THEN 1 ELSE 0
         /\ callbacks[o] = 1 /\ placements[o] = 1 => task[o] = "answered"
         /\ o \in WithCallback => placements[o] <= 1 + callbacks[o]
         /\ placements[o] > 1 => placements[o] = 2 /\ o \in AutoCancelled /\ o \in waited
         /\ resumeAt[o] = "end" => placements[o] = IF o \in waited THEN 2 ELSE 1
<1>1. resumeAt[o] \in Points
  BY DEF Shapes
<1>2. Unplaced(o) \/ PlacedOnce(o) \/ Waiting(o) \/ PlacedAgain(o)
  BY <1>1 DEF Progress, Points
<1>3. resumeAt[o] = "end" =>
        PlacedOnce(o) \/ (Waiting(o) /\ o \notin waited) \/ PlacedAgain(o)
  BY DEF Progress
<1> QED
  BY <1>2, <1>3 DEF Unplaced, PlacedOnce, CalledBack, Waiting, PlacedAgain

(* Each order that has a callback is called back once at most, with its answer,
   and not placed again after a placement that threw; each is placed again only if
   it is to be cancelled automatically and after its wait: for all orders under way
   at a time, whichever are removed (TradingService.cs:324-339). *)
THEOREM PlacementsAlwaysAccounted == OrdersSpec => []PlacementsAccounted
<1>1. OrdersInit => OrdersInv
  BY OrdersStart
<1>2. OrdersInv /\ [OrdersNext]_orderVars => OrdersInv'
  BY OrdersStep
<1>3. OrdersInv => PlacementsAccounted
  BY ProgressAccounts DEF OrdersInv, PlacementsAccounted
<1> QED
  BY <1>1, <1>2, <1>3, PTL DEF OrdersSpec

-----------------------------------------------------------------------------
(* The visits of an OnUpdate. *)

(* Two lists one after the other. *)
LEMMA Concatenation ==
  \A S : \A p, q \in Seq(S) :
    /\ p \o q \in Seq(S) /\ Len(p \o q) = Len(p) + Len(q)
    /\ \A i \in 1 .. Len(p) + Len(q) : (p \o q)[i] = IF i <= Len(p) THEN p[i] ELSE q[i - Len(p)]
<1> SUFFICES ASSUME NEW S, NEW p \in Seq(S), NEW q \in Seq(S)
             PROVE  /\ p \o q \in Seq(S) /\ Len(p \o q) = Len(p) + Len(q)
                    /\ \A i \in 1 .. Len(p) + Len(q) :
                         (p \o q)[i] = IF i <= Len(p) THEN p[i] ELSE q[i - Len(p)]
  OBVIOUS
<1>1. p \o q \in Seq(S)
  OBVIOUS
<1>2. Len(p \o q) = Len(p) + Len(q)
  OBVIOUS
<1>3. ASSUME NEW i \in 1 .. Len(p) + Len(q)
      PROVE  (p \o q)[i] = IF i <= Len(p) THEN p[i] ELSE q[i - Len(p)]
  OBVIOUS
<1> QED
  BY <1>1, <1>2, <1>3

(* The list without its k-th item, as List.Remove leaves it if no item is there
   twice. *)
LEMMA RemovedFromList ==
  ASSUME NEW S, NEW s \in Seq(S), \A i, j \in 1 .. Len(s) : s[i] = s[j] => i = j,
         NEW k \in 1 .. Len(s)
  PROVE  LET r == RemoveFirst(s, s[k]) IN
         /\ r \in Seq(S) /\ Len(r) = Len(s) - 1
         /\ \A i \in 1 .. Len(s) - 1 : r[i] = IF i < k THEN s[i] ELSE s[i + 1]
<1>1. {i \in 1 .. Len(s) : s[i] = s[k]} = {k}
  OBVIOUS
<1>2. Min({k}) = k
  BY DEF Min
<1>3. SelectInSeq(s, LAMBDA v : v = s[k]) = k
  BY <1>1, <1>2 DEF SelectInSeq
<1>4. RemoveFirst(s, s[k]) = SubSeq(s, 1, k - 1) \o SubSeq(s, k + 1, Len(s))
  BY <1>3 DEF RemoveFirst, RemoveAt
<1>5. SubSeq(s, 1, k - 1) \in Seq(S) /\ Len(SubSeq(s, 1, k - 1)) = k - 1
      /\ \A i \in 1 .. k - 1 : SubSeq(s, 1, k - 1)[i] = s[i]
  OBVIOUS
<1>6. SubSeq(s, k + 1, Len(s)) \in Seq(S) /\ Len(SubSeq(s, k + 1, Len(s))) = Len(s) - k
      /\ \A i \in 1 .. Len(s) - k : SubSeq(s, k + 1, Len(s))[i] = s[k + i]
  OBVIOUS
<1>0. Len(s) \in Nat
  OBVIOUS
<1> DEFINE p == SubSeq(s, 1, k - 1)
           q == SubSeq(s, k + 1, Len(s))
<1>7. p \o q \in Seq(S) /\ Len(p \o q) = Len(s) - 1
      /\ \A i \in 1 .. Len(s) - 1 : (p \o q)[i] = IF i <= k - 1 THEN p[i] ELSE q[i - (k - 1)]
  <2> HIDE DEF p, q
  <2>1. p \in Seq(S) /\ Len(p) = k - 1
    BY <1>5 DEF p
  <2>2. q \in Seq(S) /\ Len(q) = Len(s) - k
    BY <1>6 DEF q
  <2>3. /\ p \o q \in Seq(S) /\ Len(p \o q) = Len(p) + Len(q)
        /\ \A i \in 1 .. Len(p) + Len(q) :
             (p \o q)[i] = IF i <= Len(p) THEN p[i] ELSE q[i - Len(p)]
    <3>1. \A a, b \in Seq(S) :
            /\ a \o b \in Seq(S) /\ Len(a \o b) = Len(a) + Len(b)
            /\ \A i \in 1 .. Len(a) + Len(b) :
                 (a \o b)[i] = IF i <= Len(a) THEN a[i] ELSE b[i - Len(a)]
      BY Concatenation, Zenon
    <3> QED
      BY <2>1, <2>2, <3>1, Zenon
  <2>5. ASSUME NEW i \in 1 .. Len(s) - 1
        PROVE  (p \o q)[i] = IF i <= k - 1 THEN p[i] ELSE q[i - (k - 1)]
    <3>1. i \in 1 .. Len(p) + Len(q)
      BY <1>0, <2>1, <2>2
    <3> QED
      BY <2>1, <2>3, <3>1
  <2>6. Len(p \o q) = Len(s) - 1
    BY <1>0, <2>1, <2>2, <2>3
  <2> QED
    BY <2>3, <2>5, <2>6
<1>8. ASSUME NEW i \in 1 .. Len(s) - 1
      PROVE  (p \o q)[i] = IF i < k THEN s[i] ELSE s[i + 1]
  <2>1. i <= k - 1 => p[i] = s[i]
    BY <1>5
  <2>2. i > k - 1 => q[i - (k - 1)] = s[k + (i - (k - 1))]
    BY <1>6
  <2>3. i <= k - 1 \/ i > k - 1
    OBVIOUS
  <2>4. k + (i - (k - 1)) = i + 1
    OBVIOUS
  <2> HIDE DEF p, q
  <2> QED
    BY <1>7, <2>1, <2>2, <2>3, <2>4
<1> HIDE DEF p, q
<1>9. RemoveFirst(s, s[k]) = p \o q
  BY <1>4 DEF p, q
<1> QED
  BY <1>7, <1>8, <1>9

(* Each coroutine is in the list once: an order is started once. *)
Distinct(list) == \A i, j \in 1 .. Len(list) : list[i] = list[j] => i = j

(* What is still to be visited is at the index or below, and of what is there only
   as much is anything else as the list moved down. *)
VisitsLeft ==
  /\ \A o \in unvisited : \E i \in 1 .. Len(coroutines) : i <= index /\ coroutines[i] = o
  /\ index - shifts <= Len(coroutines)
  /\ \A i \in 1 .. index - shifts : coroutines[i] \in unvisited

(* The inductive invariant. *)
VisitInv ==
  /\ coroutines \in Seq(Orders) /\ index \in Nat /\ shifts \in Nat
  /\ resumeAt \in [Orders -> Points]
  /\ Distinct(coroutines)
  /\ \A i \in 1 .. Len(coroutines) : resumeAt[coroutines[i]] # "unstarted"
  /\ VisitsLeft

(* The list is empty at first. *)
LEMMA VisitStart == OrdersInit => VisitInv
  BY DEF OrdersInit, VisitInv, VisitsLeft, Distinct, Points

(* A visit ends with the coroutine kept, removed, or with an exception. *)
LEMMA VisitEnds ==
  ASSUME VisitInv, NEW o \in Orders, MoveNext(o)
  PROVE  /\ \E next \in Points \ {"unstarted"} : resumeAt' = [resumeAt EXCEPT ![o] = next]
         /\ \/ coroutines' = coroutines /\ index' = index - 1 /\ unvisited' = unvisited \ {o}
            \/ /\ coroutines' = RemoveFirst(coroutines, o)
               /\ index' = index - 1 /\ unvisited' = unvisited \ {o}
            \/ coroutines' = coroutines /\ index' = 0 /\ unvisited' = {}
  BY DEF MoveNext, Yields, Ends, Throws, Points

(* A coroutine is taken from the list. *)
LEMMA RemovalKeepsVisits ==
  ASSUME VisitInv, NEW k \in 1 .. Len(coroutines),
         NEW next \in Points \ {"unstarted"},
         resumeAt' \in {resumeAt, [resumeAt EXCEPT ![coroutines[k]] = next]},
         coroutines' = RemoveFirst(coroutines, coroutines[k]),
         unvisited' = unvisited \ {coroutines[k]},
         \/ index' = index /\ shifts' = IF k <= index THEN shifts + 1 ELSE shifts
         \/ index = k /\ index' = index - 1 /\ shifts' = shifts
  PROVE  VisitInv'
<1>1. /\ coroutines' \in Seq(Orders) /\ Len(coroutines') = Len(coroutines) - 1
      /\ \A i \in 1 .. Len(coroutines) - 1 :
           coroutines'[i] = IF i < k THEN coroutines[i] ELSE coroutines[i + 1]
  BY RemovedFromList DEF VisitInv, Distinct
<1>2. Len(coroutines) \in Nat /\ coroutines[k] \in Orders
  BY DEF VisitInv
<1>3. Distinct(coroutines)'
  BY <1>1, <1>2 DEF VisitInv, Distinct
<1>4. resumeAt' \in [Orders -> Points] /\ \A o \in Orders :
        resumeAt[o] # "unstarted" => resumeAt'[o] # "unstarted"
  BY <1>2 DEF VisitInv
<1>5. ASSUME NEW i \in 1 .. Len(coroutines') PROVE resumeAt'[coroutines'[i]] # "unstarted"
  BY <1>1, <1>2, <1>4 DEF VisitInv
<1> DEFINE at == index'
           moved == shifts'
<1>6. /\ at \in Nat /\ moved \in Nat /\ index \in Nat /\ shifts \in Nat
      /\ \/ at = index /\ moved = IF k <= index THEN shifts + 1 ELSE shifts
         \/ index = k /\ at = index - 1 /\ moved = shifts
  BY DEF VisitInv
<1>7. VisitsLeft'
  <2> HIDE DEF at, moved
  <2>1. index - shifts <= Len(coroutines)
    BY DEF VisitInv, VisitsLeft
  <2>2. at - moved <= Len(coroutines) - 1
    BY <1>2, <1>6, <2>1
  <2>3. ASSUME NEW i \in 1 .. at - moved
        PROVE  coroutines'[i] \in unvisited'
    <3>1. i \in 1 .. Len(coroutines) - 1
      BY <1>2, <1>6, <2>2
    <3>2. CASE i < k
      <4>1. i \in 1 .. index - shifts
        BY <1>6, <3>2
      <4>2. coroutines[i] \in unvisited /\ coroutines[i] # coroutines[k]
        BY <3>1, <3>2, <4>1 DEF VisitInv, VisitsLeft, Distinct
      <4> QED
        BY <1>1, <3>1, <3>2, <4>2
    <3>3. CASE ~(i < k)
      <4>1. i + 1 \in 1 .. index - shifts
        BY <1>6, <3>3
      <4>2. coroutines[i + 1] \in unvisited /\ coroutines[i + 1] # coroutines[k]
        BY <3>1, <3>3, <4>1 DEF VisitInv, VisitsLeft, Distinct
      <4> QED
        BY <1>1, <3>1, <3>3, <4>2
    <3> QED
      BY <3>2, <3>3
  <2>4. ASSUME NEW o \in unvisited'
        PROVE  \E i \in 1 .. Len(coroutines') : i <= at /\ coroutines'[i] = o
    <3>1. PICK j \in 1 .. Len(coroutines) : j <= index /\ coroutines[j] = o
      BY DEF VisitInv, VisitsLeft
    <3>2. j # k
      BY <3>1
    <3>3. CASE j < k
      <4>1. j \in 1 .. Len(coroutines) - 1 /\ coroutines'[j] = o /\ j <= at
        BY <1>1, <1>2, <1>6, <3>1, <3>3
      <4> QED
        BY <1>1, <4>1
    <3>4. CASE j > k
      <4>1. j - 1 \in 1 .. Len(coroutines) - 1 /\ ~(j - 1 < k) /\ (j - 1) + 1 = j
        BY <1>2, <3>4
      <4>2. coroutines'[j - 1] = o /\ j - 1 <= at
        BY <1>1, <1>2, <1>6, <3>1, <4>1
      <4> QED
        BY <1>1, <4>1, <4>2
    <3> QED
      BY <3>2, <3>3, <3>4
  <2>5. at - moved <= Len(coroutines')
    BY <1>1, <2>2
  <2> QED
    BY <2>3, <2>4, <2>5 DEF VisitsLeft, at, moved
<1> QED
  BY <1>1, <1>3, <1>4, <1>5, <1>6, <1>7 DEF VisitInv

(* A visit leaves to be visited what lies below it. *)
LEMMA VisitKeepsVisits ==
  ASSUME VisitInv, Visit
  PROVE  VisitInv'
<1> DEFINE o == coroutines[index]
<1>1. index \in 1 .. Len(coroutines) /\ o \in Orders /\ shifts' = shifts
  BY DEF Visit, VisitInv
<1>2. ASSUME coroutines' = coroutines, index' = index - 1, unvisited' = unvisited \ {o}
      PROVE  VisitsLeft'
  <2>1. index' - shifts' <= Len(coroutines')
    BY <1>1, <1>2 DEF VisitInv, VisitsLeft
  <2>2. ASSUME NEW i \in 1 .. index' - shifts' PROVE coroutines'[i] \in unvisited'
    <3>1. i \in 1 .. index - shifts /\ i # index /\ i \in 1 .. Len(coroutines)
      BY <1>1, <1>2 DEF VisitInv
    <3> QED
      BY <1>1, <1>2, <3>1 DEF VisitInv, VisitsLeft, Distinct
  <2>3. ASSUME NEW p \in unvisited'
        PROVE  \E i \in 1 .. Len(coroutines') : i <= index' /\ coroutines'[i] = p
    <3>1. PICK i \in 1 .. Len(coroutines) : i <= index /\ coroutines[i] = p
      BY <1>2 DEF VisitInv, VisitsLeft
    <3>2. i # index
      BY <1>2, <3>1
    <3> QED
      BY <1>1, <1>2, <3>1, <3>2
  <2> QED
    BY <2>1, <2>2, <2>3 DEF VisitsLeft
<1>3. CASE MoveNext(o)
  <2>1. PICK next \in Points \ {"unstarted"} : resumeAt' = [resumeAt EXCEPT ![o] = next]
    BY <1>1, <1>3, VisitEnds
  <2>2. CASE coroutines' = RemoveFirst(coroutines, o) /\ index' = index - 1 /\ unvisited' = unvisited \ {o}
    BY <1>1, <2>1, <2>2, RemovalKeepsVisits
  <2>3. CASE \/ coroutines' = coroutines /\ index' = index - 1 /\ unvisited' = unvisited \ {o}
             \/ coroutines' = coroutines /\ index' = 0 /\ unvisited' = {}
    <3>1. VisitsLeft'
      <4>1. CASE coroutines' = coroutines /\ index' = 0 /\ unvisited' = {}
        BY <1>1, <4>1 DEF VisitInv, VisitsLeft
      <4> QED
        BY <1>2, <2>3, <4>1
    <3>2. resumeAt' \in [Orders -> Points]
      BY <1>1, <2>1 DEF VisitInv
    <3>3. \A i \in 1 .. Len(coroutines) : resumeAt'[coroutines[i]] # "unstarted"
      BY <1>1, <2>1 DEF VisitInv
    <3>4. index' \in Nat
      BY <1>1, <2>3
    <3> HIDE DEF o
    <3> QED
      BY <1>1, <2>3, <3>1, <3>2, <3>3, <3>4 DEF VisitInv, Distinct
  <2> QED
    BY <1>1, <1>3, <2>2, <2>3, VisitEnds
<1>4. CASE /\ index' = index - 1 /\ unvisited' = unvisited \ {o}
           /\ UNCHANGED <<coroutines, resumeAt>>
  BY <1>1, <1>2, <1>4 DEF VisitInv, Distinct
<1> QED
  BY <1>3, <1>4 DEF Visit

(* Each step of the coroutines keeps what the visits rest on. *)
LEMMA VisitStep ==
  ASSUME VisitInv, [OrdersNext]_orderVars
  PROVE  VisitInv'
<1>1. CASE BeginOnUpdate
  <2>1. /\ coroutines' = coroutines /\ index' = Len(coroutines) /\ shifts' = 0
        /\ resumeAt' = resumeAt /\ Len(coroutines) \in Nat
        /\ unvisited' = {coroutines[i] : i \in 1 .. Len(coroutines)}
    BY <1>1 DEF BeginOnUpdate, VisitInv, ToSet
  <2>2. VisitsLeft'
    BY <2>1 DEF VisitsLeft
  <2> QED
    BY <2>1, <2>2 DEF VisitInv, Distinct
<1>2. CASE Visit
  BY <1>2, VisitKeepsVisits
<1>3. CASE VisitThrows
  <2>1. VisitsLeft'
    BY <1>3 DEF VisitThrows, VisitInv, VisitsLeft
  <2> QED
    BY <1>3, <2>1 DEF VisitThrows, VisitInv, Distinct
<1>4. ASSUME NEW o \in Orders, PlaceOrderAsync(o) PROVE VisitInv'
  <2>1. /\ coroutines' = Append(coroutines, o) /\ UNCHANGED <<index, unvisited, shifts>>
        /\ resumeAt[o] = "unstarted" /\ resumeAt' = [resumeAt EXCEPT ![o] = "begin"]
    BY <1>4 DEF PlaceOrderAsync, StartCoroutine
  <2>2. /\ coroutines' \in Seq(Orders) /\ Len(coroutines') = Len(coroutines) + 1
        /\ \A i \in 1 .. Len(coroutines) : coroutines'[i] = coroutines[i]
        /\ coroutines'[Len(coroutines) + 1] = o /\ Len(coroutines) \in Nat
    BY <2>1 DEF VisitInv
  <2>3. \A i \in 1 .. Len(coroutines) : coroutines[i] \in Orders /\ coroutines[i] # o
    BY <2>1 DEF VisitInv
  <2>4. Distinct(coroutines')
    BY <2>2, <2>3 DEF VisitInv, Distinct
  <2>5. \A i \in 1 .. Len(coroutines') : resumeAt'[coroutines'[i]] # "unstarted"
    BY <2>1, <2>2, <2>3 DEF VisitInv
  <2>6. VisitsLeft'
    BY <2>1, <2>2 DEF VisitInv, VisitsLeft
  <2> QED
    BY <2>1, <2>2, <2>4, <2>5, <2>6 DEF VisitInv, Distinct, Points
<1>5. ASSUME NEW o \in Orders, RemoveCoroutine(o) PROVE VisitInv'
  <2>1. PICK k \in 1 .. Len(coroutines) : coroutines[k] = o
    BY <1>5 DEF RemoveCoroutine, Contains
  <2>2. (\E j \in DOMAIN coroutines : j <= index /\ coroutines[j] = o) <=> k <= index
    BY <2>1 DEF VisitInv, Distinct
  <2> QED
    BY <1>5, <2>1, <2>2, RemovalKeepsVisits DEF RemoveCoroutine, Points
<1>6. ASSUME NEW o \in Orders, TaskEnds(o) \/ WaitIsOver(o) PROVE VisitInv'
  BY <1>6 DEF TaskEnds, WaitIsOver, VisitInv, VisitsLeft, Distinct
<1>7. CASE UNCHANGED orderVars
  BY <1>7 DEF orderVars, VisitInv, VisitsLeft, Distinct
<1> QED
  BY <1>1, <1>2, <1>3, <1>4, <1>5, <1>6, <1>7 DEF OrdersNext

(* No OnUpdate skips a coroutine that it found and that stays in the list, and it
   makes no visit too many but one for each removal at or below its index: for any
   number of coroutines, started, ended and removed at any time
   (CoroutineManager.cs:9-44). *)
THEOREM EachAlwaysVisitedOnce == OrdersSpec => []EachVisitedOnce
<1>1. VisitInv => EachVisitedOnce
  BY DEF VisitInv, VisitsLeft, Distinct, EachVisitedOnce
<1> QED
  BY <1>1, VisitStart, VisitStep, PTL DEF OrdersSpec

-----------------------------------------------------------------------------
(* The directions of the dictionary. *)

(* The two dictionaries hold nothing at first. *)
LEMMA InitAgrees == DictionaryInit => DirectionsAgree
  BY DEF DictionaryInit, DirectionsAgree

(* Adding a pair that neither side holds keeps them in agreement. *)
LEMMA AddAgrees ==
  ASSUME DirectionsAgree, NEW key \in TKey, NEW value \in TValue, Add(key, value)
  PROVE  DirectionsAgree'
  BY DEF DirectionsAgree, Add, Assigned

(* Setting an item takes at most two pairs apart and adds one. *)
LEMMA SetItemAgrees ==
  ASSUME DirectionsAgree, NEW key \in TKey, NEW value \in TValue, SetItem(key, value)
  PROVE  DirectionsAgree'
<1>0. /\ m_Forward' = Assigned(Removed(m_Forward, OldKey(key, value)), key, value)
      /\ m_Reverse' = Assigned(Removed(m_Reverse, OldValue(key)), value, key)
  BY DEF SetItem
<1>3. /\ m_Forward'[key] = value /\ m_Reverse'[value] = key
      /\ key \in DOMAIN m_Forward' /\ value \in DOMAIN m_Reverse'
  BY <1>0 DEF Assigned, Removed
<1>4. ASSUME NEW k \in DOMAIN m_Forward', k # key
      PROVE  k \in DOMAIN m_Forward \ OldKey(key, value) /\ m_Forward'[k] = m_Forward[k]
  BY <1>0, <1>4 DEF Assigned, Removed
<1>5. ASSUME NEW v \in DOMAIN m_Reverse', v # value
      PROVE  v \in DOMAIN m_Reverse \ OldValue(key) /\ m_Reverse'[v] = m_Reverse[v]
  BY <1>0, <1>5 DEF Assigned, Removed
<1>6. ASSUME NEW k \in DOMAIN m_Forward \ OldKey(key, value), k # key
      PROVE  k \in DOMAIN m_Forward' /\ m_Forward'[k] = m_Forward[k]
  BY <1>0, <1>6 DEF Assigned, Removed
<1>7. ASSUME NEW v \in DOMAIN m_Reverse \ OldValue(key), v # value
      PROVE  v \in DOMAIN m_Reverse' /\ m_Reverse'[v] = m_Reverse[v]
  BY <1>0, <1>7 DEF Assigned, Removed
<1>1. ASSUME NEW k \in DOMAIN m_Forward'
      PROVE  m_Forward'[k] \in DOMAIN m_Reverse' /\ m_Reverse'[m_Forward'[k]] = k
  <2>1. CASE k = key
    BY <1>3, <2>1
  <2>2. CASE k # key
    <3>1. m_Forward[k] # value /\ m_Forward[k] \notin OldValue(key)
      BY <1>4, <2>2 DEF DirectionsAgree, OldKey, OldValue
    <3> QED
      BY <1>4, <1>7, <2>2, <3>1 DEF DirectionsAgree
  <2> QED
    BY <2>1, <2>2
<1>2. ASSUME NEW v \in DOMAIN m_Reverse'
      PROVE  m_Reverse'[v] \in DOMAIN m_Forward' /\ m_Forward'[m_Reverse'[v]] = v
  <2>1. CASE v = value
    BY <1>3, <2>1
  <2>2. CASE v # value
    <3>1. m_Reverse[v] # key /\ m_Reverse[v] \notin OldKey(key, value)
      BY <1>5, <2>2 DEF DirectionsAgree, OldKey, OldValue
    <3> QED
      BY <1>5, <1>6, <2>2, <3>1 DEF DirectionsAgree
  <2> QED
    BY <2>1, <2>2
<1> QED
  BY <1>1, <1>2 DEF DirectionsAgree

(* A removal by either side takes one pair out of both. *)
LEMMA RemoveAgrees ==
  ASSUME DirectionsAgree,
         \/ \E key \in TKey : RemoveByKey(key)
         \/ \E value \in TValue : RemoveByValue(value)
  PROVE  DirectionsAgree'
<1>1. CASE \E key \in TKey : RemoveByKey(key)
  BY <1>1 DEF DirectionsAgree, RemoveByKey, Removed
<1>2. CASE \E value \in TValue : RemoveByValue(value)
  BY <1>2 DEF DirectionsAgree, RemoveByValue, Removed
<1> QED
  BY <1>1, <1>2

(* Whatever is added, set, removed and cleared, each key has its value on one
   side and each value its key on the other, the same pairs
   (BidirectionalDictionary.cs:20-140, BidirectionalDictionary.h:25-123). *)
THEOREM DirectionsAlwaysAgree == DictionarySpec => []DirectionsAgree
<1>1. DictionaryInit => DirectionsAgree
  BY InitAgrees
<1>2. DirectionsAgree /\ [DictionaryNext]_dictionaryVars => DirectionsAgree'
  <2> SUFFICES ASSUME DirectionsAgree, [DictionaryNext]_dictionaryVars
               PROVE  DirectionsAgree'
    OBVIOUS
  <2>1. CASE Clear
    BY <2>1 DEF DirectionsAgree, Clear, Removed
  <2>2. CASE UNCHANGED dictionaryVars
    BY <2>2 DEF DirectionsAgree, dictionaryVars
  <2> QED
    BY <2>1, <2>2, AddAgrees, SetItemAgrees, RemoveAgrees DEF DictionaryNext
<1> QED
  BY <1>1, <1>2, PTL DEF DictionarySpec

-----------------------------------------------------------------------------
(* The scroll view. *)

(* The view by itself. *)
ScrollSpec == ScrollInit /\ [][ScrollNext]_scrollVars

(* A quotient lies within its bounds. *)
LEMMA QuotientBounds ==
  ASSUME NEW a \in Nat, NEW b \in Nat \ {0}
  PROVE  /\ a \div b \in Nat
         /\ b * (a \div b) <= a /\ a < b * (a \div b) + b
  BY SMTT(30)

(* And so does a quotient that is rounded up. *)
LEMMA CeilingBounds ==
  ASSUME NEW a \in Nat, NEW b \in Nat \ {0}
  PROVE  /\ Ceiling(a, b) \in Nat
         /\ a <= b * Ceiling(a, b) /\ b * Ceiling(a, b) < a + b
  BY SMTT(30) DEF Ceiling

(* Products with the same positive factor are ordered as the other factors. *)
LEMMA FactorsOrdered ==
  ASSUME NEW b \in Nat \ {0}, NEW x \in Int, NEW y \in Int, b * x < b * y
  PROVE  x < y
  BY SMTT(30)

(* From no place of the bar do the rows reach beyond the list, and from its end
   they reach to the list's. *)
LEMMA BarReachesTheEnd ==
  ASSUME NEW height \in Nat, NEW size \in Nat, NEW value \in Nat,
         size >= Visible(height), value <= Maximum(size * ItemHeight, height)
  PROVE  /\ Ceiling(value, ItemHeight) + Visible(height) <= size
         /\ value = Maximum(size * ItemHeight, height) =>
              Ceiling(value, ItemHeight) + Visible(height) = size
<1> DEFINE b == ItemHeight
           c == Ceiling(value, b)
           q == height \div b
           max == Maximum(size * b, height)
<1>1. b \in Nat \ {0}
  BY ScrollAssumption
<1>2. q \in Nat /\ b * q <= height /\ height < b * q + b
  BY <1>1, QuotientBounds
<1>3. c \in Nat /\ value <= b * c /\ b * c < value + b
  BY <1>1, CeilingBounds
<1>4. Visible(height) = q + 1
  BY DEF Visible
<1>5. size * b \in Nat /\ b * size = size * b
  BY <1>1
<1>6. max = IF size * b - height - b > 0 THEN size * b - height - b ELSE 0
  BY <1>1, <1>5 DEF Maximum, Larger
<1>7. /\ b * 1 = b /\ b * (c + 1) = b * c + b /\ b * (size - q) = b * size - b * q
      /\ b * (q + 2) = b * q + b + b /\ b * (c + q + 2) = b * c + b * q + b + b
  BY <1>1, <1>2, <1>3, SMTT(30)
<1> HIDE DEF c, q, max
<1>8. size >= q + 1 /\ value <= max
  BY <1>4 DEF max
<1>9. CASE max = 0
  <2>1. c < 1
    BY <1>1, <1>3, <1>7, <1>8, <1>9, FactorsOrdered
  <2>2. size < q + 2
    <3>1. b * size <= height + b
      BY <1>1, <1>5, <1>6, <1>9
    <3>2. b * size < b * (q + 2)
      BY <1>1, <1>2, <1>5, <1>7, <3>1
    <3> QED
      BY <1>1, <1>2, <3>2, FactorsOrdered
  <2> QED
    BY <1>2, <1>3, <1>4, <1>8, <2>1, <2>2 DEF c
<1>10. CASE max # 0
  <2>1. max = b * size - height - b
    BY <1>5, <1>6, <1>10
  <2>2. c < size - q
    <3>1. b * c < b * (size - q)
      BY <1>1, <1>2, <1>3, <1>5, <1>7, <1>8, <2>1
    <3> QED
      BY <1>1, <1>2, <1>3, <3>1, FactorsOrdered
  <2>3. value = max => size < c + q + 2
    <3>1. SUFFICES ASSUME value = max PROVE size < c + q + 2
      OBVIOUS
    <3>2. b * size < b * (c + q + 2)
      BY <1>1, <1>2, <1>3, <1>5, <1>7, <2>1, <3>1
    <3> QED
      BY <1>1, <1>2, <1>3, <3>2, FactorsOrdered
  <2> QED
    BY <1>2, <1>3, <1>4, <2>2, <2>3 DEF c, max
<1> QED
  BY <1>9, <1>10

-----------------------------------------------------------------------------

(* What the fields are. *)
BarTypes ==
  /\ viewportHeight \in Viewports
  /\ scrollBar \in [value : Nat, max : Nat] /\ scrollBar.value <= scrollBar.max
  /\ m_pendingScrollValue \in Nat /\ m_scrollValue \in Nat /\ m_contentHeight \in Nat
  /\ {updateTimer, overtaken, initialised} \subseteq BOOLEAN
  /\ dataList \in [no : Nat, size : Nat]
  /\ Len(rows) \in Nat

(* The content follows the bar, or will when the timer fires. *)
Followed == ~updateTimer /\ ~overtaken /\ initialised => m_scrollValue = scrollBar.value

(* The bar ends where the list does. *)
RangeFits ==
  dataList.size > 0 =>
    /\ m_contentHeight = dataList.size * ItemHeight
    /\ scrollBar.max = Maximum(m_contentHeight, viewportHeight)

(* The rows show the list from the content's place on, as far as it goes. *)
RowsShown ==
  \A i \in 1 .. Visible(viewportHeight) :
    Ceiling(m_scrollValue, ItemHeight) + i <= dataList.size =>
      rows[i] = [list |-> dataList.no, place |-> Ceiling(m_scrollValue, ItemHeight) + i]

(* The inductive invariant. *)
ScrollInv == BarTypes /\ Followed /\ RangeFits /\ RowsShown

-----------------------------------------------------------------------------

(* What a number of rows is. *)
LEMMA VisibleRows ==
  ASSUME NEW height \in Viewports
  PROVE  height \in Nat /\ Visible(height) \in Nat /\ Visible(height) > 0
  BY ScrollAssumption, QuotientBounds DEF Visible

(* No list is shorter than the rows at first. *)
LEMMA ScrollStart == ScrollInit => ScrollInv
<1> SUFFICES ASSUME ScrollInit PROVE ScrollInv
  OBVIOUS
<1>1. BarTypes
  <2>1. Len(rows) = 0 /\ {updateTimer, overtaken, initialised} \subseteq BOOLEAN
    BY DEF ScrollInit
  <2>2. scrollBar \in [value : Nat, max : Nat] /\ scrollBar.value <= scrollBar.max
    BY DEF ScrollInit
  <2>3. m_pendingScrollValue \in Nat /\ m_scrollValue \in Nat /\ m_contentHeight \in Nat
    BY ScrollAssumption DEF ScrollInit
  <2>4. dataList \in [no : Nat, size : Nat] /\ viewportHeight \in Viewports
    BY DEF ScrollInit
  <2> QED
    BY <2>1, <2>2, <2>3, <2>4 DEF BarTypes
<1>2. Ceiling(m_scrollValue, ItemHeight) \in Nat
  BY <1>1, ScrollAssumption, CeilingBounds DEF BarTypes
<1> QED
  BY <1>1, <1>2, VisibleRows DEF ScrollInit, ScrollInv, BarTypes, Followed, RangeFits, RowsShown

(* updateVisibleItems shows the list in the rows. *)
LEMMA RowsUpdated ==
  ASSUME BarTypes, NEW value \in Nat, NEW list \in [no : Nat, size : Nat], NEW height \in Viewports,
         updateVisibleItems(value, list, height)
  PROVE  /\ Len(rows') \in Nat
         /\ \A i \in 1 .. Visible(height) :
              Ceiling(value, ItemHeight) + i <= list.size =>
                rows'[i] = [list |-> list.no, place |-> Ceiling(value, ItemHeight) + i]
<1> DEFINE pool == Larger(Len(rows), Visible(height))
           Row(i) == IF i <= Visible(height) /\ Ceiling(value, ItemHeight) + i <= list.size
                     THEN [list |-> list.no, place |-> Ceiling(value, ItemHeight) + i]
                     ELSE IF i <= Len(rows) THEN rows[i] ELSE [list |-> 0, place |-> 0]
<1>1. Visible(height) \in Nat
  BY VisibleRows
<1>2. pool \in Nat /\ pool >= Visible(height)
  BY <1>1 DEF Larger, BarTypes
<1>3. rows' = [i \in 1 .. pool |-> Row(i)]
  BY DEF updateVisibleItems
<1>4. Len(rows') = pool
  <2> HIDE DEF pool, Row
  <2> QED
    BY <1>2, <1>3
<1>5. ASSUME NEW i \in 1 .. Visible(height), Ceiling(value, ItemHeight) + i <= list.size
      PROVE  rows'[i] = [list |-> list.no, place |-> Ceiling(value, ItemHeight) + i]
  <2>1. rows'[i] = Row(i)
    <3> HIDE DEF pool, Row
    <3> QED
      BY <1>1, <1>2, <1>3
  <2> QED
    BY <1>1, <1>5, <2>1
<1> QED
  BY <1>2, <1>4, <1>5

(* setRange keeps the bar inside the range, and signals when it moves it. *)
LEMMA RangeSet ==
  ASSUME BarTypes, NEW max \in Nat, setRange(max), overtaken' = overtaken,
         initialised' = initialised, m_scrollValue' = m_scrollValue, Followed
  PROVE  /\ scrollBar' \in [value : Nat, max : Nat] /\ scrollBar'.value <= scrollBar'.max
         /\ scrollBar'.max = max
         /\ m_pendingScrollValue' \in Nat /\ updateTimer' \in BOOLEAN
         /\ Followed'
<1> DEFINE value == Smaller(scrollBar.value, max)
<1>1. value \in Nat /\ value <= max
  BY DEF BarTypes, Smaller
<1>2. scrollBar' = [value |-> value, max |-> max]
  BY DEF setRange
<1>3. CASE value # scrollBar.value
  BY <1>1, <1>2, <1>3 DEF setRange, valueChanged, Followed
<1>4. CASE value = scrollBar.value
  <2>1. UNCHANGED <<m_pendingScrollValue, updateTimer>>
    BY <1>4 DEF setRange
  <2>2. scrollBar'.value = scrollBar.value
    BY <1>2, <1>4
  <2> HIDE DEF value
  <2> QED
    BY <1>1, <1>2, <2>1, <2>2 DEF BarTypes, Followed
<1> QED
  BY <1>3, <1>4

(* A maximum of the bar is a number. *)
LEMMA MaximumNumber ==
  ASSUME NEW content \in Nat, NEW height \in Nat
  PROVE  Maximum(content, height) \in Nat
  BY ScrollAssumption DEF Maximum, Larger

(* Each event of the view keeps the invariant. *)
LEMMA ScrollStep ==
  ASSUME ScrollInv, [ScrollNext]_scrollVars
  PROVE  ScrollInv'
<1>1. /\ BarTypes /\ Followed /\ RangeFits /\ RowsShown
      /\ ItemHeight \in Nat \ {0} /\ viewportHeight \in Nat
  BY ScrollAssumption, VisibleRows DEF ScrollInv, BarTypes
<1>2. CASE updateView
  <2>1. PICK size \in Sizes :
          LET list == [no |-> dataList.no + 1, size |-> size] IN
          /\ dataList' = list
          /\ m_contentHeight' = size * ItemHeight
          /\ updateVisibleItems(m_scrollValue, list, viewportHeight)
          /\ setRange(Maximum(size * ItemHeight, viewportHeight))
    BY <1>2 DEF updateView
  <2>2. UNCHANGED <<viewportHeight, m_scrollValue, overtaken, initialised>>
    BY <1>2 DEF updateView
  <2>3. size \in Nat /\ size * ItemHeight \in Nat
    BY <1>1, ScrollAssumption
  <2>4. dataList' \in [no : Nat, size : Nat] /\ dataList'.size = size
    BY <1>1, <2>1, <2>3 DEF BarTypes
  <2>5. Maximum(size * ItemHeight, viewportHeight) \in Nat
    BY <1>1, <2>3, MaximumNumber
  <2>6. /\ scrollBar' \in [value : Nat, max : Nat] /\ scrollBar'.value <= scrollBar'.max
        /\ scrollBar'.max = Maximum(size * ItemHeight, viewportHeight)
        /\ m_pendingScrollValue' \in Nat /\ updateTimer' \in BOOLEAN
        /\ Followed'
    BY <1>1, <2>1, <2>2, <2>5, RangeSet
  <2>7. Len(rows') \in Nat /\ RowsShown'
    BY <1>1, <2>1, <2>2, <2>4, RowsUpdated DEF BarTypes, RowsShown
  <2>8. BarTypes'
    BY <1>1, <2>1, <2>2, <2>3, <2>4, <2>6, <2>7 DEF BarTypes
  <2>9. RangeFits'
    BY <2>1, <2>2, <2>4, <2>6 DEF RangeFits
  <2> QED
    BY <2>6, <2>7, <2>8, <2>9 DEF ScrollInv
<1>3. CASE resizeEvent
  <2>1. PICK height \in Viewports :
          /\ viewportHeight' = height
          /\ setRange(Maximum(m_contentHeight, height))
          /\ updateVisibleItems(m_scrollValue, dataList, height)
    BY <1>3 DEF resizeEvent
  <2>2. UNCHANGED <<m_scrollValue, m_contentHeight, dataList, overtaken, initialised>>
    BY <1>3 DEF resizeEvent
  <2>3. Maximum(m_contentHeight, height) \in Nat
    BY <1>1, MaximumNumber, VisibleRows DEF BarTypes
  <2>4. /\ scrollBar' \in [value : Nat, max : Nat] /\ scrollBar'.value <= scrollBar'.max
        /\ scrollBar'.max = Maximum(m_contentHeight, height)
        /\ m_pendingScrollValue' \in Nat /\ updateTimer' \in BOOLEAN
        /\ Followed'
    BY <1>1, <2>1, <2>2, <2>3, RangeSet
  <2>5. Len(rows') \in Nat /\ RowsShown'
    BY <1>1, <2>1, <2>2, RowsUpdated DEF BarTypes, RowsShown
  <2>6. BarTypes'
    BY <1>1, <2>1, <2>2, <2>4, <2>5 DEF BarTypes
  <2>7. RangeFits'
    BY <1>1, <2>1, <2>2, <2>4 DEF RangeFits
  <2> QED
    BY <2>4, <2>5, <2>6, <2>7 DEF ScrollInv
<1>4. CASE Drag
  <2>1. PICK value \in 0 .. scrollBar.max :
          scrollBar' = [scrollBar EXCEPT !.value = value] /\ valueChanged(value)
    BY <1>4 DEF Drag
  <2>2. UNCHANGED <<viewportHeight, m_scrollValue, m_contentHeight, dataList, rows, overtaken,
                    initialised>>
    BY <1>4 DEF Drag
  <2>3. BarTypes'
    BY <1>1, <2>1, <2>2 DEF BarTypes, valueChanged
  <2>4. Followed'
    BY <2>1 DEF Followed, valueChanged
  <2>5. RangeFits' /\ RowsShown'
    BY <1>1, <2>1, <2>2 DEF RangeFits, RowsShown, BarTypes
  <2> QED
    BY <2>3, <2>4, <2>5 DEF ScrollInv
<1>5. CASE wheelEvent
  <2>1. PICK delta \in Deltas, up \in BOOLEAN :
          LET step  == Larger(delta, ItemHeight)
              value == IF up THEN Larger(0, scrollBar.value - step)
                             ELSE Smaller(scrollBar.max, scrollBar.value + step)
          IN /\ scrollBar' = [scrollBar EXCEPT !.value = value]
             /\ setScrollValue(value)
    BY <1>5 DEF wheelEvent
  <2>2. /\ overtaken' = updateTimer
        /\ UNCHANGED <<viewportHeight, m_pendingScrollValue, updateTimer, m_contentHeight, dataList>>
    BY <1>5 DEF wheelEvent
  <2>3. Larger(delta, ItemHeight) \in Nat
    BY <1>1, ScrollAssumption DEF Larger
  <2>4. PICK value \in 0 .. scrollBar.max :
          scrollBar' = [scrollBar EXCEPT !.value = value] /\ setScrollValue(value)
    <3> DEFINE moved == IF up THEN Larger(0, scrollBar.value - Larger(delta, ItemHeight))
                              ELSE Smaller(scrollBar.max, scrollBar.value + Larger(delta, ItemHeight))
    <3>1. scrollBar' = [scrollBar EXCEPT !.value = moved] /\ setScrollValue(moved)
      BY <2>1
    <3>2. scrollBar.value \in Nat /\ scrollBar.max \in Nat /\ scrollBar.value <= scrollBar.max
      BY <1>1 DEF BarTypes
    <3>3. moved \in 0 .. scrollBar.max
      <4> HIDE DEF moved
      <4>1. Larger(0, scrollBar.value - Larger(delta, ItemHeight)) \in 0 .. scrollBar.max
        <5> DEFINE step == Larger(delta, ItemHeight)
        <5> HIDE DEF step
        <5> QED
          BY <2>3, <3>2 DEF Larger, step
      <4>2. Smaller(scrollBar.max, scrollBar.value + Larger(delta, ItemHeight)) \in 0 .. scrollBar.max
        BY <2>3, <3>2 DEF Smaller
      <4> QED
        BY <4>1, <4>2 DEF moved
    <3> QED
      BY <3>1, <3>3
  <2>5. value \in Nat /\ m_scrollValue' = value /\ initialised' = TRUE
        /\ updateVisibleItems(value, dataList, viewportHeight)
    BY <1>1, <2>4 DEF setScrollValue, BarTypes
  <2>6. Len(rows') \in Nat /\ RowsShown'
    BY <1>1, <2>2, <2>5, RowsUpdated DEF BarTypes, RowsShown
  <2>7. BarTypes'
    BY <1>1, <2>2, <2>4, <2>5, <2>6 DEF BarTypes
  <2>8. Followed'
    BY <1>1, <2>4, <2>5 DEF Followed, BarTypes
  <2>9. RangeFits'
    BY <1>1, <2>2, <2>4 DEF RangeFits, BarTypes
  <2> QED
    BY <2>6, <2>7, <2>8, <2>9 DEF ScrollInv
<1>6. CASE timeout
  <2>1. /\ updateTimer' = FALSE /\ overtaken' = (m_pendingScrollValue # scrollBar.value)
        /\ m_scrollValue' = m_pendingScrollValue /\ initialised' = TRUE
        /\ updateVisibleItems(m_pendingScrollValue, dataList, viewportHeight)
        /\ UNCHANGED <<viewportHeight, scrollBar, m_pendingScrollValue, m_contentHeight, dataList>>
    BY <1>6 DEF timeout, setScrollValue
  <2>2. Len(rows') \in Nat /\ RowsShown'
    BY <1>1, <2>1, RowsUpdated DEF BarTypes, RowsShown
  <2>3. BarTypes'
    BY <1>1, <2>1, <2>2 DEF BarTypes
  <2>4. Followed' /\ RangeFits'
    BY <1>1, <2>1 DEF Followed, RangeFits
  <2> QED
    BY <2>2, <2>3, <2>4 DEF ScrollInv
<1>7. CASE UNCHANGED scrollVars
  BY <1>1, <1>7 DEF scrollVars, ScrollInv, BarTypes, Followed, RangeFits, RowsShown
<1> QED
  BY <1>2, <1>3, <1>4, <1>5, <1>6, <1>7 DEF ScrollNext

(* What the rows show when all is quiet. *)
LEMMA QuietRows ==
  ASSUME ScrollInv
  PROVE  SettledRowsAreRight
<1> DEFINE n == Visible(viewportHeight)
           place == Ceiling(scrollBar.value, ItemHeight)
<1> SUFFICES ASSUME ~updateTimer, ~overtaken, initialised, dataList.size >= n
             PROVE  /\ \A i \in 1 .. n :
                         rows[i] = [list |-> dataList.no, place |-> place + i]
                    /\ scrollBar.value = scrollBar.max => rows[n].place = dataList.size
  BY DEF SettledRowsAreRight
<1>1. /\ viewportHeight \in Nat /\ dataList.size \in Nat /\ scrollBar.value \in Nat
      /\ scrollBar.value <= scrollBar.max /\ scrollBar.max \in Nat
      /\ n \in Nat /\ n > 0
  BY VisibleRows DEF ScrollInv, BarTypes
<1>2. place \in Nat
  BY <1>1, ScrollAssumption, CeilingBounds
<1>3. scrollBar.max = Maximum(dataList.size * ItemHeight, viewportHeight)
  BY <1>1 DEF ScrollInv, RangeFits
<1>4. place + n <= dataList.size /\ (scrollBar.value = scrollBar.max => place + n = dataList.size)
  BY <1>1, <1>3, BarReachesTheEnd
<1>5. \A i \in 1 .. n : place + i <= dataList.size =>
        rows[i] = [list |-> dataList.no, place |-> place + i]
  BY DEF ScrollInv, Followed, RowsShown
<1>6. ASSUME NEW i \in 1 .. n
      PROVE  rows[i] = [list |-> dataList.no, place |-> place + i]
  <2> HIDE DEF n, place
  <2> QED
    BY <1>1, <1>2, <1>4, <1>5
<1>7. n \in 1 .. n
  BY <1>1
<1>8. rows[n].place = place + n
  <2> HIDE DEF n, place
  <2>1. rows[n] = [list |-> dataList.no, place |-> place + n]
    BY <1>6, <1>7
  <2> QED
    BY <2>1
<1> QED
  BY <1>4, <1>6, <1>8

(* However dragging, wheel, timer, resizing and new lists follow one another,
   the rows show the latest list from the bar's place on once all is quiet, for
   every height of rows and views (ScrollView.h, ScrollViewContentWidget.h). *)
THEOREM SettledRowsAlwaysRight == ScrollSpec => []SettledRowsAreRight
  BY ScrollStart, ScrollStep, QuietRows, PTL DEF ScrollSpec

-----------------------------------------------------------------------------
(* The bottom popup. *)

(* The popup by itself. *)
PopupSpec == PopupInit /\ [][PopupNext]_popupVars

(* The inductive invariant: no popup that is not hidden is null. *)
PopupInv == visible \subseteq Popups /\ PopupSettles

(* However calls to show and hide and clicks on the mask fall into the one
   animation, the popup ends up as it was last asked for, and no end of the
   animation finds it null (BottomPopupWidget.cpp:20-104). *)
THEOREM PopupAlwaysSettles == PopupSpec => []PopupSettles
<1>1. PopupInit => PopupInv
  BY PopupAssumption DEF PopupInit, PopupInv, PopupSettles
<1>2. PopupInv /\ [PopupNext]_popupVars => PopupInv'
  <2> SUFFICES ASSUME PopupInv, [PopupNext]_popupVars PROVE PopupInv'
    OBVIOUS
  <2> USE PopupAssumption DEF PopupInv, PopupSettles
  <2>1. ASSUME NEW popup \in Popups, showPopup(popup) PROVE PopupInv'
    BY <2>1 DEF showPopup, start
  <2>2. CASE hidePopup
    BY <2>2 DEF hidePopup, start
  <2>3. CASE finished
    BY <2>3 DEF finished
  <2>4. CASE UNCHANGED popupVars
    BY <2>4 DEF popupVars
  <2> QED
    BY <2>1, <2>2, <2>3, <2>4 DEF PopupNext
<1>3. PopupInv => PopupSettles
  BY DEF PopupInv
<1> QED
  BY <1>1, <1>2, <1>3, PTL DEF PopupSpec

-----------------------------------------------------------------------------
(* The market overview: the interval of a change. *)

(* Products with the same factor are ordered as the other factors. *)
LEMMA FactorsKeepOrder ==
  ASSUME NEW b \in Nat, NEW x \in Int, NEW y \in Int, x <= y
  PROVE  x * b <= y * b /\ x * b \in Int /\ y * b \in Int
  BY SMTT(30)

Spans(i, perc) == perc >= LowerBound(i) * Unit /\ perc < UpperBound(i) * Unit

(* The bounds of the intervals, and those of two of them. *)
LEMMA BoundsOfIntervals ==
  /\ Levels \in Nat \ {0} /\ Unit \in Nat \ {0} /\ Levels <= Infinity
  /\ \A i \in IntervalNo :
       /\ i \in Int /\ LowerBound(i) \in Int /\ UpperBound(i) \in Int
       /\ LowerBound(i) <= UpperBound(i)
       /\ i # 0 => LowerBound(i) = i - Levels
       /\ i = 0 => LowerBound(i) = -Infinity /\ UpperBound(i) = -Levels
       /\ i = Levels => UpperBound(i) = 0
       /\ i \notin {0, Levels, 2 * Levels} => UpperBound(i) = i - Levels + 1
       /\ i = 2 * Levels => UpperBound(i) = Infinity
  /\ \A i, j \in IntervalNo : i < j => UpperBound(i) <= LowerBound(j)
<1>1. Levels \in Nat \ {0} /\ Unit \in Nat \ {0} /\ Levels <= Infinity
  BY MarketAssumption DEF Infinity
<1>2. ASSUME NEW i \in IntervalNo
      PROVE  /\ i \in Int /\ LowerBound(i) \in Int /\ UpperBound(i) \in Int
             /\ LowerBound(i) <= UpperBound(i)
             /\ i # 0 => LowerBound(i) = i - Levels
             /\ i = 0 => LowerBound(i) = -Infinity /\ UpperBound(i) = -Levels
             /\ i = Levels => UpperBound(i) = 0
             /\ i \notin {0, Levels, 2 * Levels} => UpperBound(i) = i - Levels + 1
             /\ i = 2 * Levels => UpperBound(i) = Infinity
  BY <1>1 DEF IntervalNo, LowerBound, UpperBound, Infinity
<1>3. ASSUME NEW i \in IntervalNo, NEW j \in IntervalNo, i < j
      PROVE  UpperBound(i) <= LowerBound(j)
  <2>1. i \in 0 .. 2 * Levels /\ j \in 0 .. 2 * Levels
    BY DEF IntervalNo
  <2>2. j # 0 /\ i # 2 * Levels
    BY <1>1, <1>3, <2>1
  <2>3. LowerBound(j) = j - Levels
    BY <1>2, <2>2
  <2> QED
    BY <1>1, <1>2, <1>3, <2>1, <2>2, <2>3
<1> QED
  BY <1>1, <1>2, <1>3

(* No two intervals span a change. *)
LEMMA SpansOnce ==
  ASSUME NEW perc \in Int, NEW i \in IntervalNo, NEW j \in IntervalNo,
         Spans(i, perc), Spans(j, perc)
  PROVE  i = j
<1>1. ASSUME NEW k \in IntervalNo, NEW l \in IntervalNo, Spans(k, perc), Spans(l, perc)
      PROVE  ~(k < l)
  <2> SUFFICES ASSUME k < l PROVE FALSE
    OBVIOUS
  <2>1. UpperBound(k) <= LowerBound(l) /\ UpperBound(k) \in Int /\ LowerBound(l) \in Int
        /\ Unit \in Nat
    BY BoundsOfIntervals
  <2>2. UpperBound(k) * Unit <= LowerBound(l) * Unit
        /\ UpperBound(k) * Unit \in Int /\ LowerBound(l) * Unit \in Int
    BY <2>1, FactorsKeepOrder
  <2> QED
    BY <1>1, <2>2 DEF Spans
<1>2. i \in Int /\ j \in Int
  BY BoundsOfIntervals
<1> QED
  BY <1>1, <1>2

(* An interval spans changes of one side of zero, the middle one none. *)
LEMMA SpansOneSide ==
  ASSUME NEW perc \in Int, NEW i \in IntervalNo, Spans(i, perc)
  PROVE  /\ i > Levels => perc > 0
         /\ i < Levels => perc < 0
         /\ i # Levels
<1>1. /\ Levels \in Nat \ {0} /\ Unit \in Nat \ {0} /\ i \in 0 .. 2 * Levels
      /\ LowerBound(i) \in Int /\ UpperBound(i) \in Int
      /\ LowerBound(i) * Unit <= perc /\ perc < UpperBound(i) * Unit
  BY BoundsOfIntervals DEF Spans, IntervalNo
<1>2. 0 * Unit = 0 /\ 1 * Unit = Unit
  BY <1>1
<1>3. ASSUME i > Levels PROVE perc > 0
  <2>1. 1 <= LowerBound(i)
    BY <1>1, <1>3, BoundsOfIntervals
  <2>2. 1 * Unit <= LowerBound(i) * Unit /\ LowerBound(i) * Unit \in Int
    BY <1>1, <2>1, FactorsKeepOrder
  <2> QED
    BY <1>1, <1>2, <2>2
<1>4. ASSUME i <= Levels PROVE perc < 0
  <2>1. UpperBound(i) <= 0
    BY <1>1, <1>4, BoundsOfIntervals
  <2>2. UpperBound(i) * Unit <= 0 * Unit /\ UpperBound(i) * Unit \in Int
    BY <1>1, <2>1, FactorsKeepOrder
  <2> QED
    BY <1>1, <1>2, <2>2
<1>5. i # Levels
  <2> SUFFICES ASSUME i = Levels PROVE FALSE
    OBVIOUS
  <2>1. LowerBound(i) = 0 /\ UpperBound(i) = 0
    BY <1>1, BoundsOfIntervals
  <2> QED
    BY <1>1, <1>2, <2>1
<1> QED
  BY <1>1, <1>3, <1>4, <1>5

(* RecordPerc counts a change in one interval at most, and on its side of zero. *)
LEMMA OneInterval ==
  ASSUME NEW perc \in Int
  PROVE  /\ IntervalOf(perc) \in SUBSET IntervalNo
         /\ \A i, j \in IntervalOf(perc) : i = j
         /\ \A i \in IntervalOf(perc) : /\ i > Levels => perc > 0
                                        /\ i < Levels => perc < 0
                                        /\ i = Levels => perc = 0
<1> DEFINE found == {i \in IntervalNo : Spans(i, perc)}
           rest  == CASE perc >= Levels * Unit  -> {2 * Levels}
                      [] perc <= -Levels * Unit -> {0}
                      [] perc = 0               -> {Levels}
                      [] OTHER                  -> {}
<1>0. /\ Levels \in Nat \ {0} /\ Levels * Unit \in Nat \ {0} /\ -Levels * Unit = -(Levels * Unit)
  <2>1. Levels \in Nat \ {0} /\ Unit \in Nat \ {0}
    BY BoundsOfIntervals
  <2>2. 1 * Unit <= Levels * Unit
    BY <2>1, FactorsKeepOrder
  <2> QED
    BY <2>1, <2>2
<1>1. IntervalOf(perc) = IF found # {} THEN found ELSE rest
  BY DEF IntervalOf, Spans
<1>2. {0, Levels, 2 * Levels} \subseteq IntervalNo
  BY <1>0 DEF IntervalNo
<1>3. CASE found # {}
  <2>1. \A i, j \in found : i = j
    BY SpansOnce
  <2>2. \A i \in found : /\ i > Levels => perc > 0
                         /\ i < Levels => perc < 0
                         /\ i = Levels => perc = 0
    BY SpansOneSide
  <2>3. found \in SUBSET IntervalNo
    OBVIOUS
  <2> HIDE DEF found, rest
  <2> QED
    BY <1>1, <1>3, <2>1, <2>2, <2>3
<1>4. CASE found = {}
  <2>1. \/ rest = {2 * Levels} /\ perc > 0
        \/ rest = {0} /\ perc < 0
        \/ rest = {Levels} /\ perc = 0
        \/ rest = {}
    BY <1>0
  <2> HIDE DEF found, rest
  <2> QED
    BY <1>0, <1>1, <1>2, <1>4, <2>1
<1> QED
  BY <1>3, <1>4

-----------------------------------------------------------------------------
(* The list of tickers. *)

(* A function on 1 .. n is a list of length n. *)
LEMMA FunctionIsList ==
  ASSUME NEW S, NEW n \in Nat, NEW f \in [1 .. n -> S]
  PROVE  f \in Seq(S) /\ Len(f) = n
<1>1. f \in Seq(S)
  BY SeqDef
<1>2. 1 .. Len(f) = 1 .. n /\ Len(f) \in Nat
  BY <1>1, LenProperties
<1> QED
  BY <1>1, <1>2

(* A finite set can be listed. *)
LEMMA SetListed ==
  ASSUME NEW S, IsFiniteSet(S)
  PROVE  SetToSeq(S) \in Seq(S)
<1> DEFINE n == Cardinality(S)
<1>1. n \in Nat /\ ExistsBijection(1 .. n, S)
  BY FS_CardinalityType
<1>2. PICK f \in Bijection(1 .. n, S) : TRUE
  BY <1>1 DEF ExistsBijection
<1>3. f \in [1 .. n -> S] /\ IsInjective(f)
  BY <1>2 DEF Bijection, Injection
<1>4. SetToSeq(S) \in [1 .. n -> S]
  BY <1>3 DEF SetToSeq
<1> HIDE DEF n
<1> QED
  BY <1>1, <1>4, FunctionIsList

(* A change is an integer. *)
LEMMA ChangesAreIntegers == Change \subseteq Int
BY MarketAssumption DEF Change

(* The list with the tickers of an event is one of tickers. *)
LEMMA UpdatedTyped ==
  ASSUME NEW list \in Seq(Ticker), NEW subset \in SUBSET Symbols, NEW event \in [subset -> Change]
  PROVE  Updated(list, event) \in Seq(Ticker)
<1> DEFINE known == [k \in 1 .. Len(list) |->
                       IF list[k].symbol \in DOMAIN event
                       THEN [list[k] EXCEPT !.perc = event[list[k].symbol]] ELSE list[k]]
           new    == DOMAIN event \ {list[k].symbol : k \in 1 .. Len(list)}
           ticker == [s \in new |-> [symbol |-> s, perc |-> event[s]]]
           added  == {[symbol |-> s, perc |-> event[s]] : s \in new}
<1>1. known \in Seq(Ticker)
  <2>1. Len(list) \in Nat /\ \A k \in 1 .. Len(list) : list[k] \in Ticker
    OBVIOUS
  <2>2. ASSUME NEW k \in 1 .. Len(list), list[k].symbol \in DOMAIN event
        PROVE  [list[k] EXCEPT !.perc = event[list[k].symbol]] \in Ticker
    BY <2>1, <2>2 DEF Ticker
  <2>3. known \in [1 .. Len(list) -> Ticker]
    BY <2>1, <2>2
  <2> HIDE DEF known
  <2> QED
    BY <2>1, <2>3, FunctionIsList
<1>2. IsFiniteSet(added) /\ added \subseteq Ticker
  <2>1. new \in SUBSET Symbols /\ IsFiniteSet(new)
    BY MarketAssumption, FS_Subset
  <2>2. ticker \in Surjection(new, added)
    BY DEF Surjection
  <2>3. added \subseteq Ticker
    BY <2>1 DEF Ticker
  <2> HIDE DEF new, ticker, added
  <2> QED
    BY <2>1, <2>2, <2>3, FS_Surjection
<1>3. SetToSeq(added) \in Seq(Ticker)
  <2> HIDE DEF added
  <2>1. SetToSeq(added) \in Seq(added)
    BY <1>2, SetListed
  <2> QED
    BY <1>2, <2>1
<1>4. Updated(list, event) = known \o SetToSeq(added)
  BY DEF Updated
<1> HIDE DEF known, added
<1> QED
  BY <1>1, <1>3, <1>4

(* So is the sorted list, and it is in order. *)
LEMMA SortedTyped ==
  ASSUME NEW list \in Seq(Ticker), NEW sorted \in Sorted(list)
  PROVE  sorted \in Seq(Ticker) /\ Descending(sorted)
<1>1. PICK order \in Bijection(1 .. Len(list), 1 .. Len(list)) :
        sorted = Ordered(list, order) /\ Descending(Ordered(list, order))
  BY DEF Sorted
<1>2. order \in [1 .. Len(list) -> 1 .. Len(list)]
  BY DEF Bijection, Injection
<1>3. Len(list) \in Nat /\ \A k \in 1 .. Len(list) : list[order[k]] \in Ticker
  BY <1>2
<1>4. sorted \in [1 .. Len(list) -> Ticker]
  BY <1>1, <1>3 DEF Ordered
<1> QED
  BY <1>1, <1>3, <1>4, FunctionIsList

(* What is summed, over any places of the list. *)
Percs(list) == [k \in 1 .. Len(list) |-> list[k].perc]

(* The changes of the list are integers, at every one of its finitely many places. *)
LEMMA PercsAreIntegers ==
  ASSUME NEW list \in Seq(Ticker)
  PROVE  /\ Len(list) \in Nat /\ IsFiniteSet(1 .. Len(list))
         /\ \A k \in 1 .. Len(list) : Percs(list)[k] = list[k].perc /\ Percs(list)[k] \in Int
<1>1. Len(list) \in Nat /\ \A k \in 1 .. Len(list) : list[k] \in Ticker
  OBVIOUS
<1>2. \A k \in 1 .. Len(list) : list[k].perc \in Int
  BY <1>1, ChangesAreIntegers DEF Ticker
<1> QED
  BY <1>1, <1>2, FS_Interval DEF Percs

(* What is summed over some places of the list is an integer. *)
LEMMA SumOfValue ==
  ASSUME NEW list \in Seq(Ticker), NEW places \in SUBSET (1 .. Len(list))
  PROVE  SumOf(list, places) = SumFunctionOnSet(Percs(list), places)
         /\ SumOf(list, places) \in Int
<1>1. SumOf(list, places) = SumFunctionOnSet(Percs(list), places)
  BY DEF SumOf, Percs
<1>2. IsFiniteSet(places) /\ \A k \in places : Percs(list)[k] \in Int
  BY PercsAreIntegers, FS_Subset
<1> QED
  BY <1>1, <1>2, SumType

(* The first and the last places of a list. *)
FirstPlaces(n) == {k \in 1 .. n : k <= Top}
LastPlaces(n)  == {k \in 1 .. n : k > Top /\ k > n - Top}

(* In a list in descending order no choice of so many contracts has a larger sum
   than the first, or a smaller one than the last. *)
LEMMA ExtremeSums ==
  ASSUME NEW list \in Seq(Ticker), Descending(list), Len(list) >= 2 * Top,
         NEW chosen \in kSubset(Top, 1 .. Len(list))
  PROVE  /\ SumOf(list, chosen) <= SumOf(list, FirstPlaces(Len(list)))
         /\ SumOf(list, chosen) >= SumOf(list, LastPlaces(Len(list)))
<1> DEFINE n == Len(list)
           f == Percs(list)
           first == FirstPlaces(n)
           last  == LastPlaces(n)
<1>1. n \in Nat /\ Top \in Nat \ {0} /\ n >= 2 * Top
  BY MarketAssumption
<1>2. chosen \in SUBSET (1 .. n) /\ Cardinality(chosen) = Top
  BY DEF kSubset
<1>3. first = 1 .. Top /\ last = n - Top + 1 .. n
  <2> HIDE DEF n
  <2> QED
    BY <1>1 DEF FirstPlaces, LastPlaces
<1>4. /\ first \in SUBSET (1 .. n) /\ last \in SUBSET (1 .. n)
      /\ Cardinality(first) = Top /\ Cardinality(last) = Top
  <2> HIDE DEF n, first, last
  <2>1. /\ 1 \in Int /\ Top \in Int /\ n \in Int /\ n - Top + 1 \in Int
        /\ ~(1 > Top) /\ Top - 1 + 1 = Top
        /\ ~(n - Top + 1 > n) /\ n - (n - Top + 1) + 1 = Top
    BY <1>1
  <2>2. first \in SUBSET (1 .. n) /\ last \in SUBSET (1 .. n)
    BY <1>1, <1>3, <2>1
  <2>3. Cardinality(1 .. Top) = Top
    <3>1. Cardinality(1 .. Top) = IF 1 > Top THEN 0 ELSE Top - 1 + 1
      BY <2>1, FS_Interval, Zenon
    <3> QED
      BY <2>1, <3>1
  <2>4. Cardinality(n - Top + 1 .. n) = Top
    <3>1. Cardinality(n - Top + 1 .. n) = IF n - Top + 1 > n THEN 0 ELSE n - (n - Top + 1) + 1
      BY <2>1, FS_Interval, Zenon
    <3> QED
      BY <2>1, <3>1
  <2> QED
    BY <1>3, <2>2, <2>3, <2>4
<1>5. IsFiniteSet(chosen) /\ IsFiniteSet(first) /\ IsFiniteSet(last)
  <2> HIDE DEF first, last
  <2> QED
    BY <1>2, <1>4, PercsAreIntegers, FS_Subset
<1>6. \A k \in 1 .. n : f[k] \in Int
  BY PercsAreIntegers
<1>7. \A i, j \in 1 .. n : i <= j => f[j] <= f[i]
  <2> SUFFICES ASSUME NEW i \in 1 .. n, NEW j \in 1 .. n, i <= j
               PROVE  f[j] <= f[i]
    OBVIOUS
  <2>1. f[i] = list[i].perc /\ f[j] = list[j].perc /\ f[i] \in Int /\ f[j] \in Int
    BY PercsAreIntegers
  <2>2. CASE i = j
    BY <2>1, <2>2
  <2>3. CASE i < j
    BY <2>1, <2>3 DEF Descending
  <2> QED
    BY <2>2, <2>3
<1>8. /\ SumOf(list, chosen) = SumFunctionOnSet(f, chosen)
      /\ SumOf(list, first) = SumFunctionOnSet(f, first)
      /\ SumOf(list, last) = SumFunctionOnSet(f, last)
  <2> HIDE DEF first, last
  <2> QED
    BY <1>2, <1>4, SumOfValue
<1> HIDE DEF n, f, first, last
<1>9. SumFunctionOnSet(f, chosen) <= SumFunctionOnSet(f, first)
  <2>1. Top \in 1 .. n
    BY <1>1
  <2>2. \A k \in chosen \ first : f[k] <= f[Top]
    BY <1>1, <1>2, <1>3, <1>7, <2>1
  <2>3. \A k \in first \ chosen : f[Top] <= f[k]
    BY <1>1, <1>3, <1>4, <1>7, <2>1
  <2>4. \A k \in chosen \union first : f[k] \in Int
    BY <1>2, <1>4, <1>6
  <2> QED
    BY <1>2, <1>4, <1>5, <1>6, <2>1, <2>2, <2>3, <2>4, SumOfChoices
<1>10. SumFunctionOnSet(f, last) <= SumFunctionOnSet(f, chosen)
  <2> DEFINE k0 == n - Top + 1
  <2>1. k0 \in 1 .. n
    BY <1>1
  <2>2. \A k \in last \ chosen : f[k] <= f[k0]
    BY <1>1, <1>3, <1>4, <1>7, <2>1
  <2>3. \A k \in chosen \ last : f[k0] <= f[k]
    BY <1>1, <1>2, <1>3, <1>7, <2>1
  <2>4. \A k \in last \union chosen : f[k] \in Int
    BY <1>2, <1>4, <1>6
  <2> HIDE DEF k0
  <2> QED
    BY <1>2, <1>4, <1>5, <1>6, <2>1, <2>2, <2>3, <2>4, SumOfChoices
<1>11. SumFunctionOnSet(f, chosen) \in Int /\ SumFunctionOnSet(f, last) \in Int
  BY <1>2, <1>4, <1>5, <1>6, SumType
<1> QED
  BY <1>8, <1>9, <1>10, <1>11 DEF first, last, n

-----------------------------------------------------------------------------
(* The market overview: the invariant. *)

(* What a list adds to the counts of the intervals. *)
PlacesOf(list, i) == {k \in 1 .. Len(list) : i \in IntervalOf(list[k].perc)}
Counts(list)      == [i \in IntervalNo |-> Cardinality(PlacesOf(list, i))]

(* There are finitely many intervals, and a list adds a number to each. *)
LEMMA CountsTyped ==
  ASSUME NEW list \in Seq(Ticker)
  PROVE  IsFiniteSet(IntervalNo) /\ Counts(list) \in [IntervalNo -> Nat]
<1>1. IsFiniteSet(IntervalNo)
  <2>1. 0 \in Int /\ 2 * Levels \in Int
    BY BoundsOfIntervals
  <2> QED
    BY <2>1, FS_Interval DEF IntervalNo
<1>2. ASSUME NEW i \in IntervalNo PROVE Cardinality(PlacesOf(list, i)) \in Nat
  <2>1. IsFiniteSet(1 .. Len(list)) /\ PlacesOf(list, i) \in SUBSET (1 .. Len(list))
    BY PercsAreIntegers DEF PlacesOf
  <2> QED
    BY <2>1, FS_Subset, FS_CardinalityType
<1> QED
  BY <1>1, <1>2 DEF Counts

(* A list adds to some intervals no more than the places whose changes they are for:
   it adds none of them twice. *)
LEMMA CountedOnce ==
  ASSUME NEW list \in Seq(Ticker), NEW S \in SUBSET IntervalNo,
         NEW places \in SUBSET (1 .. Len(list)),
         \A k \in 1 .. Len(list) : \A i \in S : i \in IntervalOf(list[k].perc) => k \in places
  PROVE  /\ SumFunctionOnSet(Counts(list), S) \in Nat /\ Cardinality(places) \in Nat
         /\ SumFunctionOnSet(Counts(list), S) <= Cardinality(places)
<1> DEFINE R == 1 .. Len(list)
           piece == [i \in S |-> PlacesOf(list, i)]
           counts == Counts(list)
           one == [k \in R |-> 1]
           held == UNION {piece[i] : i \in S}
<1>1. /\ IsFiniteSet(S) /\ IsFiniteSet(R)
      /\ \A k \in R : list[k].perc \in Int
  <2>1. IsFiniteSet(S)
    BY CountsTyped, FS_Subset
  <2> QED
    BY <2>1, PercsAreIntegers
<1>2. \A i \in S : piece[i] \in SUBSET R
  BY DEF PlacesOf
<1>3. \A i, j \in S : i # j => piece[i] \intersect piece[j] = {}
  <2> SUFFICES ASSUME NEW i \in S, NEW j \in S, NEW k \in piece[i] \intersect piece[j]
               PROVE  i = j
    OBVIOUS
  <2>1. k \in R /\ i \in IntervalOf(list[k].perc) /\ j \in IntervalOf(list[k].perc)
    BY DEF PlacesOf
  <2> QED
    BY <1>1, <2>1, OneInterval
<1>4. held \in SUBSET R /\ held \in SUBSET places
  <2>1. \A i \in S : piece[i] \in SUBSET places
    BY DEF PlacesOf
  <2> HIDE DEF piece
  <2> QED
    BY <1>2, <2>1
<1>5. ASSUME NEW T \in SUBSET R
      PROVE  IsFiniteSet(T) /\ Cardinality(T) \in Nat
             /\ SumFunctionOnSet(one, T) = Cardinality(T)
  <2>1. IsFiniteSet(T) /\ Cardinality(T) \in Nat /\ \A k \in T : one[k] = 1
    BY <1>1, FS_Subset, FS_CardinalityType
  <2> HIDE DEF one, R
  <2>2. SumFunctionOnSet(one, T) = Cardinality(T) * 1
    BY <2>1, SumConstant
  <2> QED
    BY <2>1, <2>2
<1>6. \A i \in S : counts[i] = SumFunctionOnSet(one, piece[i])
  <2>1. \A i \in S : counts[i] = Cardinality(piece[i])
    BY DEF Counts
  <2> HIDE DEF counts, piece, one, R
  <2> QED
    BY <1>2, <1>5, <2>1
<1>7. SumFunctionOnSet(counts, S) = SumFunctionOnSet(one, held)
  <2>1. \A k \in R : one[k] \in Int
    OBVIOUS
  <2> HIDE DEF counts, piece, one, R
  <2> QED
    BY ONLY <1>1, <1>2, <1>3, <1>6, <2>1, SumOfParts DEF held
<1>8. Cardinality(held) <= Cardinality(places)
  <2> HIDE DEF held, R
  <2>1. IsFiniteSet(places)
    BY <1>5 DEF R
  <2> QED
    BY <1>4, <2>1, FS_Subset
<1>9. Cardinality(places) \in Nat
  <2> HIDE DEF one
  <2> QED
    BY <1>5
<1> HIDE DEF held, one, R
<1> QED
  BY <1>4, <1>5, <1>7, <1>8, <1>9

(* The inductive invariant: the list is in order and the partial sums are those of
   its two ends. *)
MarketInv ==
  /\ MarketTypeOK /\ Descending(m_TickerDataList)
  /\ topSum = SumOf(m_TickerDataList, FirstPlaces(Len(m_TickerDataList)))
  /\ lastSum = SumOf(m_TickerDataList, LastPlaces(Len(m_TickerDataList)))

(* The overview by itself. *)
MarketSpec == MarketInit /\ [][OnTickerUpdate]_marketVars

(* An empty overview has empty sums. *)
LEMMA MarketStart == MarketInit => MarketInv
<1> SUFFICES ASSUME MarketInit PROVE MarketInv
  OBVIOUS
<1>1. m_TickerDataList \in Seq(Ticker) /\ Len(m_TickerDataList) = 0
  BY DEF MarketInit
<1>2. 1 .. Len(m_TickerDataList) = {}
  BY <1>1
<1>3. MarketTypeOK
  BY <1>1, MarketAssumption DEF MarketInit, MarketTypeOK
<1>4. Descending(m_TickerDataList)
  BY <1>2 DEF Descending
<1>5. SumOf(m_TickerDataList, {}) = 0
  BY SumEmpty DEF SumOf
<1>6. FirstPlaces(Len(m_TickerDataList)) = {} /\ LastPlaces(Len(m_TickerDataList)) = {}
  BY <1>2 DEF FirstPlaces, LastPlaces
<1> QED
  BY <1>3, <1>4, <1>5, <1>6 DEF MarketInv, MarketInit

(* An event leaves a list of tickers in descending order, from which everything is
   recalculated. *)
LEMMA EventList ==
  ASSUME MarketInv, OnTickerUpdate
  PROVE  \E list \in Seq(Ticker) :
           /\ Descending(list) /\ m_TickerDataList' = list /\ Recalculate(list)
           /\ intervalCount' = [i \in IntervalNo |-> intervalCount[i] + Counts(list)[i]]
<1>1. PICK subset \in SUBSET Symbols : \E event \in [subset -> Change] :
        \E list \in Sorted(Updated(m_TickerDataList, event)) :
          m_TickerDataList' = list /\ Recalculate(list)
  BY DEF OnTickerUpdate
<1>2. PICK event \in [subset -> Change] :
        \E list \in Sorted(Updated(m_TickerDataList, event)) :
          m_TickerDataList' = list /\ Recalculate(list)
  BY <1>1
<1>3. PICK list \in Sorted(Updated(m_TickerDataList, event)) :
        m_TickerDataList' = list /\ Recalculate(list)
  BY <1>2
<1>4. list \in Seq(Ticker) /\ Descending(list)
  <2>1. m_TickerDataList \in Seq(Ticker)
    BY DEF MarketInv, MarketTypeOK
  <2>2. Updated(m_TickerDataList, event) \in Seq(Ticker)
    BY <2>1, UpdatedTyped
  <2> QED
    BY <2>2, SortedTyped
<1>5. intervalCount' = [i \in IntervalNo |-> intervalCount[i] + Counts(list)[i]]
  <2>1. intervalCount' = [i \in IntervalNo |->
                            intervalCount[i] + Cardinality(PlacesOf(list, i))]
    BY <1>3 DEF Recalculate, CountOf, Quantify, PlacesOf
  <2> QED
    BY <2>1 DEF Counts
<1> QED
  BY <1>3, <1>4, <1>5

(* An update of any tickers, put in any descending order, keeps the invariant:
   sums are taken from the list that the update leaves behind. *)
LEMMA MarketStep ==
  ASSUME MarketInv, [OnTickerUpdate]_marketVars
  PROVE  MarketInv'
<1>1. CASE UNCHANGED marketVars
  BY <1>1 DEF marketVars, MarketInv, MarketTypeOK, Descending
<1>2. CASE OnTickerUpdate
  <2>1. PICK list \in Seq(Ticker) :
          /\ Descending(list) /\ m_TickerDataList' = list /\ Recalculate(list)
          /\ intervalCount' = [i \in IntervalNo |-> intervalCount[i] + Counts(list)[i]]
    BY <1>2, EventList
  <2>2. intervalCount' \in [IntervalNo -> Nat]
    <3>1. intervalCount \in [IntervalNo -> Nat] /\ Counts(list) \in [IntervalNo -> Nat]
      BY CountsTyped DEF MarketInv, MarketTypeOK
    <3>2. \A i \in IntervalNo : intervalCount[i] + Counts(list)[i] \in Nat
      BY <3>1
    <3> QED
      BY <2>1, <3>2
  <2>3. {riseCount', fallCount', unchangedCount'} \subseteq Nat
    <3>1. ASSUME NEW T \in SUBSET (1 .. Len(list)) PROVE Cardinality(T) \in Nat
      BY PercsAreIntegers, FS_Subset, FS_CardinalityType
    <3>2. /\ riseCount' = Cardinality({k \in 1 .. Len(list) : list[k].perc > 0})
          /\ fallCount' = Cardinality({k \in 1 .. Len(list) : list[k].perc < 0})
          /\ unchangedCount' = Cardinality({k \in 1 .. Len(list) : list[k].perc = 0})
      BY <2>1 DEF Recalculate, CountOf, Quantify
    <3> QED
      BY <3>1, <3>2
  <2>4. /\ topSum' = SumOf(list, FirstPlaces(Len(list)))
        /\ lastSum' = SumOf(list, LastPlaces(Len(list)))
        /\ percentageSum' = SumOf(list, 1 .. Len(list))
    BY <2>1 DEF Recalculate, FirstPlaces, LastPlaces
  <2>5. {percentageSum', topSum', lastSum'} \subseteq Int
    <3>1. FirstPlaces(Len(list)) \in SUBSET (1 .. Len(list))
          /\ LastPlaces(Len(list)) \in SUBSET (1 .. Len(list))
      BY DEF FirstPlaces, LastPlaces
    <3>2. \A places \in SUBSET (1 .. Len(list)) : SumOf(list, places) \in Int
      BY SumOfValue
    <3> QED
      BY <2>4, <3>1, <3>2
  <2>6. events' \in 0 .. MaxEvents
    <3>1. events < MaxEvents /\ events' = events + 1 /\ events \in 0 .. MaxEvents
      BY <1>2 DEF OnTickerUpdate, MarketInv, MarketTypeOK
    <3> QED
      BY ONLY <3>1, MarketAssumption
  <2>7. MarketTypeOK'
    BY <2>1, <2>2, <2>3, <2>5, <2>6 DEF MarketTypeOK
  <2> QED
    BY <2>1, <2>4, <2>7 DEF MarketInv
<1> QED
  BY <1>1, <1>2

(* The overview's invariant implies what is said of the partial averages. *)
LEMMA ExtremeAverages == MarketInv => PartialAveragesAreExtreme
BY ExtremeSums DEF MarketInv, MarketTypeOK, PartialAveragesAreExtreme

(* No interval is in two of the chart's bars. *)
LEMMA BarsApart ==
  /\ IsFiniteSet(ChartBars)
  /\ \A bar \in ChartBars : BarIntervals(bar) \in SUBSET IntervalNo
  /\ \A x, y \in ChartBars : x # y => BarIntervals(x) \intersect BarIntervals(y) = {}
<1> DEFINE ends == Bounds \union {-Infinity, Infinity + 1}
<1>1. IsFiniteSet(ends) /\ \A b \in ends : b \in Int
  <2>1. Levels \in Nat /\ Bars \in SUBSET (0 .. 2 * Levels)
    BY MarketAssumption
  <2> DEFINE shifted == [b \in Bars |-> b - Levels]
  <2>2. IsFiniteSet(Bars)
    <3>1. 0 \in Int /\ 2 * Levels \in Int
      BY <2>1
    <3> QED
      BY <2>1, <3>1, FS_Interval, FS_Subset
  <2>3. shifted \in Surjection(Bars, Bounds)
    BY DEF Surjection, Bounds
  <2>4. IsFiniteSet(Bounds)
    <3> HIDE DEF shifted
    <3> QED
      BY <2>2, <2>3, FS_Surjection
  <2>5. IsFiniteSet({-Infinity, Infinity + 1})
    <3>1. {-Infinity, Infinity + 1} = ({} \union {-Infinity}) \union {Infinity + 1}
      OBVIOUS
    <3>2. IsFiniteSet({} \union {-Infinity})
      BY FS_EmptySet, FS_AddElement
    <3>3. IsFiniteSet(({} \union {-Infinity}) \union {Infinity + 1})
      BY <3>2, FS_AddElement, Zenon
    <3> QED
      BY <3>1, <3>3
  <2>6. \A b \in Bounds : b \in Int
    BY <2>1 DEF Bounds
  <2>7. IsFiniteSet(ends)
    BY <2>4, <2>5, FS_Union, Zenon
  <2>8. -Infinity \in Int /\ Infinity + 1 \in Int
    BY DEF Infinity
  <2> QED
    BY <2>6, <2>7, <2>8
<1>2. ChartBars = {bar \in ends \X ends :
                     bar[1] < bar[2] /\ \A b \in ends : b <= bar[1] \/ b >= bar[2]}
  BY DEF ChartBars
<1> HIDE DEF ends
<1>3. IsFiniteSet(ChartBars)
  <2>1. IsFiniteSet(ends \X ends) /\ ChartBars \subseteq ends \X ends
    BY <1>1, <1>2, FS_Product
  <2> QED
    BY <2>1, FS_Subset
<1>4. ASSUME NEW x \in ChartBars, NEW y \in ChartBars,
             NEW i \in BarIntervals(x) \intersect BarIntervals(y)
      PROVE  x = y
  <2>1. /\ x \in ends \X ends /\ x[1] \in ends /\ x[2] \in ends
        /\ y \in ends \X ends /\ y[1] \in ends /\ y[2] \in ends
        /\ \A b \in ends : b <= x[1] \/ b >= x[2]
        /\ \A b \in ends : b <= y[1] \/ b >= y[2]
        /\ x[1] < x[2] /\ y[1] < y[2]
    BY <1>2
  <2>2. x[1] \in Int /\ x[2] \in Int /\ y[1] \in Int /\ y[2] \in Int
    BY <1>1, <2>1
  <2>3. /\ LowerBound(i) \in Int /\ UpperBound(i) \in Int /\ LowerBound(i) <= UpperBound(i)
        /\ LowerBound(i) >= x[1] /\ UpperBound(i) < x[2]
        /\ LowerBound(i) >= y[1] /\ UpperBound(i) < y[2]
    BY BoundsOfIntervals DEF BarIntervals
  <2>4. y[1] <= x[1] \/ y[1] >= x[2]
    BY <2>1
  <2>5. x[1] <= y[1] \/ x[1] >= y[2]
    BY <2>1
  <2>6. x[1] = y[1]
    BY <2>2, <2>3, <2>4, <2>5
  <2>7. (y[2] <= x[1] \/ y[2] >= x[2]) /\ (x[2] <= y[1] \/ x[2] >= y[2])
    BY <2>1
  <2>8. x[2] = y[2]
    BY <2>1, <2>2, <2>6, <2>7
  <2> QED
    BY <2>1, <2>6, <2>8
<1>5. \A bar \in ChartBars : BarIntervals(bar) \in SUBSET IntervalNo
  BY DEF BarIntervals
<1> QED
  BY <1>3, <1>4, <1>5

(* The chart shows each interval's count in one bar at most. *)
LEMMA ShownOnce ==
  MarketInv => SumFunction([bar \in ChartBars |-> BarCount(bar)]) <= CountIn(IntervalNo)
<1> DEFINE total == SumFunctionOnSet(intervalCount, IntervalNo)
           count == [bar \in ChartBars |-> BarCount(bar)]
           piece  == [bar \in ChartBars |-> BarIntervals(bar)]
           shown == UNION {piece[bar] : bar \in ChartBars}
<1> SUFFICES ASSUME MarketInv PROVE SumFunction(count) <= total
  BY DEF CountIn
<1>1. /\ IsFiniteSet(IntervalNo)
      /\ \A i \in IntervalNo : intervalCount[i] \in Nat /\ intervalCount[i] \in Int
  <2>1. m_TickerDataList \in Seq(Ticker) /\ intervalCount \in [IntervalNo -> Nat]
    BY DEF MarketInv, MarketTypeOK
  <2>2. IsFiniteSet(IntervalNo)
    BY <2>1, CountsTyped
  <2>3. \A i \in IntervalNo : intervalCount[i] \in Nat
    BY <2>1
  <2> QED
    BY <2>2, <2>3
<1>2. /\ IsFiniteSet(ChartBars)
      /\ \A bar \in ChartBars : piece[bar] \in SUBSET IntervalNo
      /\ \A x, y \in ChartBars : x # y => piece[x] \intersect piece[y] = {}
      /\ \A bar \in ChartBars : count[bar] = SumFunctionOnSet(intervalCount, piece[bar])
  BY BarsApart DEF BarCount
<1>3. SumFunction(count) = SumFunctionOnSet(count, ChartBars)
  <2>1. DOMAIN count = ChartBars
    OBVIOUS
  <2> HIDE DEF count
  <2> QED
    BY <2>1 DEF SumFunction, SumFunctionOnSet, FoldFunction
<1> HIDE DEF count, piece
<1>4. SumFunctionOnSet(count, ChartBars) = SumFunctionOnSet(intervalCount, shown)
  BY <1>1, <1>2, SumOfParts
<1>5. shown \in SUBSET IntervalNo
  BY <1>2
<1> HIDE DEF shown
<1>6. SumFunctionOnSet(intervalCount, shown) <= total
  BY <1>1, <1>5, SumOfSubset
<1> QED
  BY <1>3, <1>4, <1>6

(* An event adds to intervals no more than the contracts whose changes they are for. *)
LEMMA EventCounts ==
  ASSUME MarketInv, NEW list \in Seq(Ticker), NEW S \in SUBSET IntervalNo,
         intervalCount' = [i \in IntervalNo |-> intervalCount[i] + Counts(list)[i]],
         NEW places \in SUBSET (1 .. Len(list)),
         \A k \in 1 .. Len(list) : \A i \in S : i \in IntervalOf(list[k].perc) => k \in places
  PROVE  SumFunctionOnSet(intervalCount', S) - SumFunctionOnSet(intervalCount, S)
           <= Cardinality(places)
<1> DEFINE before == intervalCount
           after  == intervalCount'
           added  == Counts(list)
<1>1. IsFiniteSet(S) /\ before \in [IntervalNo -> Nat] /\ added \in [IntervalNo -> Nat]
  <2>1. IsFiniteSet(IntervalNo)
    BY CountsTyped
  <2> QED
    BY <2>1, CountsTyped, FS_Subset DEF MarketInv, MarketTypeOK
<1>2. \A i \in S : /\ before[i] \in Int /\ added[i] \in Int
                   /\ after[i] = before[i] + added[i]
  BY <1>1
<1>3. /\ SumFunctionOnSet(added, S) \in Nat /\ Cardinality(places) \in Nat
      /\ SumFunctionOnSet(added, S) <= Cardinality(places)
  BY CountedOnce
<1> HIDE DEF before, after, added
<1>4. SumFunctionOnSet(after, S) = SumFunctionOnSet(before, S) + SumFunctionOnSet(added, S)
  BY <1>1, <1>2, SumOfSums
<1>5. SumFunctionOnSet(before, S) \in Int
  BY <1>1, <1>2, SumType
<1>6. SumFunctionOnSet(after, S) - SumFunctionOnSet(before, S) <= Cardinality(places)
  BY <1>3, <1>4, <1>5
<1> QED
  BY <1>6 DEF before, after

(* What a step adds to the intervals above, below and at zero. *)
StepCounts ==
  /\ CountIn(Above)' - CountIn(Above) <= riseCount'
  /\ CountIn(Below)' - CountIn(Below) <= fallCount'
  /\ CountIn({Levels})' - CountIn({Levels}) <= unchangedCount'

(* It is no more than the contracts that rose, fell and stayed. *)
LEMMA CountedOnTheirSide == ASSUME MarketInv, OnTickerUpdate PROVE StepCounts
<1>1. PICK list \in Seq(Ticker) :
        /\ Recalculate(list)
        /\ intervalCount' = [i \in IntervalNo |-> intervalCount[i] + Counts(list)[i]]
  BY EventList
<1> DEFINE R == 1 .. Len(list)
           risen  == {k \in R : list[k].perc > 0}
           fallen == {k \in R : list[k].perc < 0}
           stayed == {k \in R : list[k].perc = 0}
<1>2. /\ riseCount' = Cardinality(risen) /\ fallCount' = Cardinality(fallen)
      /\ unchangedCount' = Cardinality(stayed)
  BY <1>1 DEF Recalculate, CountOf, Quantify
<1>3. /\ Above \in SUBSET IntervalNo /\ Below \in SUBSET IntervalNo
      /\ {Levels} \in SUBSET IntervalNo
      /\ (\A i \in Above : i > Levels) /\ (\A i \in Below : i < Levels)
  <2>1. Levels \in Nat
    BY BoundsOfIntervals
  <2> QED
    BY <2>1 DEF Above, Below, IntervalNo
<1>4. \A k \in R : \A i \in IntervalOf(list[k].perc) :
        /\ i > Levels => k \in risen
        /\ i < Levels => k \in fallen
        /\ i = Levels => k \in stayed
  <2>1. \A k \in R : list[k].perc \in Int
    BY PercsAreIntegers
  <2> QED
    BY <2>1, OneInterval
<1>5. risen \in SUBSET R /\ fallen \in SUBSET R /\ stayed \in SUBSET R
  OBVIOUS
<1> HIDE DEF risen, fallen, stayed
<1> DEFINE Gain(S) == SumFunctionOnSet(intervalCount', S) - SumFunctionOnSet(intervalCount, S)
<1>6. /\ CountIn(Above)' - CountIn(Above) = Gain(Above)
      /\ CountIn(Below)' - CountIn(Below) = Gain(Below)
      /\ CountIn({Levels})' - CountIn({Levels}) = Gain({Levels})
  BY DEF CountIn, Above, Below
<1>7. Gain(Above) <= Cardinality(risen)
  BY <1>1, <1>3, <1>4, <1>5, EventCounts
<1>8. Gain(Below) <= Cardinality(fallen)
  BY <1>1, <1>3, <1>4, <1>5, EventCounts
<1>9. Gain({Levels}) <= Cardinality(stayed)
  BY <1>1, <1>3, <1>4, <1>5, EventCounts
<1> HIDE DEF Gain
<1> QED
  BY <1>2, <1>6, <1>7, <1>8, <1>9 DEF StepCounts

(* Whatever the contracts, changes and events, as soon as there are enough
   contracts the two partial averages are those of the ones that rose most and
   least, in any order the unstable sort leaves them
   (QuoteService.cs, RecalculateMarketPreviewData). *)
THEOREM PartialAveragesAlwaysExtreme == MarketSpec => []PartialAveragesAreExtreme
  BY MarketStart, MarketStep, ExtremeAverages, PTL DEF MarketSpec

(* Whatever the number of intervals and the chart's bounds, an event counts no
   contract twice or on the wrong side of zero, and no bar shows a count that
   another one does (QuoteService.cs, RecordPerc; MarketOverviewBarChartWidget.cpp). *)
THEOREM DistributionAlwaysAccounted == MarketSpec => DistributionAccounted
<1> DEFINE Step == events' # events =>
                     /\ CountIn(Above)' - CountIn(Above) <= riseCount'
                     /\ CountIn(Below)' - CountIn(Below) <= fallCount'
                     /\ CountIn({Levels})' - CountIn({Levels}) <= unchangedCount'
                     /\ SumFunction([bar \in ChartBars |-> BarCount(bar)])'
                          <= CountIn(IntervalNo)'
<1>1. MarketInv /\ MarketInv' /\ [OnTickerUpdate]_marketVars => [Step]_marketVars
  <2> SUFFICES ASSUME MarketInv, MarketInv', OnTickerUpdate PROVE Step
    OBVIOUS
  <2>1. (SumFunction([bar \in ChartBars |-> BarCount(bar)]) <= CountIn(IntervalNo))'
    BY ShownOnce, PTL
  <2> QED
    BY <2>1, CountedOnTheirSide DEF StepCounts
<1>2. [][Step]_marketVars <=> DistributionAccounted
  BY DEF DistributionAccounted
<1> HIDE DEF Step
<1> QED
  BY <1>1, <1>2, MarketStart, MarketStep, PTL DEF MarketSpec

-----------------------------------------------------------------------------
(* The query of past candles: times and minutes. *)

(* What the constants of the query are. *)
LEMMA HistoryConstants ==
  /\ PageSize \in Nat \ {0} /\ Interval \in Nat \ {0} /\ Limits \subseteq Nat \ {0}
  /\ StartTimes \subseteq Nat /\ EndTimes \subseteq Nat
  /\ Opened \in Nat /\ MaxOpened \in Nat /\ Opened <= MaxOpened
BY HistoryAssumption

(* The extremes of two integers. *)
LEMMA MinOfTwo ==
  ASSUME NEW a \in Int, NEW b \in Int
  PROVE  Min({a, b}) = IF a <= b THEN a ELSE b
<1>1. \A x, y \in {a, b} : (\A z \in {a, b} : x <= z) /\ (\A z \in {a, b} : y <= z) => x = y
  OBVIOUS
<1>2. \E x \in {a, b} : \A z \in {a, b} : x <= z
  OBVIOUS
<1>3. Min({a, b}) \in {a, b} /\ \A z \in {a, b} : Min({a, b}) <= z
  BY <1>2 DEF Min
<1> QED
  BY <1>3

(* The larger of two integers. *)
LEMMA MaxOfTwo ==
  ASSUME NEW a \in Int, NEW b \in Int
  PROVE  Max({a, b}) = IF a >= b THEN a ELSE b
<1>1. \E x \in {a, b} : \A z \in {a, b} : x >= z
  OBVIOUS
<1>2. Max({a, b}) \in {a, b} /\ \A z \in {a, b} : Max({a, b}) >= z
  BY <1>1 DEF Max
<1> QED
  BY <1>2

(* A quotient that is rounded down, of any integer. *)
LEMMA FloorBounds ==
  ASSUME NEW a \in Int, NEW b \in Nat \ {0}
  PROVE  a \div b \in Int /\ b * (a \div b) <= a /\ a < b * (a \div b) + b
  BY SMTT(30)

(* A product with a sum. *)
LEMMA ProductOfSum ==
  ASSUME NEW b \in Int, NEW x \in Int, NEW y \in Int
  PROVE  b * (x + y) = b * x + b * y /\ b * x \in Int /\ b * y \in Int
  BY SMTT(30)

(* The minute from a time on: none before the first, and from the first on the
   one whose candle is less than an interval away. *)
LEMMA MinuteTyped ==
  ASSUME NEW t \in Int
  PROVE  MinuteFrom(t) \in Nat
<1> DEFINE q == (t + Interval - 1) \div Interval
<1>1. t + Interval - 1 \in Int /\ Interval \in Nat \ {0}
  BY HistoryConstants
<1>2. q \in Int
  BY <1>1, FloorBounds
<1> HIDE DEF q
<1>3. Max({0, q}) \in Nat
  BY <1>2, MaxOfTwo
<1> QED
  BY <1>3 DEF MinuteFrom, q

(* The first candle that opens at or after a time opens less than an interval after it. *)
LEMMA MinuteBounds ==
  ASSUME NEW t \in Nat
  PROVE  /\ MinuteFrom(t) \in Nat /\ Interval * MinuteFrom(t) \in Nat
         /\ t <= Interval * MinuteFrom(t) /\ Interval * MinuteFrom(t) < t + Interval
<1> DEFINE a == t + Interval - 1
           q == a \div Interval
<1>1. a \in Nat /\ Interval \in Nat \ {0}
  BY HistoryConstants
<1>2. q \in Nat /\ Interval * q <= a /\ a < Interval * q + Interval
  <2> HIDE DEF a
  <2> QED
    BY <1>1, QuotientBounds
<1>3. Max({0, q}) = q
  <2> HIDE DEF q
  <2> QED
    BY <1>2, MaxOfTwo
<1>4. MinuteFrom(t) = q
  BY <1>3 DEF MinuteFrom
<1> HIDE DEF q
<1>5. Interval * q \in Nat
  BY <1>1, <1>2
<1> QED
  BY <1>1, <1>2, <1>4, <1>5

(* Times that are some intervals apart are so many minutes apart. *)
LEMMA MinuteShift ==
  ASSUME NEW t \in Nat, NEW k \in Nat
  PROVE  t + Interval * k \in Nat /\ MinuteFrom(t + Interval * k) = MinuteFrom(t) + k
<1> DEFINE u == t + Interval * k
           m == MinuteFrom(t)
           n == MinuteFrom(u)
<1>1. Interval \in Nat \ {0} /\ Interval * k \in Nat /\ u \in Nat
  BY HistoryConstants
<1>2. m \in Nat /\ Interval * m \in Nat /\ t <= Interval * m /\ Interval * m < t + Interval
  BY MinuteBounds
<1>3. n \in Nat /\ Interval * n \in Nat /\ u <= Interval * n /\ Interval * n < u + Interval
  <2> HIDE DEF u
  <2> QED
    BY <1>1, MinuteBounds
<1> HIDE DEF m, n
<1>4. Interval * (m + k) = Interval * m + Interval * k
  BY <1>1, <1>2, ProductOfSum
<1>5. Interval * (m + k + 1) = Interval * m + Interval * k + Interval
  BY <1>1, <1>2, <1>4, ProductOfSum
<1>6. Interval * (n + 1) = Interval * n + Interval
  BY <1>1, <1>3, ProductOfSum
<1>7. Interval * n < Interval * (m + k + 1)
  BY <1>1, <1>2, <1>3, <1>5
<1>8. Interval * (m + k) < Interval * (n + 1)
  BY <1>1, <1>2, <1>3, <1>4, <1>6
<1>9. n < m + k + 1
  BY <1>1, <1>2, <1>3, <1>7, FactorsOrdered
<1>10. m + k < n + 1
  BY <1>1, <1>2, <1>3, <1>8, FactorsOrdered
<1> QED
  BY <1>1, <1>2, <1>3, <1>9, <1>10 DEF m, n

(* Before a time in the past every minute's candle has opened. *)
LEMMA MinuteOfPast ==
  ASSUME NEW t \in Nat, NEW n \in Nat, t <= n * Interval
  PROVE  MinuteFrom(t) <= n
<1> DEFINE m == MinuteFrom(t)
<1>1. m \in Nat /\ Interval * m \in Nat /\ Interval * m < t + Interval /\ Interval \in Nat \ {0}
  BY MinuteBounds, HistoryConstants
<1> HIDE DEF m
<1>2. Interval * (n + 1) = n * Interval + Interval /\ n * Interval \in Int
  BY <1>1, SMTT(30)
<1>3. Interval * m < Interval * (n + 1)
  BY <1>1, <1>2
<1>4. m < n + 1
  BY <1>1, <1>3, FactorsOrdered
<1> QED
  BY <1>1, <1>4 DEF m

(* A candle that opens at a time or before it is at most one minute earlier than
   the first from the time on. *)
LEMMA MinuteBefore ==
  ASSUME NEW t \in Nat
  PROVE  t \div Interval \in Int /\ MinuteFrom(t) - 1 <= t \div Interval
<1> DEFINE m == MinuteFrom(t)
           q == t \div Interval
<1>1. m \in Nat /\ Interval * m \in Nat /\ Interval * m < t + Interval /\ Interval \in Nat \ {0}
  BY MinuteBounds, HistoryConstants
<1>2. q \in Nat /\ t < Interval * q + Interval
  BY <1>1, QuotientBounds
<1> HIDE DEF m, q
<1>3. Interval * (q + 2) = Interval * q + Interval * 2
  BY <1>1, <1>2, ProductOfSum
<1>4. Interval * m < Interval * (q + 2)
  BY <1>1, <1>2, <1>3
<1>5. m < q + 2
  BY <1>1, <1>2, <1>4, FactorsOrdered
<1> QED
  BY <1>1, <1>2, <1>5 DEF m, q

-----------------------------------------------------------------------------
(* The query of past candles: answers. *)

(* All the candles of so many minutes. *)
Stretch(first, n) == [k \in 1 .. n |-> first + k - 1]

(* A stretch of minutes is a sequence of the length asked for. *)
LEMMA StretchListed ==
  ASSUME NEW first \in Int, NEW n \in Nat
  PROVE  Stretch(first, n) \in Seq(Int) /\ Len(Stretch(first, n)) = n
<1>1. Stretch(first, n) \in [1 .. n -> Int]
  BY DEF Stretch
<1> QED
  BY <1>1, FunctionIsList

(* Two stretches of minutes, one after the other. *)
LEMMA StretchesJoined ==
  ASSUME NEW first \in Int, NEW m \in Nat, NEW n \in Nat
  PROVE  Stretch(first, m) \o Stretch(first + m, n) = Stretch(first, m + n)
<1> DEFINE p == Stretch(first, m)
           q == Stretch(first + m, n)
           r == Stretch(first, m + n)
<1>1. /\ p \in Seq(Int) /\ Len(p) = m /\ q \in Seq(Int) /\ Len(q) = n
      /\ r \in Seq(Int) /\ Len(r) = m + n
  BY StretchListed
<1>2. /\ \A k \in 1 .. m : p[k] = first + k - 1
      /\ \A k \in 1 .. n : q[k] = first + m + k - 1
      /\ \A k \in 1 .. m + n : r[k] = first + k - 1
  BY DEF Stretch
<1> HIDE DEF p, q, r
<1>3. /\ p \o q \in Seq(Int) /\ Len(p \o q) = m + n
      /\ \A k \in 1 .. m + n : (p \o q)[k] = IF k <= m THEN p[k] ELSE q[k - m]
  BY <1>1, Concatenation
<1>4. ASSUME NEW k \in 1 .. m + n
      PROVE  (p \o q)[k] = r[k]
  <2>1. k <= m => (p \o q)[k] = first + k - 1
    BY <1>2, <1>3
  <2>2. ASSUME ~(k <= m) PROVE (p \o q)[k] = first + k - 1
    <3>1. k - m \in 1 .. n /\ first + m + (k - m) - 1 = first + k - 1
      BY <2>2
    <3>2. (p \o q)[k] = q[k - m]
      BY <1>3, <2>2
    <3>3. q[k - m] = first + m + (k - m) - 1
      BY <1>2, <3>1
    <3> QED
      BY <3>1, <3>2, <3>3
  <2> QED
    BY <1>2, <2>1, <2>2
<1>5. p \o q = r
  BY <1>1, <1>3, <1>4, SeqEqual
<1> QED
  BY <1>5 DEF p, q, r

(* If the candles of a stretch have opened, they are there. *)
LEMMA CandlesOpened ==
  ASSUME NEW first \in Nat, NEW n \in Nat, opened \in Nat, first + n <= opened
  PROVE  Candles(first, first + n - 1) = Stretch(first, n)
<1>1. Min({first + n - 1, opened - 1}) = first + n - 1
  BY MinOfTwo
<1>2. Max({0, n}) = n
  BY MaxOfTwo
<1> DEFINE end == Min({first + n - 1, opened - 1})
<1>3. Candles(first, first + n - 1) = [k \in 1 .. Max({0, end - first + 1}) |-> first + k - 1]
  BY DEF Candles
<1> HIDE DEF end
<1>4. Max({0, end - first + 1}) = n
  <2>1. end = first + n - 1
    BY <1>1 DEF end
  <2>2. end - first + 1 = n
    BY <2>1
  <2> QED
    BY <1>2, <2>2
<1> QED
  BY <1>3, <1>4 DEF Stretch

(* Whatever is asked for, the answer is a list of candles there are, no longer
   than that of the minutes. *)
LEMMA CandlesTyped ==
  ASSUME NEW first \in Nat, NEW last \in Int, opened \in Nat, opened <= MaxOpened
  PROVE  /\ Candles(first, last) \in Seq(0 .. MaxOpened - 1)
         /\ Len(Candles(first, last)) <= last - first + 1 \/ Len(Candles(first, last)) = 0
<1> DEFINE end == Min({last, opened - 1})
           n == Max({0, end - first + 1})
<1>1. end \in Int /\ end <= last /\ end <= opened - 1
  BY MinOfTwo
<1>2. n \in Nat /\ (n = 0 \/ n = end - first + 1)
  <2> HIDE DEF end
  <2> QED
    BY <1>1, MaxOfTwo
<1>3. Candles(first, last) = [k \in 1 .. n |-> first + k - 1]
  BY DEF Candles
<1> HIDE DEF end, n
<1> DEFINE list == [k \in 1 .. n |-> first + k - 1]
<1>4. list \in [1 .. n -> 0 .. MaxOpened - 1]
  <2>1. MaxOpened \in Nat
    BY HistoryConstants
  <2>2. \A k \in 1 .. n : first + k - 1 \in 0 .. MaxOpened - 1
    BY <1>1, <1>2, <2>1
  <2> QED
    BY <2>2
<1>5. list = Candles(first, last)
  BY <1>3
<1> HIDE DEF list
<1>6. list \in Seq(0 .. MaxOpened - 1) /\ Len(list) = n
  BY <1>2, <1>4, FunctionIsList
<1> QED
  BY <1>1, <1>2, <1>5, <1>6

(* The minute an answer ends with. *)
LastBefore(last, end) == Min({last} \union {time \div Interval : time \in end})

(* An answer ends with the last candle before its end, and an end after that candle
   cuts off nothing. *)
LEMMA LastMinute ==
  ASSUME NEW last \in Int, NEW end, end = {} \/ \E time \in Int : end = {time}
  PROVE  /\ LastBefore(last, end) \in Int
         /\ LastBefore(last, end) <= last
         /\ (\A time \in end : last <= time \div Interval) => LastBefore(last, end) = last
<1>1. CASE end = {}
  <2>1. {last} \union {time \div Interval : time \in end} = {last, last}
    BY <1>1
  <2>2. Min({last, last}) = last
    BY MinOfTwo
  <2> QED
    BY <2>1, <2>2 DEF LastBefore
<1>2. CASE \E time \in Int : end = {time}
  <2>1. PICK time \in Int : end = {time}
    BY <1>2
  <2> DEFINE q == time \div Interval
  <2>2. q \in Int
    BY FloorBounds, HistoryConstants
  <2>3. {last} \union {t \div Interval : t \in end} = {last, q}
    BY <2>1
  <2>4. (\A t \in end : last <= t \div Interval) => last <= q
    BY <2>1
  <2>5. LastBefore(last, end) = Min({last, q})
    BY <2>3 DEF LastBefore
  <2> HIDE DEF q
  <2>6. Min({last, q}) = IF last <= q THEN last ELSE q
    BY <2>2, MinOfTwo
  <2> QED
    BY <2>2, <2>4, <2>5, <2>6
<1> QED
  BY <1>1, <1>2

(* An answer holds only candles that have opened, and no more than its limit. *)
LEMMA AnswerTyped ==
  ASSUME NEW from \in Int, NEW end, end = {} \/ \E time \in Int : end = {time},
         NEW limit \in Nat, opened \in Nat, opened <= MaxOpened
  PROVE  /\ GetKlinesAsync(from, end, limit) \in Seq(0 .. MaxOpened - 1)
         /\ Len(GetKlinesAsync(from, end, limit)) <= limit
<1> DEFINE first == MinuteFrom(from)
           last  == LastBefore(first + limit - 1, end)
<1>1. first \in Nat
  BY MinuteTyped
<1>2. last \in Int /\ last <= first + limit - 1
  <2> HIDE DEF first
  <2>1. first + limit - 1 \in Int
    BY <1>1
  <2> QED
    BY <2>1, LastMinute
<1>3. GetKlinesAsync(from, end, limit) = Candles(first, last)
  BY DEF GetKlinesAsync, LastBefore
<1> HIDE DEF first, last
<1>4. /\ Candles(first, last) \in Seq(0 .. MaxOpened - 1)
      /\ Len(Candles(first, last)) <= last - first + 1 \/ Len(Candles(first, last)) = 0
      /\ Len(Candles(first, last)) \in Nat
  <2>1. Candles(first, last) \in Seq(0 .. MaxOpened - 1)
    BY <1>1, <1>2, CandlesTyped
  <2> QED
    BY <1>1, <1>2, <2>1, CandlesTyped, LenProperties
<1> QED
  BY <1>1, <1>2, <1>3, <1>4

(* A request for the candles before a time in the past, or for so many from a
   time on, is answered with all of them, though the end is included. *)
LEMMA AnswerComplete ==
  ASSUME NEW from \in Nat, NEW limit \in Nat,
         NEW end, end = {} \/ end = {from + Interval * limit},
         opened \in Nat, MinuteFrom(from) + limit <= opened
  PROVE  GetKlinesAsync(from, end, limit) = Stretch(MinuteFrom(from), limit)
<1> DEFINE first == MinuteFrom(from)
           time  == from + Interval * limit
<1>1. first \in Nat /\ time \in Nat /\ MinuteFrom(time) = first + limit
  BY MinuteTyped, MinuteShift
<1>2. time \div Interval \in Int /\ first + limit - 1 <= time \div Interval
  <2> HIDE DEF first, time
  <2> QED
    BY <1>1, MinuteBefore
<1>3. \A t \in end : first + limit - 1 <= t \div Interval
  BY <1>2
<1>4. end = {} \/ \E t \in Int : end = {t}
  BY <1>1
<1> HIDE DEF first, time
<1>5. LastBefore(first + limit - 1, end) = first + limit - 1
  <2>1. first + limit - 1 \in Int
    BY <1>1
  <2> QED
    BY <1>3, <1>4, <2>1, LastMinute
<1>6. Candles(first, first + limit - 1) = Stretch(first, limit)
  BY <1>1, CandlesOpened DEF first
<1> QED
  BY <1>5, <1>6 DEF GetKlinesAsync, LastBefore, first

-----------------------------------------------------------------------------
(* The query of past candles: the cut to the newest. *)

(* What the cut leaves out. *)
Dropped(list, n) == IF n <= Len(list) THEN Len(list) - n ELSE 0

(* What a cut leaves is the end of the list, each candle where it was from there. *)
LEMMA CutList ==
  ASSUME NEW S, NEW list \in Seq(S), NEW n \in Nat \ {0}
  PROVE  /\ Dropped(list, n) \in 0 .. Len(list)
         /\ TakeLast(list, n) \in Seq(S)
         /\ Len(TakeLast(list, n)) = Len(list) - Dropped(list, n)
         /\ \A k \in 1 .. Len(list) - Dropped(list, n) :
              TakeLast(list, n)[k] = list[Dropped(list, n) + k]
<1> DEFINE d == Dropped(list, n)
           m == Len(list)
<1>1. m \in Nat /\ d \in 0 .. m
  BY LenProperties DEF Dropped
<1>2. Max({1, m - n + 1}) = d + 1
  <2>1. Max({1, m - n + 1}) = IF 1 >= m - n + 1 THEN 1 ELSE m - n + 1
    BY <1>1, MaxOfTwo
  <2>2. d = IF n <= m THEN m - n ELSE 0
    BY DEF Dropped
  <2> HIDE DEF d, m
  <2> QED
    BY <1>1, <2>1, <2>2
<1>3. TakeLast(list, n) = SubSeq(list, d + 1, m)
  BY <1>2 DEF TakeLast
<1> HIDE DEF d
<1>4. /\ SubSeq(list, d + 1, m) \in Seq(S)
      /\ Len(SubSeq(list, d + 1, m)) = m - d
      /\ \A k \in 1 .. m - d : SubSeq(list, d + 1, m)[k] = list[d + k]
  <2>1. /\ d + 1 \in 1 .. m + 1 /\ m \in d .. m
        /\ Len(SubSeq(list, d + 1, m)) = m - (d + 1) + 1
        /\ SubSeq(list, d + 1, m) \in Seq(S)
        /\ \A k \in 1 .. m - (d + 1) + 1 : SubSeq(list, d + 1, m)[k] = list[d + 1 + k - 1]
    BY <1>1
  <2> HIDE DEF m
  <2>2. m - (d + 1) + 1 = m - d /\ \A k \in 1 .. m - d : d + 1 + k - 1 = d + k
    BY <1>1
  <2> QED
    BY <2>1, <2>2
<1> QED
  BY <1>1, <1>3, <1>4 DEF d

(* The list ends with the candles of so many minutes. *)
EndsWith(list, first, n) ==
  /\ n <= Len(list)
  /\ \A k \in 1 .. n : list[Len(list) - n + k] = first + k - 1

(* A stretch ends with itself. *)
LEMMA StretchEnds ==
  ASSUME NEW first \in Int, NEW n \in Nat
  PROVE  EndsWith(Stretch(first, n), first, n)
<1>1. Stretch(first, n) \in Seq(Int) /\ Len(Stretch(first, n)) = n
  BY StretchListed
<1>2. \A k \in 1 .. n : n - n + k = k /\ Stretch(first, n)[k] = first + k - 1
  BY DEF Stretch
<1> QED
  BY <1>1, <1>2 DEF EndsWith

(* So does a list to which they are added. *)
LEMMA AppendedEnds ==
  ASSUME NEW S, NEW list \in Seq(S), NEW first \in Int, NEW n \in Nat,
         Stretch(first, n) \in Seq(S)
  PROVE  EndsWith(list \o Stretch(first, n), first, n)
<1> DEFINE q == Stretch(first, n)
           r == list \o q
<1>1. /\ Len(list) \in Nat /\ q \in Seq(S) /\ Len(q) = n
      /\ \A k \in 1 .. n : q[k] = first + k - 1
  BY StretchListed DEF Stretch
<1>2. /\ Len(r) = Len(list) + n
      /\ \A k \in 1 .. Len(list) + n :
           r[k] = IF k <= Len(list) THEN list[k] ELSE q[k - Len(list)]
  <2> HIDE DEF q
  <2> QED
    BY <1>1, Concatenation
<1> HIDE DEF q, r
<1>3. ASSUME NEW k \in 1 .. n
      PROVE  r[Len(r) - n + k] = first + k - 1
  <2> DEFINE i == Len(r) - n + k
  <2>1. i \in 1 .. Len(list) + n /\ ~(i <= Len(list)) /\ i - Len(list) = k
    BY <1>1, <1>2
  <2> HIDE DEF i
  <2>2. r[i] = q[k]
    BY <1>2, <2>1
  <2> QED
    BY <1>1, <2>2 DEF i
<1>4. n <= Len(r)
  BY <1>1, <1>2
<1> QED
  BY <1>3, <1>4 DEF EndsWith, q, r

(* The cut leaves a shorter end alone, *)
LEMMA CutKeepsEnd ==
  ASSUME NEW S, NEW list \in Seq(S), NEW first \in Int, NEW n \in Nat, EndsWith(list, first, n),
         NEW m \in Nat \ {0}, n <= m
  PROVE  EndsWith(TakeLast(list, m), first, n)
<1> DEFINE d == Dropped(list, m)
           r == TakeLast(list, m)
           l == Len(list)
<1>1. /\ l \in Nat /\ d \in 0 .. l /\ Len(r) = l - d
      /\ \A k \in 1 .. l - d : r[k] = list[d + k]
      /\ d = IF m <= l THEN l - m ELSE 0
  BY CutList, LenProperties DEF Dropped
<1>2. n <= l /\ \A k \in 1 .. n : list[l - n + k] = first + k - 1
  BY DEF EndsWith
<1> HIDE DEF d, r, l
<1>3. n <= Len(r)
  BY <1>1, <1>2
<1>4. ASSUME NEW k \in 1 .. n
      PROVE  r[Len(r) - n + k] = first + k - 1
  <2> DEFINE i == Len(r) - n + k
  <2>1. i \in 1 .. l - d /\ d + i = l - n + k
    BY <1>1, <1>2, <1>3
  <2> HIDE DEF i
  <2>2. r[i] = list[l - n + k]
    BY <1>1, <2>1
  <2> QED
    BY <1>2, <2>2 DEF i
<1> QED
  BY <1>3, <1>4 DEF EndsWith, r

(* and to as many candles as the list ends with it leaves these. *)
LEMMA CutToEnd ==
  ASSUME NEW S, NEW list \in Seq(S), NEW first \in Int, NEW n \in Nat \ {0},
         EndsWith(list, first, n)
  PROVE  TakeLast(list, n) = Stretch(first, n)
<1> DEFINE d == Dropped(list, n)
           r == TakeLast(list, n)
           l == Len(list)
           q == Stretch(first, n)
<1>1. /\ l \in Nat /\ d \in 0 .. l /\ Len(r) = l - d /\ r \in Seq(S)
      /\ \A k \in 1 .. l - d : r[k] = list[d + k]
      /\ d = IF n <= l THEN l - n ELSE 0
  BY CutList, LenProperties DEF Dropped
<1>2. n <= l /\ \A k \in 1 .. n : list[l - n + k] = first + k - 1
  BY DEF EndsWith
<1>3. q \in Seq(Int) /\ Len(q) = n /\ \A k \in 1 .. n : q[k] = first + k - 1
  BY StretchListed DEF Stretch
<1> HIDE DEF d, r, l, q
<1>4. d = l - n /\ l - d = n
  BY <1>1, <1>2
<1>5. \A k \in 1 .. n : r[k] = q[k]
  BY <1>1, <1>2, <1>3, <1>4
<1>6. r = q
  BY <1>1, <1>3, <1>4, <1>5, SeqEqual
<1> QED
  BY <1>6 DEF r, q

-----------------------------------------------------------------------------
(* The query of past candles: pages. *)

(* Enough pages are asked for, and no more if they are whole. *)
LEMMA PagesCover ==
  ASSUME NEW limit \in Nat \ {0}
  PROVE  LET n == (limit + PageSize - 1) \div PageSize IN
         /\ n \in Nat \ {0} /\ limit <= n * PageSize
         /\ limit % PageSize = 0 => n * PageSize = limit
<1> DEFINE n == (limit + PageSize - 1) \div PageSize
           a == limit + PageSize - 1
           d == limit \div PageSize
<1>1. PageSize \in Nat \ {0} /\ a \in Nat
  BY HistoryConstants
<1>2. n \in Nat /\ PageSize * n <= a /\ a < PageSize * n + PageSize
  BY <1>1, QuotientBounds
<1>3. limit % PageSize = 0 => limit = PageSize * d
  BY <1>1, SMTT(30)
<1>4. d \in Nat
  BY <1>1, QuotientBounds
<1> HIDE DEF n, d
<1>5. PageSize * n = n * PageSize /\ n * PageSize \in Nat
  BY <1>1, <1>2
<1>6. limit <= n * PageSize
  BY <1>1, <1>2, <1>5
<1>7. n # 0
  BY <1>1, <1>6
<1>8. ASSUME limit = PageSize * d
      PROVE  n * PageSize = limit
  <2>1. PageSize * (d + 1) = PageSize * d + PageSize /\ PageSize * (n + 1) = PageSize * n + PageSize
    BY <1>1, <1>2, <1>4, ProductOfSum
  <2>2. PageSize * n < PageSize * (d + 1)
    BY <1>1, <1>2, <1>5, <1>8, <2>1
  <2>3. PageSize * d < PageSize * (n + 1)
    BY <1>1, <1>2, <1>5, <1>8, <2>1
  <2>4. n < d + 1
    BY <1>1, <1>2, <1>4, <2>2, FactorsOrdered
  <2>5. d < n + 1
    BY <1>1, <1>2, <1>4, <2>3, FactorsOrdered
  <2>6. n = d
    BY <1>2, <1>4, <2>4, <2>5
  <2> QED
    BY <1>5, <1>8, <2>6
<1>9. /\ n \in Nat \ {0} /\ limit <= n * PageSize
      /\ limit % PageSize = 0 => n * PageSize = limit
  BY <1>2, <1>3, <1>6, <1>7, <1>8
<1> QED
  BY <1>9 DEF n

(* Where a full page ends, and the one before it. *)
LEMMA PageTimes ==
  ASSUME NEW i \in Nat
  PROVE  /\ i * PageSize \in Nat /\ i * Interval * PageSize = Interval * (i * PageSize)
         /\ (i + 1) * PageSize = i * PageSize + PageSize
         /\ (i + 1) * Interval * PageSize = Interval * (i * PageSize) + Interval * PageSize
         /\ Interval * (i * PageSize) \in Nat /\ Interval * PageSize \in Nat \ {0}
<1>1. PageSize \in Nat \ {0} /\ Interval \in Nat \ {0}
  BY HistoryConstants
<1>2. \A x, p, t \in Nat :
        /\ x * p \in Nat /\ x * t * p = t * (x * p) /\ (x + 1) * p = x * p + p
        /\ (x + 1) * t * p = t * (x * p) + t * p
        /\ t * (x * p) \in Nat /\ t * p \in Nat
  BY SMTT(30)
<1>3. \A p, t \in Nat \ {0} : t * p # 0
  BY SMTT(30)
<1> QED
  BY <1>1, <1>2, <1>3

(* The end of a page. *)
LEMMA PageEndValue ==
  ASSUME NEW full \in Int, NEW end, end = {} \/ \E time \in Int : end = {time}
  PROVE  /\ Min({full} \union end) \in Int
         /\ (\A time \in end : full <= time) => Min({full} \union end) = full
         /\ \A time \in end : time <= full => Min({full} \union end) = time
<1>1. CASE end = {}
  <2>1. {full} \union end = {full, full}
    BY <1>1
  <2>2. Min({full, full}) = full
    BY MinOfTwo
  <2> QED
    BY <1>1, <2>1, <2>2
<1>2. CASE \E time \in Int : end = {time}
  <2>1. PICK time \in Int : end = {time}
    BY <1>2
  <2>2. {full} \union end = {full, time}
    BY <2>1
  <2>3. Min({full, time}) = IF full <= time THEN full ELSE time
    BY MinOfTwo
  <2> QED
    BY <2>1, <2>2, <2>3
<1> QED
  BY <1>1, <1>2

-----------------------------------------------------------------------------
(* The query of past candles: the invariant. *)

(* What the rules make of the caller's times: an end decides the start. *)
RulesApplied ==
  /\ query.limit \in Limits
  /\ query.end = {} => query.start \in Nat
  /\ \A end \in query.end : end \in Nat /\ query.start = StartTime(end, query.limit)

(* Where a query stands: only one of more than a page is asked in pages. *)
PhaseShape ==
  /\ phase # "idle" => RulesApplied
  /\ phase \in {"idle", "single"} => merged = 0 /\ result = << >> /\ failed = {}
  /\ phase = "single" => query.limit <= PageSize
  /\ phase = "pages" => query.limit > PageSize /\ merged <= Pages

(* What HistoryExact asks for, and how far the pages are. *)
Exactly == failed = {} /\ Past /\ query.start >= 0

ExactSoFar ==
  /\ phase = "pages" /\ Exactly /\ query.limit % PageSize = 0
       => result = Stretch(MinuteFrom(query.start), merged * PageSize)
  /\ phase = "done" /\ Exactly /\ (query.limit <= PageSize \/ query.limit % PageSize = 0)
       => result = Stretch(MinuteFrom(query.start), query.limit)

(* What NewestAreLast asks for, and that the last page has it. *)
Newest(n) ==
  query.end # {} /\ merged \notin failed /\ Past /\ StartTime(UpTo, n) >= 0
    => EndsWith(result, MinuteFrom(UpTo) - n, n)

NewestSoFar ==
  /\ phase = "pages" /\ merged = Pages => Newest(PageSize)
  /\ phase = "done" => Newest(Min({PageSize, query.limit}))

(* The inductive invariant. *)
HistoryInv == HistoryTypeOK /\ PhaseShape /\ ExactSoFar /\ NewestSoFar

(* The query by itself. *)
HistorySpec == HistoryInit /\ [][HistoryNext]_historyVars

(* Before the first query nothing has been asked for. *)
LEMMA HistoryStart == HistoryInit => HistoryInv
<1> SUFFICES ASSUME HistoryInit PROVE HistoryInv
  OBVIOUS
<1>1. HistoryTypeOK
  BY HistoryConstants DEF HistoryInit, HistoryTypeOK
<1>2. PhaseShape /\ ExactSoFar /\ NewestSoFar
  BY DEF HistoryInit, PhaseShape, ExactSoFar, NewestSoFar
<1> QED
  BY <1>1, <1>2 DEF HistoryInv

(* The end of the query and its start, once the rules have been applied. *)
LEMMA QueryTimes ==
  ASSUME HistoryTypeOK, RulesApplied
  PROVE  /\ query.limit \in Nat \ {0} /\ query.start \in Int
         /\ Interval * query.limit \in Nat
         /\ UpTo = query.start + Interval * query.limit /\ UpTo \in Nat
         /\ query.end = {} \/ query.end = {UpTo}
<1>1. /\ query.limit \in Nat \ {0} /\ query.start \in Int
      /\ query.end \in {{}} \union {{end} : end \in EndTimes}
      /\ Interval \in Nat \ {0}
  BY HistoryConstants DEF HistoryTypeOK, RulesApplied
<1>2. Interval * query.limit \in Nat
  BY <1>1
<1>3. CASE query.end = {}
  BY <1>1, <1>2, <1>3 DEF UpTo, RulesApplied
<1>4. CASE query.end # {}
  <2>1. PICK end \in EndTimes : query.end = {end}
    BY <1>1, <1>4
  <2>2. UpTo = end /\ end \in Nat /\ query.start = StartTime(end, query.limit)
    BY <2>1 DEF UpTo, RulesApplied
  <2>3. UpTo = query.start + Interval * query.limit
    BY <1>1, <1>2, <2>2 DEF StartTime
  <2> QED
    BY <1>1, <1>2, <2>1, <2>2, <2>3
<1> QED
  BY <1>3, <1>4

(* A query of the past ends no later than the candles that have opened. *)
LEMMA PastOpened ==
  ASSUME HistoryTypeOK, RulesApplied, Past
  PROVE  MinuteFrom(UpTo) \in Nat /\ opened \in Nat /\ MinuteFrom(UpTo) <= opened
<1>1. UpTo \in Nat /\ Opened \in Nat /\ opened \in Nat /\ Opened <= opened
  BY QueryTimes, HistoryConstants DEF HistoryTypeOK
<1>2. UpTo <= Opened * Interval
  BY DEF Past
<1>3. MinuteFrom(UpTo) \in Nat /\ MinuteFrom(UpTo) <= Opened
  BY <1>1, <1>2, MinuteOfPast, MinuteTyped
<1> QED
  BY <1>1, <1>3

(* A request that ends with a query of the past, or before it, is answered with
   all its candles. *)
LEMMA RequestComplete ==
  ASSUME HistoryTypeOK, RulesApplied, Past,
         NEW from \in Nat, NEW limit \in Nat, from + Interval * limit <= UpTo,
         NEW end, end = {} \/ end = {from + Interval * limit}
  PROVE  GetKlinesAsync(from, end, limit) = Stretch(MinuteFrom(from), limit)
<1> DEFINE time == from + Interval * limit
<1>1. UpTo \in Nat /\ MinuteFrom(UpTo) \in Nat /\ opened \in Nat /\ MinuteFrom(UpTo) <= opened
  BY QueryTimes, PastOpened
<1>2. time \in Nat /\ MinuteFrom(time) = MinuteFrom(from) + limit /\ MinuteFrom(from) \in Nat
  BY MinuteShift, MinuteTyped
<1>3. MinuteFrom(time) <= MinuteFrom(UpTo)
  <2> DEFINE m == MinuteFrom(UpTo)
  <2>1. Interval \in Nat \ {0} /\ UpTo <= Interval * m /\ Interval * m \in Nat
    BY <1>1, MinuteBounds, HistoryConstants
  <2>2. m * Interval = Interval * m
    BY <1>1, <2>1
  <2>3. time <= m * Interval
    BY <1>1, <1>2, <2>1, <2>2
  <2> HIDE DEF time, m
  <2>4. MinuteFrom(time) <= m
    BY <1>1, <1>2, <2>3, MinuteOfPast DEF m
  <2> QED
    BY <2>4 DEF m
<1>4. MinuteFrom(from) + limit <= opened
  <2> HIDE DEF time
  <2>1. MinuteFrom(time) \in Nat
    BY <1>2
  <2> QED
    BY <1>1, <1>2, <1>3, <2>1
<1> QED
  BY <1>1, <1>4, AnswerComplete

(* The times of the next page. *)
LEMMA NextPage ==
  ASSUME HistoryTypeOK, RulesApplied, merged < Pages
  PROVE  /\ merged \in Nat /\ Pages \in Nat \ {0} /\ merged + 1 <= Pages
         /\ PageEnd(merged + 1) \in Int /\ StartTime(PageEnd(merged + 1), PageSize) \in Int
         /\ query.limit % PageSize = 0 =>
              /\ Pages * PageSize = query.limit
              /\ PageEnd(merged + 1) <= UpTo
              /\ StartTime(PageEnd(merged + 1), PageSize)
                   = query.start + Interval * (merged * PageSize)
         /\ merged + 1 = Pages /\ query.end # {} => PageEnd(merged + 1) = UpTo
<1> DEFINE m == merged
           full == query.start + (m + 1) * Interval * PageSize
           L == query.limit
           N == Pages
<1>1. /\ L \in Nat \ {0} /\ query.start \in Int /\ Interval * L \in Nat
      /\ UpTo = query.start + Interval * L /\ UpTo \in Nat
      /\ query.end = {} \/ query.end = {UpTo}
      /\ m \in Nat /\ Interval \in Nat \ {0} /\ PageSize \in Nat \ {0}
  BY QueryTimes, HistoryConstants DEF HistoryTypeOK
<1>2. /\ N \in Nat \ {0} /\ L <= N * PageSize
      /\ L % PageSize = 0 => N * PageSize = L
  BY <1>1, PagesCover DEF Pages
<1>3. /\ m * PageSize \in Nat /\ (m + 1) * PageSize = m * PageSize + PageSize
      /\ (m + 1) * Interval * PageSize = Interval * (m * PageSize) + Interval * PageSize
      /\ Interval * (m * PageSize) \in Nat /\ Interval * PageSize \in Nat \ {0}
  BY <1>1, PageTimes
<1>4. PageEnd(m + 1) = Min({full} \union query.end) /\ full \in Int
      /\ full = query.start + (Interval * (m * PageSize) + Interval * PageSize)
  BY <1>1, <1>3 DEF PageEnd
<1>5. StartTime(PageEnd(m + 1), PageSize) = PageEnd(m + 1) - Interval * PageSize
  BY DEF StartTime
<1>6. m + 1 <= N
  BY <1>1, <1>2
<1> HIDE DEF m, full, L, N
<1>7. Interval * ((m + 1) * PageSize) = Interval * (m * PageSize) + Interval * PageSize
      /\ (m + 1) * PageSize \in Nat
  BY <1>1, <1>3, ProductOfSum
<1>8. /\ PageEnd(m + 1) \in Int
      /\ (\A time \in query.end : full <= time) => PageEnd(m + 1) = full
      /\ \A time \in query.end : time <= full => PageEnd(m + 1) = time
  <2>1. query.end = {} \/ \E time \in Int : query.end = {time}
    BY <1>1
  <2> QED
    BY <1>4, <2>1, PageEndValue
<1>9. StartTime(PageEnd(m + 1), PageSize) \in Int
  BY <1>3, <1>5, <1>8
<1>10. ASSUME L % PageSize = 0
       PROVE  /\ N * PageSize = L /\ PageEnd(m + 1) <= UpTo
              /\ StartTime(PageEnd(m + 1), PageSize) = query.start + Interval * (m * PageSize)
  <2>1. N * PageSize = L
    BY <1>2, <1>10
  <2>2. (m + 1) * PageSize <= N * PageSize
    BY <1>1, <1>2, <1>6, FactorsKeepOrder
  <2>3. Interval * ((m + 1) * PageSize) <= Interval * L
    <3>1. /\ ((m + 1) * PageSize) * Interval <= L * Interval
      BY <1>1, <1>7, <2>1, <2>2, FactorsKeepOrder
    <3>2. /\ ((m + 1) * PageSize) * Interval = Interval * ((m + 1) * PageSize)
          /\ L * Interval = Interval * L
      BY <1>1, <1>7
    <3> QED
      BY <3>1, <3>2
  <2>4. full <= UpTo
    BY <1>1, <1>3, <1>4, <1>7, <2>3
  <2>5. PageEnd(m + 1) = full
    BY <1>1, <1>8, <2>4
  <2>6. full - Interval * PageSize = query.start + Interval * (m * PageSize)
    BY <1>1, <1>3, <1>4
  <2> QED
    BY <1>5, <2>1, <2>4, <2>5, <2>6
<1>11. ASSUME m + 1 = N, query.end # {}
       PROVE  PageEnd(m + 1) = UpTo
  <2>1. L <= (m + 1) * PageSize
    BY <1>2, <1>11
  <2>2. Interval * L <= Interval * ((m + 1) * PageSize)
    <3>1. L * Interval <= ((m + 1) * PageSize) * Interval
      BY <1>1, <1>7, <2>1, FactorsKeepOrder
    <3>2. /\ ((m + 1) * PageSize) * Interval = Interval * ((m + 1) * PageSize)
          /\ L * Interval = Interval * L
      BY <1>1, <1>7
    <3> QED
      BY <3>1, <3>2
  <2>3. UpTo <= full
    BY <1>1, <1>3, <1>4, <1>7, <2>2
  <2> QED
    BY <1>1, <1>8, <1>11, <2>3
<1> QED
  BY <1>1, <1>2, <1>6, <1>8, <1>9, <1>10, <1>11 DEF m, L, N

(* A request's answer, or the lack of one, keeps the types. *)
LEMMA RequestTyped ==
  ASSUME HistoryTypeOK, NEW from \in Int, NEW end, end = {} \/ \E time \in Int : end = {time},
         NEW limit \in Nat, merged' = merged + 1, phase' \in {"pages", "done"},
         APIQueryCandlestickDataNonThreaded(from, end, limit),
         UNCHANGED <<opened, query, pending>>,
         phase' = "done" => result = << >> /\ limit = query.limit
  PROVE  HistoryTypeOK'
<1> DEFINE answer == GetKlinesAsync(from, end, limit)
<1>1. /\ opened \in Nat /\ opened <= MaxOpened /\ merged \in Nat
      /\ result \in Seq(0 .. MaxOpened - 1) /\ failed \subseteq 1 .. merged
  BY HistoryConstants DEF HistoryTypeOK
<1>2. answer \in Seq(0 .. MaxOpened - 1) /\ Len(answer) <= limit /\ Len(answer) \in Nat
  <2>1. answer \in Seq(0 .. MaxOpened - 1) /\ Len(answer) <= limit
    BY <1>1, AnswerTyped
  <2> QED
    BY <2>1, LenProperties
<1> HIDE DEF answer
<1>3. \/ result' = result \o answer /\ failed' = failed
      \/ result' = result /\ failed' = failed \union {merged'}
  BY DEF APIQueryCandlestickDataNonThreaded, answer
<1>4. result \o answer \in Seq(0 .. MaxOpened - 1) /\ Len(result \o answer) = Len(result) + Len(answer)
  BY <1>1, <1>2, Concatenation
<1>5. failed' \subseteq 1 .. merged'
  <2>1. merged' \in 1 .. merged' /\ 1 .. merged \subseteq 1 .. merged'
    BY ONLY <1>1, merged' = merged + 1
  <2>2. failed \subseteq 1 .. merged /\ failed' \subseteq failed \union {merged'}
    BY ONLY <1>1, <1>3
  <2> QED
    BY ONLY <2>1, <2>2
<1>6. result' \in Seq(0 .. MaxOpened - 1)
  BY <1>1, <1>3, <1>4
<1>7. phase' = "done" => Len(result') <= query'.limit
  <2> SUFFICES ASSUME phase' = "done" PROVE Len(result') <= query.limit
    OBVIOUS
  <2>1. Len(result) = 0 /\ limit = query.limit
    OBVIOUS
  <2> QED
    BY <1>2, <1>3, <1>4, <2>1
<1> QED
  BY <1>1, <1>5, <1>6, <1>7 DEF HistoryTypeOK, Pages

(* The query begins. *)
LEMMA BeginKeepsHistory ==
  ASSUME HistoryInv, APIQueryCandlestickData
  PROVE  HistoryInv'
<1>1. PICK limit \in Limits :
        \/ \E end \in EndTimes : Begin(StartTime(end, limit), {end}, limit)
        \/ \E from \in StartTimes : Begin(from, {}, limit)
  BY DEF APIQueryCandlestickData
<1>2. limit \in Nat \ {0} /\ PageSize \in Nat \ {0} /\ Interval \in Nat \ {0}
  BY HistoryConstants
<1>3. PICK from \in Int, end \in {{}} \union {{time} : time \in EndTimes} :
        /\ Begin(from, end, limit)
        /\ end = {} => from \in Nat
        /\ \A time \in end : time \in Nat /\ from = StartTime(time, limit)
  <2>1. ASSUME NEW time \in EndTimes
        PROVE  time \in Nat /\ StartTime(time, limit) \in Int
    BY <1>2, HistoryConstants DEF StartTime
  <2>2. \A from \in StartTimes : from \in Nat
    BY HistoryConstants
  <2>3. CASE \E end \in EndTimes : Begin(StartTime(end, limit), {end}, limit)
    BY <2>1, <2>3
  <2>4. CASE \E from \in StartTimes : Begin(from, {}, limit)
    BY <2>2, <2>4
  <2> QED
    BY <1>1, <2>3, <2>4
<1> DEFINE n == (limit + PageSize - 1) \div PageSize
<1>4. /\ phase = "idle" /\ query' = [start |-> from, end |-> end, limit |-> limit]
      /\ phase' = IF limit <= PageSize THEN "single" ELSE "pages"
      /\ pending' = IF limit <= PageSize THEN {} ELSE 1 .. n
      /\ UNCHANGED <<opened, merged, result, failed>>
  BY <1>3 DEF Begin
<1>5. query'.start = from /\ query'.end = end /\ query'.limit = limit /\ Pages' = n
  BY <1>4 DEF Pages
<1>6. n \in Nat \ {0}
  BY <1>2, PagesCover
<1>7. merged' = 0 /\ result' = << >> /\ failed' = {}
  BY <1>4 DEF HistoryInv, PhaseShape
<1> HIDE DEF n
<1>8. HistoryTypeOK'
  <2>1. opened' \in Opened .. MaxOpened /\ result' \in Seq(0 .. MaxOpened - 1)
    BY <1>4 DEF HistoryInv, HistoryTypeOK
  <2>2. query' \in [start : Int, end : {{}} \union {{time} : time \in EndTimes},
                    limit : Limits \union {1}]
    BY <1>3, <1>4
  <2>3. pending' \subseteq 1 .. Pages' /\ phase' \in {"single", "pages"}
    BY <1>4, <1>5
  <2> QED
    BY <1>7, <2>1, <2>2, <2>3 DEF HistoryTypeOK
<1>9. RulesApplied'
  BY <1>3, <1>5 DEF RulesApplied, StartTime
<1>10. PhaseShape'
  BY <1>2, <1>4, <1>5, <1>6, <1>7, <1>9 DEF PhaseShape
<1>11. ExactSoFar'
  <2>1. Stretch(MinuteFrom(from), 0 * PageSize) = << >>
    <3>1. 0 * PageSize = 0 /\ 1 .. 0 = {}
      BY <1>2
    <3> QED
      BY <3>1 DEF Stretch
  <2> QED
    BY <1>4, <1>5, <1>7, <2>1 DEF ExactSoFar
<1>12. NewestSoFar'
  BY <1>4, <1>5, <1>6, <1>7 DEF NewestSoFar
<1> QED
  BY <1>8, <1>10, <1>11, <1>12 DEF HistoryInv

(* A query of no more than a page is asked at once. *)
LEMMA SingleKeepsHistory ==
  ASSUME HistoryInv, QuerySingle
  PROVE  HistoryInv'
<1> DEFINE L == query.limit
           answer == GetKlinesAsync(query.start, query.end, L)
<1>1. /\ HistoryTypeOK /\ RulesApplied /\ merged = 0 /\ result = << >> /\ failed = {}
      /\ L <= PageSize
  BY DEF HistoryInv, PhaseShape, QuerySingle
<1>2. /\ phase' = "done" /\ merged' = 1 /\ UNCHANGED <<opened, query, pending>>
      /\ APIQueryCandlestickDataNonThreaded(query.start, query.end, L)
  BY DEF QuerySingle
<1>3. /\ L \in Nat \ {0} /\ query.start \in Int /\ Interval * L \in Nat
      /\ UpTo = query.start + Interval * L /\ UpTo \in Nat
      /\ query.end = {} \/ query.end = {UpTo}
  BY <1>1, QueryTimes
<1>4. HistoryTypeOK'
  <2>1. query.end = {} \/ \E time \in Int : query.end = {time}
    BY <1>3
  <2>2. merged' = merged + 1
    BY <1>1, <1>2
  <2> QED
    BY <1>1, <1>2, <1>3, <2>1, <2>2, RequestTyped
<1>5. PhaseShape'
  BY <1>1, <1>2 DEF PhaseShape, RulesApplied
<1>6. \/ result' = answer /\ failed' = {}
      \/ result' = << >> /\ failed' = {1}
  <2>1. answer \in Seq(0 .. MaxOpened - 1)
    <3>1. opened \in Nat /\ opened <= MaxOpened
      BY <1>1, HistoryConstants DEF HistoryTypeOK
    <3>2. query.end = {} \/ \E time \in Int : query.end = {time}
      BY <1>3
    <3> QED
      BY <1>3, <3>1, <3>2, AnswerTyped
  <2> HIDE DEF answer
  <2>2. << >> \o answer = answer
    BY <2>1, ConcatEmptySeq
  <2>3. \/ result' = result \o answer /\ failed' = failed
        \/ result' = result /\ failed' = failed \union {merged'}
    BY <1>2 DEF APIQueryCandlestickDataNonThreaded, answer
  <2> QED
    BY <1>1, <1>2, <2>2, <2>3
<1>7. Past /\ query.start >= 0 => answer = Stretch(MinuteFrom(query.start), L)
  <2> SUFFICES ASSUME Past, query.start >= 0
               PROVE  answer = Stretch(MinuteFrom(query.start), L)
    OBVIOUS
  <2>1. query.start \in Nat /\ L \in Nat /\ query.start + Interval * L <= UpTo
    BY <1>3
  <2>2. query.end = {} \/ query.end = {query.start + Interval * L}
    BY <1>3
  <2> QED
    BY <1>1, <2>1, <2>2, RequestComplete
<1> HIDE DEF answer
<1>8. query' = query /\ Past' = Past /\ UpTo' = UpTo
  BY <1>2 DEF Past, UpTo
<1>9. ExactSoFar'
  BY <1>2, <1>6, <1>7, <1>8 DEF ExactSoFar, Exactly, L
<1>10. Min({PageSize, L}) = L
  <2>1. PageSize \in Int /\ L \in Int
    BY <1>3, HistoryConstants
  <2> HIDE DEF L
  <2>2. Min({PageSize, L}) = IF PageSize <= L THEN PageSize ELSE L
    BY <2>1, MinOfTwo
  <2> QED
    BY <1>1, <2>1, <2>2 DEF L
<1>11. Newest(L)'
  <2> SUFFICES ASSUME query.end # {}, merged' \notin failed', Past, StartTime(UpTo, L) >= 0
               PROVE  EndsWith(result', MinuteFrom(UpTo) - L, L)
    BY <1>8 DEF Newest, StartTime
  <2>1. result' = answer
    BY <1>2, <1>6
  <2>2. StartTime(UpTo, L) = query.start /\ query.start \in Nat
    <3>1. StartTime(UpTo, L) = UpTo - Interval * L
      BY DEF StartTime
    <3> HIDE DEF L
    <3> QED
      BY <1>3, <3>1
  <2>3. MinuteFrom(query.start) \in Nat /\ MinuteFrom(UpTo) = MinuteFrom(query.start) + L
    <3> HIDE DEF L
    <3> QED
      BY <1>3, <2>2, MinuteShift, MinuteTyped
  <2>4. MinuteFrom(UpTo) - L = MinuteFrom(query.start)
    BY <1>3, <2>3
  <2>5. result' = Stretch(MinuteFrom(UpTo) - L, L)
    BY <1>7, <2>1, <2>2, <2>4
  <2>6. MinuteFrom(UpTo) - L \in Int /\ L \in Nat
    BY <1>3, <2>3
  <2> QED
    BY <2>5, <2>6, StretchEnds
<1>12. NewestSoFar'
  <2>1. Min({PageSize, query'.limit}) = L
    BY <1>8, <1>10
  <2> HIDE DEF L
  <2>2. L' = L
    BY <1>8 DEF L
  <2> QED
    BY <1>2, <1>11, <2>1, <2>2 DEF NewestSoFar, Newest
<1> QED
  BY <1>4, <1>5, <1>9, <1>12 DEF HistoryInv

(* A page is merged. *)
LEMMA MergeKeepsHistory ==
  ASSUME HistoryInv, Merge
  PROVE  HistoryInv'
<1> DEFINE time == PageEnd(merged + 1)
           from == StartTime(time, PageSize)
           answer == GetKlinesAsync(from, {time}, PageSize)
           L == query.limit
<1>1. /\ HistoryTypeOK /\ RulesApplied /\ phase = "pages" /\ L > PageSize
      /\ merged < Pages /\ merged' = merged + 1
      /\ UNCHANGED <<opened, phase, query, pending>>
      /\ APIQueryCandlestickDataNonThreaded(from, {time}, PageSize)
  BY DEF HistoryInv, PhaseShape, Merge, PageEnd
<1>2. /\ L \in Nat \ {0} /\ query.start \in Int /\ Interval * L \in Nat
      /\ UpTo = query.start + Interval * L /\ UpTo \in Nat
      /\ PageSize \in Nat \ {0} /\ Interval \in Nat \ {0}
  BY <1>1, QueryTimes, HistoryConstants
<1>3. /\ merged \in Nat /\ merged + 1 <= Pages
      /\ time \in Int /\ from \in Int
      /\ L % PageSize = 0 =>
           /\ Pages * PageSize = L /\ time <= UpTo
           /\ from = query.start + Interval * (merged * PageSize)
      /\ merged + 1 = Pages /\ query.end # {} => time = UpTo
  BY <1>1, NextPage
<1>4. time = from + Interval * PageSize /\ Interval * PageSize \in Nat
  <2>1. Interval * PageSize \in Nat
    BY <1>2
  <2>2. from = time - Interval * PageSize
    BY DEF StartTime
  <2> HIDE DEF time, from
  <2> QED
    BY <1>3, <2>1, <2>2
<1> HIDE DEF time, from
<1>5. \/ result' = result \o answer /\ failed' = failed
      \/ result' = result /\ failed' = failed \union {merged'}
  BY <1>1 DEF APIQueryCandlestickDataNonThreaded
<1>6. HistoryTypeOK'
  <2>1. \E t \in Int : {time} = {t}
    BY <1>3
  <2>2. phase' = "pages" /\ PageSize \in Nat
    BY <1>1, <1>2
  <2> QED
    BY <1>1, <1>3, <2>1, <2>2, RequestTyped
<1>7. Past /\ from >= 0 /\ time <= UpTo => answer = Stretch(MinuteFrom(from), PageSize)
  <2> SUFFICES ASSUME Past, from >= 0, time <= UpTo
               PROVE  answer = Stretch(MinuteFrom(from), PageSize)
    OBVIOUS
  <2>1. from \in Nat /\ PageSize \in Nat /\ from + Interval * PageSize <= UpTo
        /\ {time} = {from + Interval * PageSize}
    BY <1>2, <1>3, <1>4
  <2> QED
    BY <1>1, <2>1, RequestComplete
<1> HIDE DEF answer
<1>8. query' = query /\ Past' = Past /\ UpTo' = UpTo /\ Pages' = Pages /\ phase' = "pages"
  BY <1>1 DEF Past, UpTo, Pages
<1>9. PhaseShape'
  BY <1>1, <1>3, <1>8 DEF PhaseShape, RulesApplied, L
<1>10. ExactSoFar'
  <2> SUFFICES ASSUME failed' = {}, Past, query.start >= 0, L % PageSize = 0
               PROVE  result' = Stretch(MinuteFrom(query.start), merged' * PageSize)
    BY <1>8 DEF ExactSoFar, Exactly, L
  <2> DEFINE c == MinuteFrom(query.start)
             x == merged * PageSize
  <2>1. result' = result \o answer /\ failed = {}
    BY <1>5
  <2>2. result = Stretch(c, x)
    BY <1>1, <2>1 DEF HistoryInv, ExactSoFar, Exactly, L
  <2>3. x \in Nat /\ (merged + 1) * PageSize = x + PageSize /\ Interval * x \in Nat
    BY <1>3, PageTimes
  <2>4. query.start \in Nat /\ c \in Nat
    BY <1>2, MinuteTyped
  <2>5. from = query.start + Interval * x /\ time <= UpTo
    BY <1>3
  <2> HIDE DEF x
  <2>6. from \in Nat /\ MinuteFrom(from) = c + x
    BY <2>3, <2>4, <2>5, MinuteShift
  <2>7. answer = Stretch(c + x, PageSize)
    BY <1>7, <2>5, <2>6
  <2> HIDE DEF c
  <2>8. result' = Stretch(c, x + PageSize)
    <3>1. c \in Int /\ x \in Nat /\ PageSize \in Nat
      BY <1>2, <2>3, <2>4
    <3>2. Stretch(c, x) \o Stretch(c + x, PageSize) = Stretch(c, x + PageSize)
      BY <3>1, StretchesJoined
    <3> QED
      BY <2>1, <2>2, <2>7, <3>2
  <2> QED
    BY <1>1, <2>3, <2>8 DEF c
<1>11. NewestSoFar'
  <2> SUFFICES ASSUME merged' = Pages, query.end # {}, merged' \notin failed', Past,
                      StartTime(UpTo, PageSize) >= 0
               PROVE  EndsWith(result', MinuteFrom(UpTo) - PageSize, PageSize)
    BY <1>8 DEF NewestSoFar, Newest, StartTime
  <2>1. time = UpTo
    BY <1>1, <1>3
  <2>2. from = StartTime(UpTo, PageSize)
    BY <2>1 DEF from
  <2>3. from \in Nat
    BY <1>3, <2>2
  <2>4. MinuteFrom(from) \in Nat /\ MinuteFrom(UpTo) = MinuteFrom(from) + PageSize
    <3>1. UpTo = from + Interval * PageSize /\ PageSize \in Nat
      BY <1>2, <1>4, <2>1
    <3>2. MinuteFrom(from + Interval * PageSize) = MinuteFrom(from) + PageSize
      BY ONLY <2>3, <3>1, MinuteShift
    <3>3. MinuteFrom(from) \in Nat
      BY ONLY <2>3, MinuteTyped
    <3> QED
      BY ONLY <3>1, <3>2, <3>3
  <2>5. MinuteFrom(UpTo) - PageSize = MinuteFrom(from)
    BY <1>2, <2>4
  <2>6. answer = Stretch(MinuteFrom(from), PageSize)
    <3>1. time <= UpTo /\ from >= 0
      BY <1>2, <2>1, <2>3
    <3> QED
      BY <1>7, <3>1
  <2>7. result' = result \o Stretch(MinuteFrom(from), PageSize)
    BY <1>5, <2>6
  <2>8. /\ result \in Seq(Int) /\ PageSize \in Nat /\ MinuteFrom(from) \in Int
        /\ Stretch(MinuteFrom(from), PageSize) \in Seq(Int)
    <3>1. result \in Seq(0 .. MaxOpened - 1) /\ 0 .. MaxOpened - 1 \subseteq Int
      BY <1>1, HistoryConstants DEF HistoryTypeOK
    <3>2. result \in Seq(Int)
      BY <3>1, SeqMonotonic
    <3> QED
      BY <1>2, <2>4, <3>2, StretchListed
  <2>9. EndsWith(result', MinuteFrom(from), PageSize)
    BY <2>7, <2>8, AppendedEnds
  <2> QED
    BY <2>5, <2>9
<1> QED
  BY <1>6, <1>9, <1>10, <1>11 DEF HistoryInv

(* The merged pages are cut. *)
LEMMA EndKeepsHistory ==
  ASSUME HistoryInv, EndMerge
  PROVE  HistoryInv'
<1> DEFINE L == query.limit
<1>1. /\ HistoryTypeOK /\ RulesApplied /\ phase = "pages" /\ L > PageSize /\ merged = Pages
      /\ phase' = "done" /\ result' = TakeLast(result, L)
      /\ UNCHANGED <<opened, query, pending, merged, failed>>
  BY DEF HistoryInv, PhaseShape, EndMerge
<1>2. /\ L \in Nat \ {0} /\ PageSize \in Nat \ {0}
      /\ L % PageSize = 0 => Pages * PageSize = L
      /\ query.start \in Int /\ UpTo \in Nat
  BY <1>1, QueryTimes, PagesCover, HistoryConstants DEF Pages
<1>3. result \in Seq(0 .. MaxOpened - 1) /\ result \in Seq(Int)
  <2>1. result \in Seq(0 .. MaxOpened - 1) /\ 0 .. MaxOpened - 1 \subseteq Int
    BY <1>1, HistoryConstants DEF HistoryTypeOK
  <2> QED
    BY <2>1, SeqMonotonic
<1>4. query' = query /\ Past' = Past /\ UpTo' = UpTo /\ Pages' = Pages
  BY <1>1 DEF Past, UpTo, Pages
<1>5. HistoryTypeOK'
  <2>1. result' \in Seq(0 .. MaxOpened - 1) /\ Len(result') <= L
    <3> DEFINE S == 0 .. MaxOpened - 1
               cut == TakeLast(result, L)
    <3>1. result \in Seq(S) /\ L \in Nat \ {0} /\ result' = cut
      BY <1>1, <1>2, <1>3
    <3> HIDE DEF L, S
    <3>2. cut \in Seq(S) /\ Len(cut) = Len(result) - Dropped(result, L)
      BY ONLY <3>1, CutList
    <3>3. Len(result) - Dropped(result, L) <= L
      BY ONLY <3>1 DEF Dropped
    <3> HIDE DEF cut
    <3> QED
      BY <3>1, <3>2, <3>3 DEF S
  <2> QED
    BY <1>1, <1>4, <2>1 DEF HistoryTypeOK
<1>6. PhaseShape'
  BY <1>1 DEF PhaseShape, RulesApplied
<1>7. ExactSoFar'
  <2> SUFFICES ASSUME failed = {}, Past, query.start >= 0, L <= PageSize \/ L % PageSize = 0
               PROVE  result' = Stretch(MinuteFrom(query.start), L)
    BY <1>1, <1>4 DEF ExactSoFar, Exactly
  <2>1. L % PageSize = 0
    BY <1>1, <1>2
  <2>2. result = Stretch(MinuteFrom(query.start), L)
    BY <1>1, <1>2, <2>1 DEF HistoryInv, ExactSoFar, Exactly
  <2>3. MinuteFrom(query.start) \in Int
    BY <1>2, MinuteTyped
  <2>4. EndsWith(result, MinuteFrom(query.start), L)
    BY <1>2, <2>2, <2>3, StretchEnds
  <2> QED
    BY <1>1, <1>2, <1>3, <2>3, <2>4, CutToEnd
<1>8. Min({PageSize, L}) = PageSize
  <2>1. PageSize \in Int /\ L \in Int
    BY <1>2
  <2> HIDE DEF L
  <2>2. Min({PageSize, L}) = IF PageSize <= L THEN PageSize ELSE L
    BY <2>1, MinOfTwo
  <2> QED
    BY <1>1, <1>2, <2>2
<1>9. NewestSoFar'
  <2> SUFFICES ASSUME query.end # {}, merged \notin failed, Past,
                      StartTime(UpTo, PageSize) >= 0
               PROVE  EndsWith(result', MinuteFrom(UpTo) - PageSize, PageSize)
    <3>1. Min({PageSize, query'.limit}) = PageSize
      BY <1>4, <1>8
    <3> QED
      BY <1>1, <1>4, <3>1 DEF NewestSoFar, Newest, StartTime
  <2>1. EndsWith(result, MinuteFrom(UpTo) - PageSize, PageSize)
    BY <1>1 DEF HistoryInv, NewestSoFar, Newest
  <2>2. MinuteFrom(UpTo) - PageSize \in Int /\ PageSize \in Nat /\ PageSize <= L
    BY <1>1, <1>2, MinuteTyped
  <2> QED
    BY <1>1, <1>2, <1>3, <2>1, <2>2, CutKeepsEnd
<1> QED
  BY <1>5, <1>6, <1>7, <1>9 DEF HistoryInv

(* Every step of a query keeps the invariant. *)
LEMMA HistoryStep ==
  ASSUME HistoryInv, [HistoryNext]_historyVars
  PROVE  HistoryInv'
<1>1. ASSUME NEW i \in pending, RunTask(i) PROVE HistoryInv'
  BY <1>1 DEF RunTask, HistoryInv, HistoryTypeOK, PhaseShape, RulesApplied, ExactSoFar, Exactly,
              NewestSoFar, Newest, Past, UpTo, Pages
<1>2. CASE CandleOpens
  <2>1. opened' \in Opened .. MaxOpened
    BY <1>2, HistoryConstants DEF CandleOpens, HistoryInv, HistoryTypeOK
  <2> QED
    BY <1>2, <2>1 DEF CandleOpens, HistoryInv, HistoryTypeOK, PhaseShape, RulesApplied,
                      ExactSoFar, Exactly, NewestSoFar, Newest, Past, UpTo, Pages
<1>3. CASE UNCHANGED historyVars
  BY <1>3 DEF historyVars, HistoryInv, HistoryTypeOK, PhaseShape, RulesApplied, ExactSoFar, Exactly,
              NewestSoFar, Newest, Past, UpTo, Pages
<1> QED
  BY <1>1, <1>2, <1>3, BeginKeepsHistory, SingleKeepsHistory, MergeKeepsHistory, EndKeepsHistory
     DEF HistoryNext

(* What was asked for is there, whatever has opened since. *)
LEMMA AskedOpened ==
  ASSUME HistoryTypeOK, RulesApplied, Past, NEW n \in Nat, StartTime(UpTo, n) >= 0
  PROVE  Asked(n) = Stretch(MinuteFrom(UpTo) - n, n) /\ MinuteFrom(StartTime(UpTo, n)) + n = MinuteFrom(UpTo)
<1> DEFINE from == StartTime(UpTo, n)
<1>1. UpTo \in Nat /\ Interval \in Nat \ {0}
  BY QueryTimes, HistoryConstants
<1>2. Interval * n \in Nat
  BY <1>1
<1>3. from = UpTo - Interval * n
  BY DEF StartTime
<1> HIDE DEF from
<1>4. from \in Nat /\ UpTo = from + Interval * n
  BY <1>1, <1>2, <1>3 DEF from
<1>5. MinuteFrom(from) \in Nat /\ MinuteFrom(UpTo) = MinuteFrom(from) + n
  BY <1>4, MinuteShift, MinuteTyped
<1>6. MinuteFrom(UpTo) <= opened /\ opened \in Nat
  BY PastOpened
<1>7. Asked(n) = Candles(MinuteFrom(from), MinuteFrom(from) + n - 1)
  BY <1>3, <1>5 DEF Asked
<1>8. Candles(MinuteFrom(from), MinuteFrom(from) + n - 1) = Stretch(MinuteFrom(from), n)
  BY <1>5, <1>6, CandlesOpened
<1>9. MinuteFrom(UpTo) - n = MinuteFrom(from)
  BY <1>5
<1> QED
  BY <1>5, <1>7, <1>8, <1>9 DEF from

(* The invariant implies what is said of the result. *)
LEMMA ExactResult == HistoryInv => HistoryExact
<1> SUFFICES ASSUME HistoryInv, phase = "done", failed = {}, Past, query.start >= 0,
                    query.limit <= PageSize \/ query.limit % PageSize = 0
             PROVE  result = Asked(query.limit)
  BY DEF HistoryExact
<1> DEFINE L == query.limit
<1>1. HistoryTypeOK /\ RulesApplied
  BY DEF HistoryInv, PhaseShape
<1>2. /\ L \in Nat \ {0} /\ query.start \in Int /\ Interval * L \in Nat
      /\ UpTo = query.start + Interval * L /\ UpTo \in Nat
  BY <1>1, QueryTimes
<1>3. StartTime(UpTo, L) = query.start
  <2>1. StartTime(UpTo, L) = UpTo - Interval * L
    BY DEF StartTime
  <2> HIDE DEF L
  <2> QED
    BY <1>2, <2>1
<1>4. result = Stretch(MinuteFrom(query.start), L)
  BY DEF HistoryInv, ExactSoFar, Exactly
<1>5. /\ Asked(L) = Stretch(MinuteFrom(UpTo) - L, L)
      /\ MinuteFrom(query.start) + L = MinuteFrom(UpTo)
  BY <1>1, <1>2, <1>3, AskedOpened
<1>6. MinuteFrom(query.start) \in Nat
  BY <1>2, MinuteTyped
<1> HIDE DEF L
<1>7. MinuteFrom(UpTo) - L = MinuteFrom(query.start)
  BY <1>2, <1>5, <1>6
<1> QED
  BY <1>4, <1>5, <1>7 DEF L

(* Once a result is cut to its limit, the page of the newest candles is all that is
   left of it, or its end. *)
LEMMA NewestResult == HistoryInv => NewestAreLast
<1> DEFINE n == Min({PageSize, query.limit})
<1> SUFFICES ASSUME HistoryInv, phase = "done", query.end # {}, merged \notin failed, Past,
                    StartTime(UpTo, n) >= 0
             PROVE  TakeLast(result, n) = Asked(n)
  BY DEF NewestAreLast
<1>1. HistoryTypeOK /\ RulesApplied
  BY DEF HistoryInv, PhaseShape
<1>2. n \in Nat \ {0}
  <2>1. PageSize \in Nat \ {0} /\ query.limit \in Nat \ {0}
    BY <1>1, QueryTimes, HistoryConstants
  <2>2. Min({PageSize, query.limit}) = IF PageSize <= query.limit THEN PageSize ELSE query.limit
    BY <2>1, MinOfTwo
  <2> QED
    BY <2>1, <2>2
<1>3. EndsWith(result, MinuteFrom(UpTo) - n, n)
  BY DEF HistoryInv, NewestSoFar, Newest
<1> HIDE DEF n
<1>4. result \in Seq(0 .. MaxOpened - 1) /\ MinuteFrom(UpTo) \in Nat
  <2>1. UpTo \in Int
    BY <1>1, QueryTimes
  <2> QED
    BY <1>1, <2>1, MinuteTyped DEF HistoryTypeOK
<1>5. TakeLast(result, n) = Stretch(MinuteFrom(UpTo) - n, n)
  <2>1. MinuteFrom(UpTo) - n \in Int
    BY <1>2, <1>4
  <2> QED
    BY <1>2, <1>3, <1>4, <2>1, CutToEnd
<1>6. Asked(n) = Stretch(MinuteFrom(UpTo) - n, n)
  BY <1>1, <1>2, AskedOpened
<1> QED
  BY <1>5, <1>6

(* Whatever the sizes of pages and candles, the times and limits asked for, and
   however candles open while the pages are asked, a query of the past that has
   not failed returns every candle once and in order, from one request or from
   whole pages (QuoteService.cs:505-615). *)
THEOREM HistoryAlwaysExact == HistorySpec => []HistoryExact
  BY HistoryStart, HistoryStep, ExactResult, PTL DEF HistorySpec

(* Whatever the limit, and even if other pages failed, its result ends with the
   newest candles before the end, as many as a page holds (QuoteService.cs:611). *)
THEOREM NewestAlwaysLast == HistorySpec => []NewestAreLast
  BY HistoryStart, HistoryStep, NewestResult, PTL DEF HistorySpec

-----------------------------------------------------------------------------
(* The types of the parts. *)

(* The connection's fields keep within their bounds. *)
LEMMA ConnectionTypes ==
  /\ WebSocketInit => WebSocketTypeOK
  /\ WebSocketTypeOK /\ [WebSocketNext]_webSocketVars => WebSocketTypeOK'
<1> USE RetryAssumption, AttemptAssumption DEF WebSocketTypeOK, Stopped
<1>1. ASSUME WebSocketInit PROVE WebSocketTypeOK
  <2>1. {heartbeatTimer, serverUp} \subseteq BOOLEAN
    BY ONLY <1>1, Zenon DEF WebSocketInit
  <2>2. /\ webSocket \in {"closed", "connecting", "connected"}
        /\ attemptAge \in 0 .. AttemptTicks
        /\ retryTimer \in {Stopped} \union 0 .. RetryInterval
        /\ m_retryCount \in 0 .. MaxRetries
        /\ connectCalls \in 0 .. MaxConnectCalls /\ outages \in 0 .. MaxOutages
    BY <1>1 DEF WebSocketInit
  <2> QED
    BY <2>1, <2>2
<1>2. ASSUME WebSocketTypeOK, [WebSocketNext]_webSocketVars
      PROVE  WebSocketTypeOK'
  <2>1. CASE connectUrl
    BY <1>2, <2>1 DEF connectUrl, open, linkVars
  <2>2. CASE onConnected
    BY <1>2, <2>2 DEF onConnected, linkVars
  <2>3. CASE disconnected
    <3>1. {heartbeatTimer', serverUp'} \subseteq BOOLEAN
      BY ONLY <1>2, <2>3, Zenon DEF WebSocketTypeOK, disconnected, onDisconnected, linkVars
    <3>2. /\ webSocket' = "closed" /\ retryTimer' \in {0, retryTimer}
          /\ UNCHANGED <<attemptAge, m_retryCount, connectCalls, outages>>
      BY ONLY <2>3 DEF disconnected, onDisconnected, linkVars
    <3> QED
      BY <1>2, <3>1, <3>2
  <2>4. CASE onRetryConnection
    BY <1>2, <2>4 DEF onRetryConnection, open, linkVars
  <2>5. CASE ClientTick
    BY <1>2, <2>5 DEF ClientTick, linkVars
  <2>6. CASE ServerGoesDown
    <3>1. {heartbeatTimer', serverUp'} \subseteq BOOLEAN
      BY ONLY <1>2, <2>6, Zenon DEF WebSocketTypeOK, ServerGoesDown
    <3>2. /\ outages > 0 /\ outages' = outages - 1
          /\ UNCHANGED <<webSocket, attemptAge, retryTimer, m_retryCount, connectCalls>>
      BY ONLY <2>6 DEF ServerGoesDown
    <3> QED
      BY <1>2, <3>1, <3>2
  <2>7. CASE ServerComesUp
    BY <1>2, <2>7 DEF ServerComesUp
  <2>8. CASE UNCHANGED webSocketVars
    BY <1>2, <2>8 DEF webSocketVars, linkVars
  <2> QED
    BY <1>2, <2>1, <2>2, <2>3, <2>4, <2>5, <2>6, <2>7, <2>8 DEF WebSocketNext, WebSocketStep
<1> QED
  BY <1>1, <1>2

(* The popup that is shown is one of those there are. *)
LEMMA PopupTypes ==
  /\ PopupInit => PopupTypeOK
  /\ PopupTypeOK /\ [PopupNext]_popupVars => PopupTypeOK'
<1> USE DEF PopupTypeOK
<1>1. PopupInit => PopupTypeOK
  BY DEF PopupInit
<1>2. ASSUME PopupTypeOK, [PopupNext]_popupVars
      PROVE  PopupTypeOK'
  <2>1. ASSUME NEW popup \in Popups, showPopup(popup) PROVE PopupTypeOK'
    BY <1>2, <2>1 DEF showPopup, start
  <2>2. CASE hidePopup
    BY <1>2, <2>2 DEF hidePopup, start
  <2>3. CASE finished
    BY <1>2, <2>3 DEF finished
  <2>4. CASE UNCHANGED popupVars
    BY <1>2, <2>4 DEF popupVars
  <2> QED
    BY <1>2, <2>1, <2>2, <2>3, <2>4 DEF PopupNext
<1> QED
  BY <1>1, <1>2

(* The dictionary's directions hold keys and values. *)
LEMMA DictionaryTypes ==
  /\ DictionaryInit => DictionaryTypeOK
  /\ DictionaryTypeOK /\ [DictionaryNext]_dictionaryVars => DictionaryTypeOK'
<1> USE DEF DictionaryTypeOK
<1>1. DictionaryInit => DictionaryTypeOK
  BY DEF DictionaryInit
<1>2. ASSUME DictionaryTypeOK, [DictionaryNext]_dictionaryVars
      PROVE  DictionaryTypeOK'
  <2>1. ASSUME NEW key \in TKey, NEW value \in TValue, Add(key, value) PROVE DictionaryTypeOK'
    BY <1>2, <2>1 DEF Add, Assigned
  <2>2. ASSUME NEW key \in TKey, NEW value \in TValue, SetItem(key, value) PROVE DictionaryTypeOK'
    BY <1>2, <2>2 DEF SetItem, Assigned, Removed
  <2>3. ASSUME NEW key \in TKey, RemoveByKey(key) PROVE DictionaryTypeOK'
    BY <1>2, <2>3 DEF RemoveByKey, Removed
  <2>4. ASSUME NEW value \in TValue, RemoveByValue(value) PROVE DictionaryTypeOK'
    BY <1>2, <2>4 DEF RemoveByValue, Removed
  <2>5. CASE Clear
    BY <1>2, <2>5 DEF Clear, Removed
  <2>6. CASE UNCHANGED dictionaryVars
    BY <1>2, <2>6 DEF dictionaryVars
  <2> QED
    BY <1>2, <2>1, <2>2, <2>3, <2>4, <2>5, <2>6 DEF DictionaryNext
<1> QED
  BY <1>1, <1>2

(* Only orders wait, and only for the time after which they are cancelled. *)
LEMMA WaitedTypes ==
  /\ OrdersInit => waited \subseteq Orders
  /\ waited \subseteq Orders /\ [OrdersNext]_orderVars => waited' \subseteq Orders
<1>1. OrdersInit => waited \subseteq Orders
  BY DEF OrdersInit
<1>2. ASSUME waited \subseteq Orders, [OrdersNext]_orderVars
      PROVE  waited' \subseteq Orders
  <2>1. CASE BeginOnUpdate \/ Visit \/ VisitThrows
    BY <1>2, <2>1 DEF BeginOnUpdate, Visit, VisitThrows
  <2>2. ASSUME NEW o \in Orders,
               PlaceOrderAsync(o) \/ RemoveCoroutine(o) \/ TaskEnds(o) \/ WaitIsOver(o)
        PROVE  waited' \subseteq Orders
    BY <1>2, <2>2 DEF PlaceOrderAsync, RemoveCoroutine, TaskEnds, WaitIsOver
  <2>3. CASE UNCHANGED orderVars
    BY <1>2, <2>3 DEF orderVars
  <2> QED
    BY <1>2, <2>1, <2>2, <2>3 DEF OrdersNext
<1> QED
  BY <1>1, <1>2

(* The types of the coroutines follow from the two invariants. *)
LEMMA OrdersTypes == OrdersInv /\ VisitInv /\ waited \subseteq Orders => OrdersTypeOK
<1> SUFFICES ASSUME OrdersInv, VisitInv, waited \subseteq Orders PROVE OrdersTypeOK
  OBVIOUS
<1>1. /\ coroutines \in Seq(Orders) /\ index \in Nat /\ shifts \in Nat
      /\ \A o \in unvisited : \E i \in 1 .. Len(coroutines) : coroutines[i] = o
  BY DEF VisitInv, VisitsLeft
<1>2. Len(coroutines) \in Nat /\ \A i \in 1 .. Len(coroutines) : coroutines[i] \in Orders
  BY <1>1
<1>3. ToSet(coroutines) \subseteq Orders
  BY <1>1, <1>2 DEF ToSet
<1>4. unvisited \subseteq Orders
  BY <1>1, <1>2
<1> QED
  BY <1>1, <1>3, <1>4 DEF OrdersInv, Shapes, Points, States, OrdersTypeOK

(* The lists that a view's rows show have been given to it. *)
RowTypes ==
  /\ dataList.no \in 0 .. MaxLists
  /\ \A i \in 1 .. Len(rows) : rows[i] \in [list : 0 .. MaxLists, place : Nat]

(* Rows that are filled again show places of the list they are given, or keep theirs. *)
LEMMA RowsTyped ==
  ASSUME BarTypes, RowTypes, NEW value \in Nat, NEW height \in Viewports,
         NEW list \in [no : 0 .. MaxLists, size : Nat], updateVisibleItems(value, list, height)
  PROVE  \A i \in 1 .. Len(rows') : rows'[i] \in [list : 0 .. MaxLists, place : Nat]
<1> DEFINE Row == [list : 0 .. MaxLists, place : Nat]
           first == Ceiling(value, ItemHeight)
           pool == Larger(Len(rows), Visible(height))
           row(i) == IF i <= Visible(height) /\ first + i <= list.size
                     THEN [list |-> list.no, place |-> first + i]
                     ELSE IF i <= Len(rows) THEN rows[i] ELSE [list |-> 0, place |-> 0]
<1>1. /\ MaxLists \in Nat /\ first \in Nat /\ Len(rows) \in Nat /\ Visible(height) \in Nat
      /\ \A i \in 1 .. Len(rows) : rows[i] \in Row
  BY ScrollAssumption, CeilingBounds, VisibleRows DEF BarTypes, RowTypes
<1>2. pool \in Nat
  BY <1>1 DEF Larger
<1>3. rows' = [i \in 1 .. pool |-> row(i)]
  BY DEF updateVisibleItems
<1> HIDE DEF first, pool
<1>4. ASSUME NEW i \in 1 .. pool
      PROVE  row(i) \in Row
  <2>1. list.no \in 0 .. MaxLists
    OBVIOUS
  <2>2. [list |-> list.no, place |-> first + i] \in Row
    BY <1>1, <1>2, <2>1
  <2>3. [list |-> 0, place |-> 0] \in Row
    BY <1>1
  <2>4. i <= Len(rows) => rows[i] \in Row
    BY <1>1, <1>2
  <2> QED
    BY <2>2, <2>3, <2>4
<1> HIDE DEF Row, row
<1>5. rows' \in [1 .. pool -> Row]
  BY <1>3, <1>4
<1>6. Len(rows') = pool
  BY <1>2, <1>5, FunctionIsList
<1> QED
  BY <1>5, <1>6 DEF Row

(* With the invariant of the view, these are all its types. *)
LEMMA ScrollTypes ==
  /\ ScrollInit => RowTypes
  /\ ScrollInv /\ RowTypes /\ [ScrollNext]_scrollVars => RowTypes'
  /\ ScrollInv /\ RowTypes => ScrollTypeOK
<1>1. ScrollInit => RowTypes
  <2> SUFFICES ASSUME ScrollInit PROVE RowTypes
    OBVIOUS
  <2>1. Len(rows) = 0 /\ dataList.no = 0
    BY DEF ScrollInit
  <2> QED
    BY <2>1, ScrollAssumption DEF RowTypes
<1>2. ASSUME ScrollInv, RowTypes, [ScrollNext]_scrollVars
      PROVE  RowTypes'
  <2>1. /\ BarTypes /\ dataList \in [no : 0 .. MaxLists, size : Nat] /\ m_scrollValue \in Nat
        /\ viewportHeight \in Viewports /\ MaxLists \in Nat /\ m_pendingScrollValue \in Nat
        /\ scrollBar.value \in Nat /\ scrollBar.max \in Nat
    BY <1>2, ScrollAssumption DEF ScrollInv, BarTypes, RowTypes
  <2>2. CASE updateView
    <3>1. PICK size \in Sizes :
            /\ dataList' = [no |-> dataList.no + 1, size |-> size]
            /\ updateVisibleItems(m_scrollValue, [no |-> dataList.no + 1, size |-> size],
                                  viewportHeight)
      BY <2>2 DEF updateView
    <3>2. dataList.no < MaxLists
      BY <2>2 DEF updateView
    <3> DEFINE list == [no |-> dataList.no + 1, size |-> size]
    <3>3. list \in [no : 0 .. MaxLists, size : Nat] /\ list.no \in 0 .. MaxLists
      BY <2>1, <3>2, ScrollAssumption
    <3> HIDE DEF list
    <3>4. updateVisibleItems(m_scrollValue, list, viewportHeight) /\ dataList' = list
      BY <3>1 DEF list
    <3> QED
      BY <1>2, <2>1, <3>3, <3>4, RowsTyped DEF RowTypes
  <2>3. CASE resizeEvent
    <3>1. PICK height \in Viewports : updateVisibleItems(m_scrollValue, dataList, height)
      BY <2>3 DEF resizeEvent
    <3>2. dataList' = dataList
      BY <2>3 DEF resizeEvent
    <3> QED
      BY <1>2, <2>1, <3>1, <3>2, RowsTyped DEF RowTypes
  <2>4. ASSUME NEW value \in Nat, setScrollValue(value), UNCHANGED dataList
        PROVE  RowTypes'
    BY <1>2, <2>1, <2>4, RowsTyped DEF setScrollValue, RowTypes
  <2>5. CASE wheelEvent
    <3>1. PICK delta \in Deltas, up \in BOOLEAN :
            LET step  == Larger(delta, ItemHeight)
                value == IF up THEN Larger(0, scrollBar.value - step)
                               ELSE Smaller(scrollBar.max, scrollBar.value + step)
            IN setScrollValue(value)
      BY <2>5 DEF wheelEvent
    <3> DEFINE step == Larger(delta, ItemHeight)
               value == IF up THEN Larger(0, scrollBar.value - step)
                              ELSE Smaller(scrollBar.max, scrollBar.value + step)
    <3>2. step \in Nat
      BY ScrollAssumption DEF Larger
    <3>3. value \in Nat
      <4> HIDE DEF step
      <4> QED
        BY <2>1, <3>2 DEF Larger, Smaller
    <3>4. setScrollValue(value) /\ UNCHANGED dataList
      BY <2>5, <3>1 DEF wheelEvent
    <3> HIDE DEF value
    <3> QED
      BY <2>4, <3>3, <3>4
  <2>6. CASE timeout
    BY <2>1, <2>4, <2>6 DEF timeout
  <2>7. CASE Drag \/ UNCHANGED scrollVars
    BY <1>2, <2>7 DEF Drag, scrollVars, RowTypes
  <2> QED
    BY <1>2, <2>2, <2>3, <2>5, <2>6, <2>7 DEF ScrollNext
<1>3. ScrollInv /\ RowTypes => ScrollTypeOK
  BY DEF ScrollInv, BarTypes, RowTypes, ScrollTypeOK
<1> QED
  BY <1>1, <1>2, <1>3

-----------------------------------------------------------------------------
(* All the parts together. *)

(* Whichever part runs, the steps of all are steps of each of the others' own
   specifications, or leave it alone, by the way they are put together: what is
   proved of a part by itself can be cited for the run of all of them. *)
LEMMA PartsImplemented ==
  Spec => /\ WebSocketInit /\ [][WebSocketNext]_webSocketVars
          /\ MarketSpec /\ ScrollSpec /\ PopupSpec /\ DictionarySpec /\ OrdersSpec /\ HistorySpec
          /\ SchedulerSafety
<1>1. Init => /\ WebSocketInit /\ MarketInit /\ ScrollInit /\ PopupInit /\ DictionaryInit
              /\ OrdersInit /\ HistoryInit /\ SchedulerInit
  BY DEF Init
<1>2. [Next]_vars => [WebSocketNext]_webSocketVars
  BY DEF Next, vars, Connection, Market, Scroll, Popup, Dictionary, Placing, History,
         Scheduling
<1>3. [Next]_vars => [OnTickerUpdate]_marketVars
  BY DEF Next, vars, Connection, Market, Scroll, Popup, Dictionary, Placing, History,
         Scheduling
<1>4. [Next]_vars => [ScrollNext]_scrollVars
  BY DEF Next, vars, Connection, Market, Scroll, Popup, Dictionary, Placing, History,
         Scheduling
<1>5. [Next]_vars => [PopupNext]_popupVars
  BY DEF Next, vars, Connection, Market, Scroll, Popup, Dictionary, Placing, History,
         Scheduling
<1>6. [Next]_vars => [DictionaryNext]_dictionaryVars
  BY DEF Next, vars, Connection, Market, Scroll, Popup, Dictionary, Placing, History,
         Scheduling
<1>7. [Next]_vars => [OrdersNext]_orderVars
  BY DEF Next, vars, Connection, Market, Scroll, Popup, Dictionary, Placing, History,
         Scheduling
<1>8. [Next]_vars => [HistoryNext]_historyVars
  BY DEF Next, vars, Connection, Market, Scroll, Popup, Dictionary, Placing, History,
         Scheduling
<1>9. [Next]_vars => [SchedulerNext]_schedulerVars
  BY DEF Next, vars, Connection, Market, Scroll, Popup, Dictionary, Placing, History,
         Scheduling
<1> QED
  BY <1>1, <1>2, <1>3, <1>4, <1>5, <1>6, <1>7, <1>8, <1>9, PTL
     DEF Spec, MarketSpec, ScrollSpec, PopupSpec, DictionarySpec, OrdersSpec, HistorySpec,
         SchedulerSafety

(* Every part's fields hold what their types allow, in every behaviour of all. *)
THEOREM TypesStayCorrect == Spec => []TypeOK
<1>1. WebSocketInit /\ [][WebSocketNext]_webSocketVars => []WebSocketTypeOK
  BY ConnectionTypes, PTL
<1>2. MarketSpec => []MarketTypeOK
  <2>1. MarketInv => MarketTypeOK
    BY DEF MarketInv
  <2> QED
    BY <2>1, MarketStart, MarketStep, PTL DEF MarketSpec
<1>3. ScrollSpec => []ScrollTypeOK
  <2>1. ScrollInit => RowTypes
    BY ScrollTypes
  <2>2. ScrollInv /\ RowTypes /\ [ScrollNext]_scrollVars => RowTypes'
    BY ScrollTypes
  <2>3. ScrollInv /\ RowTypes => ScrollTypeOK
    BY ScrollTypes
  <2> QED
    BY <2>1, <2>2, <2>3, ScrollStart, ScrollStep, PTL DEF ScrollSpec
<1>4. PopupSpec => []PopupTypeOK
  BY PopupTypes, PTL DEF PopupSpec
<1>5. DictionarySpec => []DictionaryTypeOK
  BY DictionaryTypes, PTL DEF DictionarySpec
<1>6. OrdersSpec => []OrdersTypeOK
  <2> DEFINE WaitedOK == waited \subseteq Orders
  <2>1. OrdersInit => WaitedOK
    BY WaitedTypes
  <2>2. WaitedOK /\ [OrdersNext]_orderVars => WaitedOK'
    BY WaitedTypes
  <2>3. OrdersInv /\ VisitInv /\ WaitedOK => OrdersTypeOK
    BY OrdersTypes
  <2> HIDE DEF WaitedOK
  <2> QED
    BY <2>1, <2>2, <2>3, OrdersStart, OrdersStep, VisitStart, VisitStep, PTL DEF OrdersSpec
<1>7. HistorySpec => []HistoryTypeOK
  <2>1. HistoryInv => HistoryTypeOK
    BY DEF HistoryInv
  <2> QED
    BY <2>1, HistoryStart, HistoryStep, PTL DEF HistorySpec
<1>8. SchedulerSafety => []SchedulerTypeOK
  BY TypesHold
<1>9. /\ WebSocketTypeOK /\ MarketTypeOK /\ ScrollTypeOK /\ PopupTypeOK /\ DictionaryTypeOK
      /\ OrdersTypeOK /\ HistoryTypeOK /\ SchedulerTypeOK
      => TypeOK
  BY DEF TypeOK
<1> QED
  BY <1>1, <1>2, <1>3, <1>4, <1>5, <1>6, <1>7, <1>8, <1>9, PartsImplemented, PTL

(* What holds of the parts in every state, for every value of their constants. *)
PartsSafe ==
  /\ TimersMatchConnection /\ PartialAveragesAreExtreme
  /\ SettledRowsAreRight /\ PopupSettles /\ DirectionsAgree
  /\ EachVisitedOnce /\ PlacementsAccounted /\ HistoryExact /\ NewestAreLast
  /\ RunsWithinRepeat /\ DailyOncePerDay

(* Together too, every part keeps what its own theorem promises. *)
THEOREM PartsAlwaysSafe ==
  Spec => []PartsSafe /\ DistributionAccounted /\ IntervalRunsOnTime
<1>1. ConnectionInv /\ [WebSocketNext]_webSocketVars => ConnectionInv'
  BY ConnectionStep
<1>2. ConnectionInv => TimersMatchConnection
  BY DEF ConnectionInv
<1>3. /\ TimersMatchConnection /\ PartialAveragesAreExtreme
      /\ SettledRowsAreRight /\ PopupSettles /\ DirectionsAgree
      /\ EachVisitedOnce /\ PlacementsAccounted /\ HistoryExact /\ NewestAreLast
      /\ RunsWithinRepeat /\ DailyOncePerDay
      => PartsSafe
  BY DEF PartsSafe
<1> QED
  BY <1>1, <1>2, <1>3, PartsImplemented, ConnectionInit, PartialAveragesAlwaysExtreme,
     DistributionAlwaysAccounted, SettledRowsAlwaysRight, PopupAlwaysSettles, DirectionsAlwaysAgree,
     EachAlwaysVisitedOnce, PlacementsAlwaysAccounted, HistoryAlwaysExact, NewestAlwaysLast,
     LimitedTasksEnd, DailyTasksRunOnce, IntervalTasksRunOnTime, PTL

=============================================================================
