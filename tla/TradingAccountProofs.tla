------------------------ MODULE TradingAccountProofs ------------------------
(***************************************************************************)
(* Proofs for TradingAccount: type correctness, and that the copies of the *)
(* account are the exchange's once nothing is under way.                   *)
(***************************************************************************)
EXTENDS TradingAccount, TLAPS

-----------------------------------------------------------------------------
(* The inductive invariant. *)

(* No event under way is about k. *)
NoneFor(str, k) == \A i \in 1 .. Len(str) : k \notin Subject(str[i])

(* No later event is about what the i-th is about. *)
LastOfItsKind(str, i) ==
  \A j \in 1 .. Len(str) : j > i => \A k \in Subject(str[i]) : k \notin Subject(str[j])

(* The last event about a setting or an order says what the exchange has. *)
LastEventsCurrent(str, leverage, status) ==
  \A i \in 1 .. Len(str) : LastOfItsKind(str, i) =>
    /\ str[i].kind = "leverage" => str[i].leverage = leverage[str[i].symbol]
    /\ str[i].kind = "order" => str[i].status = status[str[i].id]

StreamCurrent == link # "none" => LastEventsCurrent(stream, xLeverage, xStatus)

(* Where OnStart is, and what is there only in some of its calls. *)
StartShape ==
  /\ step = 1 => link = "none" /\ stream = <<>> /\ callback = "idle" /\ refreshed = "never"
  /\ link = "down" => stream = <<>>
  /\ pc = "store" => step \in {3, 4}
  /\ pc = "query" => step = 4
  /\ pc = "aborted" => step = 3
  /\ pc # "store" => answer = {}
  /\ step = 3 => answer \subseteq [key : OrderIds, value : OrderEntry]
  /\ step = 4 => answer \subseteq [key : Symbols, value : Leverages]

(* A setting that is not missed: what is to be stored of it is the exchange's,
   and if no event under way will bring the copy up to date, it is up to date
   or will be when the answer is stored. *)
LeverageFollows(s) ==
  /\ step = 4 => \A a \in answer : a.key = s => a.value = xLeverage[s]
  /\ NoneFor(stream, s) /\ (step = 5 \/ (step = 4 /\ pc = "store")) =>
       \/ LeverageSettingsDataMap[s] = xLeverage[s]
       \/ step = 4 /\ \E a \in answer : a.key = s

LeveragesFollow == link # "none" => \A s \in Symbols \ missed : LeverageFollows(s)

Entry(id) == [id |-> id, status |-> xStatus[id]]

Stored(id) == \E key \in {id, StreamKey(id)} : OpenOrderInfoMap[key] = Entry(id)

(* The same for the orders the exchange has and Converter converts. *)
OrderFollows(id) ==
  /\ step = 3 => \A a \in answer : a.key = id => a.value = Entry(id)
  /\ /\ NoneFor(stream, id) /\ ~Unconvertible(id, xStatus[id])
     /\ step > 3 \/ (step = 3 /\ pc = "store")
     => \/ Stored(id)
        \/ step = 3 /\ \E a \in answer : a.key = id

OrdersFollow ==
  link # "none" => \A id \in OrderIds \ missed : xStatus[id] # 0 => OrderFollows(id)

(* The positions: the map is empty until the query inside the callback is
   answered and after it failed; where positions are netted it stays so until the
   first of them makes the loop throw. *)
PositionsEmptied ==
  /\ \/ callback = "query"
     \/ callback = "idle" /\ refreshed = "failed"
     \/ callback = "store" /\ ~hedged
     => PositionInfoMap = EmptyMap(Symbols)
  /\ callback = "idle" /\ refreshed = "threw" =>
       \A s \in Symbols : PositionInfoMap[s] \in {Missing, Blank}
  /\ callback = "store" => \A a \in positionAnswer : a.value.side \in Sides

Holding(s, side) == [side |-> side, quantity |-> xPosition[<<s, side>>]]

Copied(s) ==
  \/ PositionInfoMap[s] = Missing /\ \A side \in Sides : xPosition[<<s, side>>] = 0
  \/ \E side \in Sides : PositionInfoMap[s] = Holding(s, side)

(* What is stored of the answer and what is yet to be stored are what the exchange
   has. *)
PositionFollows(s) ==
  /\ callback = "store" =>
       /\ \A a \in positionAnswer : a.key = s => \E side \in Sides : a.value = Holding(s, side)
       /\ Copied(s) \/ \E a \in positionAnswer : a.key = s
  /\ callback = "idle" /\ refreshed = "done" => Copied(s)

PositionsFollow ==
  link # "none" /\ AllPositions \notin missed /\ NoneFor(stream, AllPositions) =>
    \A s \in Symbols : PositionFollows(s)

IInv ==
  /\ TypeOK
  /\ StartShape
  /\ StreamCurrent
  /\ LeveragesFollow
  /\ OrdersFollow
  /\ PositionsEmptied
  /\ PositionsFollow

-----------------------------------------------------------------------------
(* Facts about calls, events and the stream. *)

(* The calls of OnStart by their numbers. *)
LEMMA CallNumbers ==
  ASSUME TypeOK
  PROVE  /\ Len(StartCalls) = 4
         /\ In("subscribe") <=> step = 1
         /\ In("brackets") <=> step = 2
         /\ In("orders") <=> step = 3
         /\ In("leverages") <=> step = 4
         /\ Started <=> step = 5
         /\ step \in 1 .. 5
<1>1. step \in 1 .. 5
  BY DEF TypeOK, StartCalls
<1>2. /\ StartCalls[1] = "subscribe" /\ StartCalls[2] = "brackets"
      /\ StartCalls[3] = "orders" /\ StartCalls[4] = "leverages" /\ Len(StartCalls) = 4
  BY DEF StartCalls
<1> HIDE DEF StartCalls
<1> QED
  BY <1>1, <1>2 DEF In, Started

(* What an event is about. *)
LEMMA EventKinds ==
  ASSUME NEW e \in Event
  PROVE  /\ e.kind \in {"leverage", "order", "account", "expired"}
         /\ e.kind = "leverage" =>
              e.symbol \in Symbols /\ e.leverage \in Leverages /\ Subject(e) = {e.symbol}
         /\ e.kind = "order" =>
              e.id \in OrderIds /\ e.status \in Statuses \ {0} /\ Subject(e) = {e.id}
         /\ e.kind = "account" => Subject(e) = {AllPositions}
         /\ e.kind = "expired" => Subject(e) = {}
<1>1. CASE e \in [kind : {"leverage"}, symbol : Symbols, leverage : Leverages]
  BY <1>1 DEF Subject
<1>2. CASE e \in [kind : {"order"}, id : OrderIds, status : Statuses \ {0}]
  BY <1>2 DEF Subject
<1>3. CASE e \in [kind : {"account", "expired"}]
  BY <1>3 DEF Subject
<1> QED
  BY <1>1, <1>2, <1>3 DEF Event

(* The events the exchange pushes, and what they are about. *)
LEMMA PushedEvents ==
  /\ \A s \in Symbols, l \in Leverages :
       LET e == [kind |-> "leverage", symbol |-> s, leverage |-> l] IN
       e \in Event /\ Subject(e) = {s}
  /\ \A id \in OrderIds, t \in Statuses \ {0} :
       LET e == [kind |-> "order", id |-> id, status |-> t] IN
       e \in Event /\ Subject(e) = {id}
  /\ [kind |-> "account"] \in Event /\ Subject([kind |-> "account"]) = {AllPositions}
  /\ [kind |-> "expired"] \in Event /\ Subject([kind |-> "expired"]) = {}
BY DEF Event, Subject

(* An empty stream is about nothing. *)
LEMMA EmptyStream == \A k : NoneFor(<<>>, k)
BY DEF NoneFor

(* Appending an event keeps the type. *)
LEMMA AppendType == \A str \in Seq(Event), e \in Event : Append(str, e) \in Seq(Event)
OBVIOUS

(* One more event is about its subject. *)
LEMMA AppendedEvent ==
  ASSUME NEW str \in Seq(Event), NEW e \in Event, NEW k
  PROVE  NoneFor(Append(str, e), k) <=> NoneFor(str, k) /\ k \notin Subject(e)
<1>1. /\ Len(Append(str, e)) = Len(str) + 1 /\ Len(str) \in Nat
      /\ \A i \in 1 .. Len(str) : Append(str, e)[i] = str[i]
      /\ Append(str, e)[Len(str) + 1] = e
  OBVIOUS
<1> QED
  BY <1>1 DEF NoneFor

(* One event less is not about its subject. *)
LEMMA TakenEvent ==
  ASSUME NEW str \in Seq(Event), str # <<>>
  PROVE  /\ Tail(str) \in Seq(Event) /\ Head(str) \in Event
         /\ \A k : NoneFor(str, k) <=> NoneFor(Tail(str), k) /\ k \notin Subject(Head(str))
<1>1. /\ Len(Tail(str)) = Len(str) - 1 /\ Len(str) \in Nat \ {0}
      /\ \A i \in 1 .. Len(str) - 1 : Tail(str)[i] = str[i + 1]
      /\ Head(str) = str[1] /\ Tail(str) \in Seq(Event) /\ str[1] \in Event
  OBVIOUS
<1>2. ASSUME NEW k, NoneFor(str, k)
      PROVE  NoneFor(Tail(str), k) /\ k \notin Subject(Head(str))
  BY <1>1, <1>2 DEF NoneFor
<1>3. ASSUME NEW k, NoneFor(Tail(str), k), k \notin Subject(Head(str)), NEW i \in 1 .. Len(str)
      PROVE  k \notin Subject(str[i])
  <2>1. CASE i = 1
    BY <1>1, <1>3, <2>1
  <2>2. CASE i # 1
    <3>1. i - 1 \in 1 .. Len(Tail(str)) /\ Tail(str)[i - 1] = str[i]
      BY <1>1, <2>2
    <3> QED
      BY <3>1, <1>3 DEF NoneFor
  <2> QED
    BY <2>1, <2>2
<1> QED
  BY <1>1, <1>2, <1>3 DEF NoneFor

(* The first event, when no other is about the same, says what the exchange
   has; and taking it leaves the last ones as they are. *)
LEMMA CurrentTail ==
  ASSUME NEW str \in Seq(Event), str # <<>>, NEW lev, NEW stat,
         LastEventsCurrent(str, lev, stat)
  PROVE  /\ LastEventsCurrent(Tail(str), lev, stat)
         /\ Head(str).kind = "leverage" /\ NoneFor(Tail(str), Head(str).symbol) =>
              Head(str).leverage = lev[Head(str).symbol]
         /\ Head(str).kind = "order" /\ NoneFor(Tail(str), Head(str).id) =>
              Head(str).status = stat[Head(str).id]
<1>1. /\ Len(Tail(str)) = Len(str) - 1 /\ Len(str) \in Nat \ {0}
      /\ \A i \in 1 .. Len(str) - 1 : Tail(str)[i] = str[i + 1]
      /\ Head(str) = str[1] /\ str[1] \in Event
  OBVIOUS
<1>2. \A j \in 1 .. Len(str) : j > 1 => j - 1 \in 1 .. Len(Tail(str)) /\ Tail(str)[j - 1] = str[j]
  BY <1>1
<1>3. ASSUME NEW i \in 1 .. Len(Tail(str)), LastOfItsKind(Tail(str), i)
      PROVE  /\ Tail(str)[i].kind = "leverage" => Tail(str)[i].leverage = lev[Tail(str)[i].symbol]
             /\ Tail(str)[i].kind = "order" => Tail(str)[i].status = stat[Tail(str)[i].id]
  <2>1. i + 1 \in 1 .. Len(str) /\ Tail(str)[i] = str[i + 1]
    BY <1>1
  <2>2. LastOfItsKind(str, i + 1)
    <3> SUFFICES ASSUME NEW j \in 1 .. Len(str), j > i + 1, NEW k \in Subject(str[i + 1])
                 PROVE  k \notin Subject(str[j])
      BY DEF LastOfItsKind
    <3>1. j - 1 \in 1 .. Len(Tail(str)) /\ j - 1 > i /\ Tail(str)[j - 1] = str[j]
      BY <1>2
    <3> QED
      BY <3>1, <2>1, <1>3 DEF LastOfItsKind
  <2> QED
    BY <2>1, <2>2 DEF LastEventsCurrent
<1>4. ASSUME NEW k, Subject(str[1]) = {k}, NoneFor(Tail(str), k)
      PROVE  LastOfItsKind(str, 1)
  BY <1>2, <1>4 DEF LastOfItsKind, NoneFor
<1>5. 1 \in 1 .. Len(str)
  BY <1>1
<1> QED
  BY <1>1, <1>3, <1>4, <1>5, EventKinds DEF LastEventsCurrent

(* An event about one key that says what the exchange has now, of which only
   the value of that key changed. *)
LEMMA CurrentAppend ==
  ASSUME NEW str \in Seq(Event), NEW e \in Event, NEW lev, NEW stat, NEW lev2, NEW stat2,
         LastEventsCurrent(str, lev, stat),
         \A s \in Symbols : s \notin Subject(e) => lev2[s] = lev[s],
         \A id \in OrderIds : id \notin Subject(e) => stat2[id] = stat[id],
         e.kind = "leverage" => e.leverage = lev2[e.symbol],
         e.kind = "order" => e.status = stat2[e.id]
  PROVE  LastEventsCurrent(Append(str, e), lev2, stat2)
<1> DEFINE new == Append(str, e)
<1>1. /\ Len(new) = Len(str) + 1 /\ Len(str) \in Nat
      /\ \A i \in 1 .. Len(str) : new[i] = str[i] /\ str[i] \in Event
      /\ new[Len(str) + 1] = e
  OBVIOUS
<1> HIDE DEF new
<1> SUFFICES ASSUME NEW i \in 1 .. Len(new), LastOfItsKind(new, i)
             PROVE  /\ new[i].kind = "leverage" => new[i].leverage = lev2[new[i].symbol]
                    /\ new[i].kind = "order" => new[i].status = stat2[new[i].id]
  BY DEF LastEventsCurrent, new
<1>2. CASE i = Len(str) + 1
  BY <1>1, <1>2
<1>3. CASE i \in 1 .. Len(str)
  <2>1. LastOfItsKind(str, i)
    BY <1>1, <1>3 DEF LastOfItsKind
  <2>2. \A k \in Subject(str[i]) : k \notin Subject(e)
    BY <1>1, <1>3 DEF LastOfItsKind
  <2>3. str[i] \in Event /\ new[i] = str[i]
    BY <1>1, <1>3
  <2>4. /\ str[i].kind = "leverage" => str[i].leverage = lev[str[i].symbol]
        /\ str[i].kind = "order" => str[i].status = stat[str[i].id]
    BY <2>1, <1>3 DEF LastEventsCurrent
  <2> QED
    BY <2>2, <2>3, <2>4, EventKinds
<1> QED
  BY <1>1, <1>2, <1>3

(* What a change at the exchange does to the stream. *)
LEMMA ChangeSteps ==
  ASSUME TypeOK, NEW e \in Event, Change(e)
  PROVE  /\ link = "up" => /\ stream' = Append(stream, e)
                           /\ \A k : NoneFor(stream', k) <=> NoneFor(stream, k) /\ k \notin Subject(e)
         /\ link # "up" => stream' = stream
         /\ link' = link /\ UNCHANGED <<startVars, callbackVars, mapVars>>
<1>1. stream \in Seq(Event)
  BY DEF TypeOK
<1> QED
  BY <1>1, AppendedEvent DEF Change, Push, linkVars

(* A change of an order is pushed as an event about it. *)
LEMMA OrderEvent ==
  ASSUME TypeOK, NEW id \in OrderIds, ChangeOrder(id)
  PROVE  \E e \in Event : Change(e) /\ Subject(e) = {id}
<1> DEFINE e == [kind |-> "order", id |-> id, status |-> xStatus[id] + 1]
<1>1. xStatus[id] + 1 \in Statuses \ {0}
  BY DEF ChangeOrder, TypeOK, Statuses
<1>2. e \in Event /\ Subject(e) = {id}
  BY <1>1, PushedEvents
<1>3. Change(e)
  BY DEF ChangeOrder
<1> QED
  BY <1>2, <1>3

(* What a callback does to the stream. *)
LEMMA ReceiveSteps ==
  ASSUME TypeOK, NEW kind, Receive(kind)
  PROVE  /\ stream # <<>> /\ stream \in Seq(Event) /\ stream' = Tail(stream)
         /\ Head(stream) \in Event /\ Head(stream).kind = kind
         /\ \A k : NoneFor(stream, k) <=> NoneFor(stream', k) /\ k \notin Subject(Head(stream))
         /\ UNCHANGED <<exchangeVars, linkVars, startVars>>
<1>1. stream # <<>> /\ stream \in Seq(Event) /\ stream' = Tail(stream)
  BY DEF TypeOK, Receive
<1> QED
  BY <1>1, TakenEvent DEF Receive

(* There is no last event in an empty stream. *)
LEMMA EmptyCurrent == \A lev, stat : LastEventsCurrent(<<>>, lev, stat)
BY DEF LastEventsCurrent

-----------------------------------------------------------------------------
(* Types. *)

(* A change keeps the type of what it changes besides the exchange's value. *)
LEMMA ChangeTypes ==
  ASSUME TypeOK, NEW e \in Event, Change(e)
  PROVE  /\ stream' \in Seq(Event) /\ changes' \in 0 .. MaxChanges
         /\ UNCHANGED <<link, outages, startVars, callbackVars, mapVars>>
<1>1. stream \in Seq(Event) /\ Append(stream, e) \in Seq(Event)
  BY AppendType DEF TypeOK
<1>2. stream' = stream \/ stream' = Append(stream, e)
  BY DEF Change, Push
<1>3. changes' \in 0 .. MaxChanges
  BY BoundAssumption DEF Change, TypeOK
<1> QED
  BY <1>1, <1>2, <1>3 DEF Change, linkVars

(* The end of a call of OnStart. *)
LEMMA AdvanceTypes ==
  ASSUME TypeOK, ~Started, Advance
  PROVE  step' \in 1 .. Len(StartCalls) + 1 /\ pc' = "call" /\ answer' = {}
<1>1. step \in 1 .. 4 /\ step' = step + 1 /\ Len(StartCalls) = 4
  BY CallNumbers DEF Advance
<1>2. step' \in 1 .. Len(StartCalls) + 1
  BY <1>1
<1> QED
  BY <1>2 DEF Advance

(* A step keeps the types. *)
LEMMA TypeStep ==
  ASSUME TypeOK, StartShape, [Next]_vars
  PROVE  TypeOK'
<1> USE DEF TypeOK
<1>1. ASSUME NEW s \in Symbols, NEW leverage \in Leverages, ChangeLeverage(s, leverage)
      PROVE  TypeOK'
  <2>1. PICK e \in Event : Change(e)
    BY <1>1, PushedEvents DEF ChangeLeverage
  <2> QED
    BY <1>1, <2>1, ChangeTypes DEF ChangeLeverage, Misses, startVars, callbackVars, mapVars
<1>2. ASSUME NEW s \in Symbols, NEW side \in Sides, NEW quantity \in Quantities,
             ChangePosition(s, side, quantity)
      PROVE  TypeOK'
  <2>1. PICK e \in Event : Change(e)
    BY <1>2, PushedEvents DEF ChangePosition
  <2> QED
    BY <1>2, <2>1, ChangeTypes DEF ChangePosition, startVars, callbackVars, mapVars
<1>3. ASSUME NEW id \in OrderIds, ChangeOrder(id)
      PROVE  TypeOK'
  <2>0. xStatus[id] + 1 \in Statuses \ {0}
    BY <1>3 DEF ChangeOrder, Statuses
  <2>1. PICK e \in Event : Change(e)
    BY <1>3, OrderEvent
  <2>2. xStatus' \in [OrderIds -> Statuses]
    BY <1>3, <2>0 DEF ChangeOrder
  <2>3. missed' \subseteq Symbols \union OrderIds \union {AllPositions}
    BY <1>3 DEF ChangeOrder, Misses
  <2>4. /\ stream' \in Seq(Event) /\ changes' \in 0 .. MaxChanges
        /\ UNCHANGED <<link, outages, startVars, callbackVars, mapVars, xLeverage, hedged, xPosition>>
    BY <1>3, <2>1, ChangeTypes DEF ChangeOrder
  <2> QED
    BY <2>2, <2>3, <2>4 DEF startVars, callbackVars, mapVars
<1>4. CASE ExpireListenKey
  <2>1. stream' \in Seq(Event)
    BY <1>4, PushedEvents, AppendType DEF ExpireListenKey
  <2> QED
    BY <1>4, <2>1 DEF ExpireListenKey, exchangeVars, startVars, callbackVars, mapVars
<1>5. CASE StreamDown
  <2>1. \A i \in DOMAIN stream :
          Subject(stream[i]) \subseteq Symbols \union OrderIds \union {AllPositions}
    BY EventKinds
  <2> QED
    BY <1>5, <2>1, BoundAssumption DEF StreamDown, exchangeVars, startVars, callbackVars, mapVars
<1>6. CASE StreamUp
  BY <1>6 DEF StreamUp, exchangeVars, startVars, callbackVars, mapVars
<1>7. CASE \/ APISubscribeToUserDataUpdates \/ APIUpdateAllLeverageBracket
           \/ QueryLeveragesFails \/ EndStore
  <2>1. ~Started /\ Advance
    BY <1>7 DEF APISubscribeToUserDataUpdates, APIUpdateAllLeverageBracket,
       QueryLeveragesFails, EndStore, In
  <2> QED
    BY <1>7, <2>1, AdvanceTypes DEF APISubscribeToUserDataUpdates, APIUpdateAllLeverageBracket,
       QueryLeveragesFails, EndStore, EmptyMap, exchangeVars, linkVars, callbackVars, mapVars
<1>8. CASE QueryOrders
  <2>1. answer' \subseteq [key : OrderIds, value : OrderEntry]
    BY <1>8 DEF QueryOrders, OrderEntry
  <2> QED
    BY <1>8, <2>1 DEF QueryOrders, exchangeVars, linkVars, callbackVars, mapVars
<1>9. ASSUME \/ QueryOrdersFails
             \/ \E a \in answer : StoreOrderThrows(a)
      PROVE  TypeOK'
  BY <1>9 DEF QueryOrdersFails, StoreOrderThrows, exchangeVars, linkVars, callbackVars, mapVars
<1>10. ASSUME NEW a \in answer, StoreOrder(a)
       PROVE  TypeOK'
  BY <1>10, CallNumbers DEF StartShape, StoreOrder, exchangeVars, linkVars, callbackVars
<1>11. ASSUME NEW a \in answer, StoreLeverage(a)
       PROVE  TypeOK'
  BY <1>11, CallNumbers DEF StartShape, StoreLeverage, exchangeVars, linkVars, callbackVars
<1>12. CASE ClearLeverages
  BY <1>12 DEF ClearLeverages, EmptyMap, exchangeVars, linkVars, callbackVars
<1>13. CASE QueryLeverages
  BY <1>13 DEF QueryLeverages, exchangeVars, linkVars, callbackVars, mapVars
<1>14. CASE OnLeverageUpdate
  <2>1. Receive("leverage")
    BY <1>14 DEF OnLeverageUpdate
  <2>2. /\ stream' \in Seq(Event)
        /\ Head(stream).symbol \in Symbols /\ Head(stream).leverage \in Leverages
    BY <2>1, ReceiveSteps, TakenEvent, EventKinds
  <2> QED
    BY <1>14, <2>1, <2>2 DEF OnLeverageUpdate, Receive, exchangeVars, linkVars, startVars, callbackVars
<1>15. CASE OnOrderUpdate
  <2>1. Receive("order")
    BY <1>15 DEF OnOrderUpdate
  <2>2. /\ stream' \in Seq(Event)
        /\ Head(stream).id \in OrderIds /\ Head(stream).status \in Statuses \ {0}
    BY <2>1, ReceiveSteps, TakenEvent, EventKinds
  <2> QED
    BY <1>15, <2>1, <2>2
       DEF OnOrderUpdate, Receive, OrderEntry, exchangeVars, linkVars, startVars, callbackVars
<1>16. CASE OnAccountUpdate \/ OnOrderUpdateThrows \/ OnListenKeyExpired
  <2>1. PICK kind : Receive(kind)
    BY <1>16 DEF OnAccountUpdate, OnOrderUpdateThrows, OnListenKeyExpired
  <2>2. stream' \in Seq(Event)
    BY <2>1, ReceiveSteps, TakenEvent
  <2> QED
    BY <1>16, <2>1, <2>2 DEF OnAccountUpdate, OnOrderUpdateThrows, OnListenKeyExpired, Receive,
       EmptyMap, exchangeVars, linkVars, startVars, callbackVars, mapVars
<1>17. CASE QueryPositions
  <2>1. Sides \subseteq PositionSides
    BY DEF Sides, PositionSides
  <2>2. positionAnswer' \subseteq [key : Symbols, value : PositionEntry]
    <3>1. PICK answered \in SUBSET (Symbols \X Sides) : positionAnswer' =
            {[key |-> p[1], value |-> [side |-> p[2], quantity |-> xPosition[p]]] : p \in answered}
      BY <1>17 DEF QueryPositions
    <3>2. \A p \in answered : p[1] \in Symbols /\ p[2] \in PositionSides /\ xPosition[p] \in Quantities
      BY <2>1
    <3> QED
      BY <3>1, <3>2 DEF PositionEntry
  <2> QED
    BY <1>17, <2>2 DEF QueryPositions, exchangeVars, linkVars, startVars, mapVars
<1>18. CASE QueryPositionsFails \/ EndStorePositions
  BY <1>18 DEF QueryPositionsFails, EndStorePositions, exchangeVars, linkVars, startVars, mapVars
<1>19. ASSUME NEW a \in positionAnswer, StorePosition(a) \/ StorePositionThrows(a)
       PROVE  TypeOK'
  <2>1. Blank \in PositionEntry
    BY NumbersAssumption DEF Blank, PositionEntry, PositionSides
  <2> QED
    BY <1>19, <2>1 DEF StorePosition, StorePositionThrows, exchangeVars, linkVars, startVars
<1>20. CASE UNCHANGED vars
  BY <1>20 DEF vars, exchangeVars, linkVars, startVars, callbackVars, mapVars
<1> QED
  BY <1>1, <1>2, <1>3, <1>4, <1>5, <1>6, <1>7, <1>8, <1>9, <1>10, <1>11, <1>12, <1>13, <1>14,
     <1>15, <1>16, <1>17, <1>18, <1>19, <1>20 DEF Next

(* A step keeps to where OnStart is. *)
LEMMA ShapeStep ==
  ASSUME TypeOK, StartShape, [Next]_vars
  PROVE  StartShape'
<1> USE CallNumbers DEF StartShape
<1>1. ASSUME NEW e, Change(e)
      PROVE  StartShape'
  BY <1>1 DEF Change, Push, linkVars, startVars, callbackVars
<1>2. ASSUME NEW s \in Symbols, NEW leverage \in Leverages, ChangeLeverage(s, leverage)
      PROVE  StartShape'
  BY <1>1, <1>2 DEF ChangeLeverage
<1>3. ASSUME NEW s \in Symbols, NEW side \in Sides, NEW quantity \in Quantities,
             ChangePosition(s, side, quantity)
      PROVE  StartShape'
  BY <1>1, <1>3 DEF ChangePosition
<1>4. ASSUME NEW id \in OrderIds, ChangeOrder(id)
      PROVE  StartShape'
  BY <1>1, <1>4 DEF ChangeOrder
<1>5. CASE ExpireListenKey \/ StreamDown \/ StreamUp
  BY <1>5 DEF ExpireListenKey, StreamDown, StreamUp, startVars, callbackVars
<1>6. CASE APISubscribeToUserDataUpdates \/ APIUpdateAllLeverageBracket
  BY <1>6 DEF APISubscribeToUserDataUpdates, APIUpdateAllLeverageBracket, Advance, linkVars,
     callbackVars
<1>7. CASE QueryOrders
  <2>1. answer' \subseteq [key : OrderIds, value : OrderEntry]
    BY <1>7 DEF QueryOrders, OrderEntry, TypeOK
  <2> QED
    BY <1>7, <2>1 DEF QueryOrders, linkVars, callbackVars
<1>8. CASE QueryOrdersFails
  BY <1>8 DEF QueryOrdersFails, linkVars, callbackVars
<1>9. ASSUME NEW a \in answer, StoreOrder(a) \/ StoreOrderThrows(a) \/ StoreLeverage(a)
      PROVE  StartShape'
  BY <1>9 DEF StoreOrder, StoreOrderThrows, StoreLeverage, linkVars, callbackVars
<1>10. CASE ClearLeverages
  BY <1>10 DEF ClearLeverages, linkVars, callbackVars
<1>11. CASE QueryLeverages
  BY <1>11 DEF QueryLeverages, TypeOK, linkVars, callbackVars
<1>12. CASE QueryLeveragesFails \/ EndStore
  BY <1>12 DEF QueryLeveragesFails, EndStore, Advance, linkVars, callbackVars
<1>13. CASE \/ OnLeverageUpdate \/ OnOrderUpdate \/ OnOrderUpdateThrows \/ OnAccountUpdate
            \/ OnListenKeyExpired
  <2>1. PICK kind : Receive(kind)
    BY <1>13 DEF OnLeverageUpdate, OnOrderUpdate, OnOrderUpdateThrows, OnAccountUpdate,
       OnListenKeyExpired
  <2>2. step # 1 /\ link # "down" /\ UNCHANGED <<step, pc, answer, link>>
    BY <2>1 DEF Receive, linkVars, startVars
  <2> QED
    BY <2>2
<1>14. CASE QueryPositions \/ QueryPositionsFails \/ EndStorePositions
  BY <1>14 DEF QueryPositions, QueryPositionsFails, EndStorePositions, linkVars, startVars
<1>15. ASSUME NEW a \in positionAnswer, StorePosition(a) \/ StorePositionThrows(a)
       PROVE  StartShape'
  BY <1>15 DEF StorePosition, StorePositionThrows, linkVars, startVars
<1>16. CASE UNCHANGED vars
  BY <1>16 DEF vars, linkVars, startVars, callbackVars
<1> QED
  BY <1>2, <1>3, <1>4, <1>5, <1>6, <1>7, <1>8, <1>9, <1>10, <1>11, <1>12, <1>13, <1>14, <1>15,
     <1>16 DEF Next

-----------------------------------------------------------------------------
(* The stream. *)

(* A change appends the last word on its key; a callback takes the first. *)
LEMMA StreamStep ==
  ASSUME TypeOK, StartShape, StreamCurrent, [Next]_vars
  PROVE  StreamCurrent'
<1>1. ASSUME NEW s \in Symbols, NEW leverage \in Leverages, ChangeLeverage(s, leverage)
      PROVE  StreamCurrent'
  <2> DEFINE e == [kind |-> "leverage", symbol |-> s, leverage |-> leverage]
  <2>1. e \in Event /\ Subject(e) = {s}
    BY PushedEvents
  <2>2. e.kind = "leverage" /\ e.symbol = s /\ e.leverage = leverage
    OBVIOUS
  <2>3. Change(e) /\ xStatus' = xStatus /\ xLeverage' = [xLeverage EXCEPT ![s] = leverage]
    BY <1>1 DEF ChangeLeverage
  <2> HIDE DEF e
  <2>4. /\ stream \in Seq(Event) /\ xLeverage'[s] = leverage
        /\ \A t \in Symbols : t # s => xLeverage'[t] = xLeverage[t]
    BY <2>3 DEF TypeOK
  <2>5. CASE link = "up"
    <3>0. /\ LastEventsCurrent(stream, xLeverage, xStatus)
          /\ \A t \in Symbols : t \notin Subject(e) => xLeverage'[t] = xLeverage[t]
          /\ \A id \in OrderIds : id \notin Subject(e) => xStatus'[id] = xStatus[id]
          /\ e.kind = "leverage" => e.leverage = xLeverage'[e.symbol]
          /\ e.kind = "order" => e.status = xStatus'[e.id]
      BY <2>1, <2>2, <2>3, <2>4, <2>5 DEF StreamCurrent
    <3>1. LastEventsCurrent(Append(stream, e), xLeverage', xStatus')
      BY <3>0, <2>1, <2>4, CurrentAppend
    <3> QED
      BY <3>1, <2>1, <2>3, <2>5, ChangeSteps DEF StreamCurrent
  <2>6. CASE link # "up"
    BY <2>1, <2>3, <2>6, ChangeSteps, EmptyCurrent DEF StreamCurrent, StartShape, TypeOK
  <2> QED
    BY <2>5, <2>6
<1>2. ASSUME NEW s \in Symbols, NEW side \in Sides, NEW quantity \in Quantities,
             ChangePosition(s, side, quantity)
      PROVE  StreamCurrent'
  <2> DEFINE e == [kind |-> "account"]
  <2>1. e \in Event /\ e.kind = "account"
    BY PushedEvents
  <2>2. Change(e) /\ xStatus' = xStatus /\ xLeverage' = xLeverage /\ stream \in Seq(Event)
    BY <1>2 DEF ChangePosition, TypeOK
  <2> HIDE DEF e
  <2>3. CASE link = "up"
    <3>1. LastEventsCurrent(Append(stream, e), xLeverage', xStatus')
      BY <2>1, <2>2, <2>3, CurrentAppend DEF StreamCurrent
    <3> QED
      BY <3>1, <2>1, <2>2, <2>3, ChangeSteps DEF StreamCurrent
  <2>4. CASE link # "up"
    BY <2>1, <2>2, <2>4, ChangeSteps, EmptyCurrent DEF StreamCurrent, StartShape, TypeOK
  <2> QED
    BY <2>3, <2>4
<1>3. ASSUME NEW id \in OrderIds, ChangeOrder(id)
      PROVE  StreamCurrent'
  <2> DEFINE e == [kind |-> "order", id |-> id, status |-> xStatus[id] + 1]
  <2>1. xStatus[id] + 1 \in Statuses \ {0}
    BY <1>3 DEF ChangeOrder, TypeOK, Statuses
  <2>2. e \in Event /\ Subject(e) = {id}
    BY <2>1, PushedEvents
  <2>3. e.kind = "order" /\ e.id = id /\ e.status = xStatus[id] + 1
    OBVIOUS
  <2>4. Change(e) /\ xLeverage' = xLeverage /\ xStatus' = [xStatus EXCEPT ![id] = @ + 1]
    BY <1>3 DEF ChangeOrder
  <2> HIDE DEF e
  <2>5. /\ stream \in Seq(Event) /\ xStatus'[id] = xStatus[id] + 1
        /\ \A i \in OrderIds : i # id => xStatus'[i] = xStatus[i]
    BY <2>4 DEF TypeOK
  <2>6. CASE link = "up"
    <3>0. /\ LastEventsCurrent(stream, xLeverage, xStatus)
          /\ \A s \in Symbols : s \notin Subject(e) => xLeverage'[s] = xLeverage[s]
          /\ \A i \in OrderIds : i \notin Subject(e) => xStatus'[i] = xStatus[i]
          /\ e.kind = "leverage" => e.leverage = xLeverage'[e.symbol]
          /\ e.kind = "order" => e.status = xStatus'[e.id]
      BY <2>2, <2>3, <2>4, <2>5, <2>6 DEF StreamCurrent
    <3>1. LastEventsCurrent(Append(stream, e), xLeverage', xStatus')
      BY <3>0, <2>2, <2>5, CurrentAppend
    <3> QED
      BY <3>1, <2>2, <2>4, <2>6, ChangeSteps DEF StreamCurrent
  <2>7. CASE link # "up"
    BY <2>2, <2>4, <2>7, ChangeSteps, EmptyCurrent DEF StreamCurrent, StartShape, TypeOK
  <2> QED
    BY <2>6, <2>7
<1>4. CASE ExpireListenKey
  BY <1>4 DEF ExpireListenKey, StreamCurrent
<1>5. CASE StreamDown
  BY <1>5, EmptyCurrent DEF StreamDown, StreamCurrent
<1>6. CASE StreamUp
  BY <1>6, EmptyCurrent DEF StreamUp, StreamCurrent, StartShape
<1>7. CASE APISubscribeToUserDataUpdates
  BY <1>7, CallNumbers, EmptyCurrent
     DEF APISubscribeToUserDataUpdates, StreamCurrent, StartShape, exchangeVars
<1>8. CASE \/ OnLeverageUpdate \/ OnOrderUpdate \/ OnOrderUpdateThrows \/ OnAccountUpdate
           \/ OnListenKeyExpired
  <2>1. PICK kind : Receive(kind)
    BY <1>8 DEF OnLeverageUpdate, OnOrderUpdate, OnOrderUpdateThrows, OnAccountUpdate,
       OnListenKeyExpired
  <2> QED
    BY <2>1, ReceiveSteps, CurrentTail DEF StreamCurrent, exchangeVars, linkVars
<1>9. CASE UNCHANGED <<link, stream, xLeverage, xStatus>>
  BY <1>9 DEF StreamCurrent
<1>10. ASSUME NEW a \in answer, StoreOrder(a) \/ StoreOrderThrows(a) \/ StoreLeverage(a)
       PROVE  UNCHANGED <<link, stream, xLeverage, xStatus>>
  BY <1>10 DEF StoreOrder, StoreOrderThrows, StoreLeverage, exchangeVars, linkVars
<1>11. ASSUME NEW a \in positionAnswer, StorePosition(a) \/ StorePositionThrows(a)
       PROVE  UNCHANGED <<link, stream, xLeverage, xStatus>>
  BY <1>11 DEF StorePosition, StorePositionThrows, exchangeVars, linkVars
<1>12. CASE \/ APIUpdateAllLeverageBracket \/ QueryOrders \/ QueryOrdersFails \/ ClearLeverages
            \/ QueryLeverages \/ QueryLeveragesFails \/ EndStore \/ QueryPositions
            \/ QueryPositionsFails \/ EndStorePositions \/ UNCHANGED vars
  BY <1>9, <1>12 DEF APIUpdateAllLeverageBracket, QueryOrders, QueryOrdersFails, ClearLeverages,
     QueryLeverages, QueryLeveragesFails, EndStore, QueryPositions, QueryPositionsFails,
     EndStorePositions, vars, exchangeVars, linkVars
<1> QED
  BY <1>1, <1>2, <1>3, <1>4, <1>5, <1>6, <1>7, <1>8, <1>9, <1>10, <1>11, <1>12 DEF Next

-----------------------------------------------------------------------------
(* Leverages. *)

(* A change is pushed, or missed; a query reads what the exchange has; the loop and
   the callback write what they hold, and the last of them is current. *)
LEMMA LeverageStep ==
  ASSUME TypeOK, StartShape, StreamCurrent, LeveragesFollow, [Next]_vars
  PROVE  LeveragesFollow'
<1> SUFFICES ASSUME link' # "none", NEW s \in Symbols, s \notin missed'
             PROVE  LeverageFollows(s)'
  BY DEF LeveragesFollow
<1> USE CallNumbers DEF LeverageFollows
<1>0. link # "none" /\ s \notin missed => LeverageFollows(s)
  BY DEF LeveragesFollow
<1>1. ASSUME NEW t \in Symbols, NEW leverage \in Leverages, ChangeLeverage(t, leverage)
      PROVE  LeverageFollows(s)'
  <2>1. PICK e \in Event : Change(e) /\ Subject(e) = {t}
    BY <1>1, PushedEvents DEF ChangeLeverage
  <2>2. /\ link # "none"
        /\ s = t => link # "down" /\ ~(step = 4 /\ \E a \in answer : a.key = s)
        /\ s # t => s \notin missed /\ xLeverage'[s] = xLeverage[s]
    BY <1>1, <2>1, ChangeSteps DEF ChangeLeverage, Misses, TypeOK
  <2>3. link = "up" \/ link = "down"
    BY <2>2 DEF TypeOK
  <2> QED
    BY <1>0, <2>1, <2>2, <2>3, ChangeSteps DEF startVars, mapVars
<1>2. ASSUME NEW t \in Symbols, NEW side \in Sides, NEW quantity \in Quantities,
             ChangePosition(t, side, quantity)
      PROVE  LeverageFollows(s)'
  <2>1. PICK e \in Event : Change(e)
    BY <1>2, PushedEvents DEF ChangePosition
  <2>2. s \notin missed /\ xLeverage' = xLeverage /\ link # "none"
    BY <1>2, <2>1, ChangeSteps DEF ChangePosition
  <2> QED
    BY <1>0, <2>1, <2>2, ChangeSteps DEF startVars, mapVars
<1>3. ASSUME NEW id \in OrderIds, ChangeOrder(id)
      PROVE  LeverageFollows(s)'
  <2>1. PICK e \in Event : Change(e)
    BY <1>3, OrderEvent
  <2>2. s \notin missed /\ xLeverage' = xLeverage /\ link # "none"
    BY <1>3, <2>1, ChangeSteps, KeysAssumption DEF ChangeOrder, Misses
  <2> QED
    BY <1>0, <2>1, <2>2, ChangeSteps DEF startVars, mapVars
<1>4. CASE ExpireListenKey
  BY <1>4 DEF ExpireListenKey
<1>5. CASE StreamDown
  <2>1. NoneFor(stream, s)
    BY <1>5 DEF StreamDown, NoneFor, TypeOK
  <2> QED
    BY <1>0, <1>5, <2>1 DEF StreamDown, exchangeVars, startVars, mapVars
<1>6. CASE StreamUp
  BY <1>0, <1>6 DEF StreamUp, exchangeVars, startVars, mapVars
<1>7. CASE APISubscribeToUserDataUpdates \/ APIUpdateAllLeverageBracket
  BY <1>7 DEF APISubscribeToUserDataUpdates, APIUpdateAllLeverageBracket, Advance
<1>8. CASE QueryOrders \/ QueryOrdersFails
  BY <1>8 DEF QueryOrders, QueryOrdersFails
<1>9. ASSUME NEW a \in answer, StoreOrder(a) \/ StoreOrderThrows(a)
      PROVE  LeverageFollows(s)'
  BY <1>9 DEF StoreOrder, StoreOrderThrows
<1>10. ASSUME NEW a \in answer, StoreLeverage(a)
       PROVE  LeverageFollows(s)'
  <2>1. a.key \in Symbols /\ link # "none" /\ s \notin missed /\ xLeverage' = xLeverage /\ stream' = stream
    BY <1>10 DEF StoreLeverage, StartShape, linkVars, exchangeVars
  <2> QED
    BY <1>0, <1>10, <2>1 DEF StoreLeverage, TypeOK
<1>11. CASE ClearLeverages
  BY <1>0, <1>11 DEF ClearLeverages, exchangeVars, linkVars
<1>12. CASE QueryLeverages
  <2>1. [key |-> s, value |-> xLeverage[s]] \in answer'
    BY <1>12 DEF QueryLeverages
  <2>2. \A a \in answer' : a.key = s => a.value = xLeverage[s]
    BY <1>12 DEF QueryLeverages
  <2>3. \E a \in answer' : a.key = s
    BY <2>1
  <2>4. step = 4 /\ step' = step /\ xLeverage' = xLeverage
    BY <1>12 DEF QueryLeverages, exchangeVars
  <2> QED
    BY <2>2, <2>3, <2>4
<1>13. CASE QueryLeveragesFails
  BY <1>13 DEF QueryLeveragesFails
<1>14. CASE EndStore
  BY <1>0, <1>14 DEF EndStore, Advance, StartShape, exchangeVars, linkVars, mapVars
<1>15. CASE OnLeverageUpdate
  <2>1. Receive("leverage")
    BY <1>15 DEF OnLeverageUpdate
  <2>2. /\ Head(stream).symbol \in Symbols /\ Subject(Head(stream)) = {Head(stream).symbol}
        /\ LeverageSettingsDataMap' =
             [LeverageSettingsDataMap EXCEPT ![Head(stream).symbol] = Head(stream).leverage]
        /\ missed' = missed
    BY <1>15, <2>1, ReceiveSteps, EventKinds DEF OnLeverageUpdate
  <2>3. link # "none" /\ xLeverage' = xLeverage /\ UNCHANGED startVars
    BY <2>1 DEF Receive, exchangeVars, linkVars
  <2>4. CASE Head(stream).symbol = s
    <3>1. NoneFor(stream', s) => Head(stream).leverage = xLeverage[s]
      BY <2>1, <2>3, <2>4, ReceiveSteps, CurrentTail DEF StreamCurrent
    <3> QED
      BY <1>0, <2>2, <2>3, <2>4, <3>1 DEF startVars, TypeOK
  <2>5. CASE Head(stream).symbol # s
    BY <1>0, <2>1, <2>2, <2>3, <2>5, ReceiveSteps DEF startVars, TypeOK
  <2> QED
    BY <2>4, <2>5
<1>16. CASE OnOrderUpdate \/ OnOrderUpdateThrows \/ OnAccountUpdate \/ OnListenKeyExpired
  <2>1. PICK kind \in {"order", "account", "expired"} : Receive(kind)
    BY <1>16 DEF OnOrderUpdate, OnOrderUpdateThrows, OnAccountUpdate, OnListenKeyExpired
  <2>2. s \notin Subject(Head(stream))
    BY <2>1, ReceiveSteps, EventKinds, KeysAssumption
  <2> QED
    BY <1>0, <1>16, <2>1, <2>2, ReceiveSteps
       DEF OnOrderUpdate, OnOrderUpdateThrows, OnAccountUpdate, OnListenKeyExpired, mapVars,
           exchangeVars, linkVars, startVars
<1>17. ASSUME NEW a \in positionAnswer, StorePosition(a) \/ StorePositionThrows(a)
       PROVE  LeverageFollows(s)'
  BY <1>0, <1>17 DEF StorePosition, StorePositionThrows, exchangeVars, linkVars, startVars
<1>18. CASE QueryPositions
  BY <1>0, <1>18, KeysAssumption DEF QueryPositions, exchangeVars, linkVars, startVars, mapVars
<1>19. CASE QueryPositionsFails \/ EndStorePositions \/ UNCHANGED vars
  BY <1>0, <1>19 DEF QueryPositionsFails, EndStorePositions, vars, exchangeVars, linkVars, startVars, mapVars
<1> QED
  BY <1>1, <1>2, <1>3, <1>4, <1>5, <1>6, <1>7, <1>8, <1>9, <1>10, <1>11, <1>12, <1>13,
     <1>14, <1>15, <1>16, <1>17, <1>18, <1>19 DEF Next

-----------------------------------------------------------------------------
(* Orders. *)

(* The same for orders, where loop and callback may write at two keys: no other
   order has either of them. *)
LEMMA OrderStep ==
  ASSUME TypeOK, StartShape, StreamCurrent, OrdersFollow, [Next]_vars
  PROVE  OrdersFollow'
<1> SUFFICES ASSUME link' # "none", NEW id \in OrderIds, id \notin missed', xStatus'[id] # 0
             PROVE  OrderFollows(id)'
  BY DEF OrdersFollow
<1> USE CallNumbers DEF OrderFollows, Stored, Entry
<1>0. link # "none" /\ id \notin missed /\ xStatus[id] # 0 => OrderFollows(id)
  BY DEF OrdersFollow
<1>1. ASSUME NEW t \in Symbols, NEW leverage \in Leverages, ChangeLeverage(t, leverage)
      PROVE  OrderFollows(id)'
  <2>1. PICK e \in Event : Change(e)
    BY <1>1, PushedEvents DEF ChangeLeverage
  <2>2. id \notin missed /\ xStatus' = xStatus /\ link # "none"
    BY <1>1, <2>1, ChangeSteps, KeysAssumption DEF ChangeLeverage, Misses
  <2> QED
    BY <1>0, <2>1, <2>2, ChangeSteps DEF startVars, mapVars
<1>2. ASSUME NEW t \in Symbols, NEW side \in Sides, NEW quantity \in Quantities,
             ChangePosition(t, side, quantity)
      PROVE  OrderFollows(id)'
  <2>1. PICK e \in Event : Change(e)
    BY <1>2, PushedEvents DEF ChangePosition
  <2>2. id \notin missed /\ xStatus' = xStatus /\ link # "none"
    BY <1>2, <2>1, ChangeSteps DEF ChangePosition
  <2> QED
    BY <1>0, <2>1, <2>2, ChangeSteps DEF startVars, mapVars
<1>3. ASSUME NEW i \in OrderIds, ChangeOrder(i)
      PROVE  OrderFollows(id)'
  <2>1. PICK e \in Event : Change(e) /\ Subject(e) = {i}
    BY <1>3, OrderEvent
  <2>2. /\ link # "none"
        /\ id = i => link # "down" /\ ~(step = 3 /\ \E a \in answer : a.key = id)
        /\ id # i => id \notin missed /\ xStatus'[id] = xStatus[id]
    BY <1>3, <2>1, ChangeSteps DEF ChangeOrder, Misses, TypeOK
  <2>3. link = "up" \/ link = "down"
    BY <2>2 DEF TypeOK
  <2> QED
    BY <1>0, <2>1, <2>2, <2>3, ChangeSteps DEF startVars, mapVars
<1>4. CASE ExpireListenKey
  BY <1>4 DEF ExpireListenKey
<1>5. CASE StreamDown
  <2>1. NoneFor(stream, id)
    BY <1>5 DEF StreamDown, NoneFor, TypeOK
  <2> QED
    BY <1>0, <1>5, <2>1 DEF StreamDown, exchangeVars, startVars, mapVars
<1>6. CASE StreamUp
  BY <1>0, <1>6 DEF StreamUp, exchangeVars, startVars, mapVars
<1>7. CASE APISubscribeToUserDataUpdates \/ APIUpdateAllLeverageBracket
  <2>1. step' \in {2, 3} /\ pc' = "call" /\ answer' = {}
    BY <1>7 DEF APISubscribeToUserDataUpdates, APIUpdateAllLeverageBracket, Advance
  <2> QED
    BY <2>1
<1>8. CASE QueryOrders
  <2>1. [key |-> id, value |-> Entry(id)] \in answer'
    BY <1>8 DEF QueryOrders, exchangeVars
  <2>2. \A a \in answer' : a.key = id => a.value = Entry(id)
    BY <1>8 DEF QueryOrders
  <2>3. \E a \in answer' : a.key = id
    BY <2>1
  <2>4. step = 3 /\ step' = step /\ xStatus' = xStatus
    BY <1>8 DEF QueryOrders, exchangeVars
  <2> QED
    BY <2>2, <2>3, <2>4
<1>9. ASSUME \/ QueryOrdersFails
             \/ \E a \in answer : StoreOrderThrows(a)
      PROVE  OrderFollows(id)'
  BY <1>0, <1>9 DEF QueryOrdersFails, StoreOrderThrows, exchangeVars, linkVars
<1>10. ASSUME NEW a \in answer, StoreOrder(a)
       PROVE  OrderFollows(id)'
  <2>1. /\ a.key \in OrderIds /\ a.value \in OrderEntry /\ step = 3 /\ step' = 3
        /\ answer' = answer \ {a} /\ pc = "store"
        /\ OpenOrderInfoMap' = [OpenOrderInfoMap EXCEPT ![a.key] = a.value]
    BY <1>10 DEF StoreOrder, StartShape
  <2>2. link # "none" /\ id \notin missed /\ xStatus' = xStatus /\ stream' = stream
    BY <1>10 DEF StoreOrder, linkVars, exchangeVars
  <2>3. OrderFollows(id)
    BY <1>0, <2>2
  <2>4. id \in Keys /\ StreamKey(id) \in Keys
    BY DEF Keys
  <2>5. CASE a.key = id
    <3>1. OpenOrderInfoMap'[id] = Entry(id)
      BY <2>1, <2>3, <2>4, <2>5 DEF TypeOK
    <3> QED
      BY <2>1, <2>2, <2>3, <3>1
  <2>6. CASE a.key # id
    <3>1. \A key \in {id, StreamKey(id)} : OpenOrderInfoMap'[key] = OpenOrderInfoMap[key]
      BY <2>1, <2>4, <2>6, DistinctKeysAssumption DEF TypeOK
    <3>2. \A b : b \in answer /\ b.key = id => b \in answer'
      BY <2>1, <2>6
    <3> QED
      BY <1>10, <2>1, <2>2, <2>3, <3>1, <3>2
  <2> QED
    BY <2>5, <2>6
<1>11. ASSUME NEW a \in answer, StoreLeverage(a)
       PROVE  OrderFollows(id)'
  BY <1>0, <1>11 DEF StoreLeverage, exchangeVars, linkVars
<1>12. CASE ClearLeverages
  BY <1>0, <1>12 DEF ClearLeverages, exchangeVars, linkVars
<1>13. CASE QueryLeverages
  BY <1>0, <1>13, KeysAssumption DEF QueryLeverages, exchangeVars, linkVars, mapVars
<1>14. CASE QueryLeveragesFails
  BY <1>0, <1>14 DEF QueryLeveragesFails, Advance, exchangeVars, linkVars, mapVars
<1>15. CASE EndStore
  BY <1>0, <1>15 DEF EndStore, Advance, StartShape, exchangeVars, linkVars, mapVars
<1>16. CASE OnOrderUpdate
  <2>1. Receive("order")
    BY <1>16 DEF OnOrderUpdate
  <2> DEFINE e == Head(stream)
  <2>2. /\ e.id \in OrderIds /\ Subject(e) = {e.id} /\ missed' = missed
        /\ OpenOrderInfoMap' =
             [OpenOrderInfoMap EXCEPT ![StreamKey(e.id)] = [id |-> e.id, status |-> e.status]]
    BY <1>16, <2>1, ReceiveSteps, EventKinds DEF OnOrderUpdate
  <2>3. link # "none" /\ xStatus' = xStatus /\ UNCHANGED startVars
    BY <2>1 DEF Receive, exchangeVars, linkVars
  <2>4. id \in Keys /\ StreamKey(id) \in Keys
    BY DEF Keys
  <2>5. CASE e.id = id
    <3>1. NoneFor(stream', id) => e.status = xStatus[id]
      BY <2>1, <2>3, <2>5, ReceiveSteps, CurrentTail DEF StreamCurrent
    <3>2. NoneFor(stream', id) => OpenOrderInfoMap'[StreamKey(id)] = Entry(id)
      <4>1. StreamKey(id) \in DOMAIN OpenOrderInfoMap
        BY <2>4 DEF TypeOK
      <4>2. OpenOrderInfoMap'[StreamKey(id)] = [id |-> id, status |-> e.status]
        BY <2>2, <2>5, <4>1
      <4> QED
        BY <3>1, <4>2
    <3> QED
      BY <1>0, <2>2, <2>3, <3>2 DEF startVars
  <2>6. CASE e.id # id
    <3>1. \A key \in {id, StreamKey(id)} : OpenOrderInfoMap'[key] = OpenOrderInfoMap[key]
      BY <2>2, <2>4, <2>6, DistinctKeysAssumption DEF TypeOK
    <3>2. NoneFor(stream', id) => NoneFor(stream, id)
      BY <2>1, <2>2, <2>6, ReceiveSteps
    <3> QED
      BY <1>0, <2>2, <2>3, <3>1, <3>2 DEF startVars
  <2> QED
    BY <2>5, <2>6
<1>21. CASE OnOrderUpdateThrows
  <2>1. Receive("order") /\ Unconvertible(Head(stream).id, Head(stream).status)
    BY <1>21 DEF OnOrderUpdateThrows
  <2>2. /\ link # "none" /\ id \notin missed /\ xStatus' = xStatus
        /\ UNCHANGED startVars /\ OpenOrderInfoMap' = OpenOrderInfoMap
    BY <1>21, <2>1 DEF OnOrderUpdateThrows, Receive, exchangeVars, linkVars, mapVars
  <2>3. Subject(Head(stream)) = {Head(stream).id}
    BY <2>1, ReceiveSteps, EventKinds
  <2>4. CASE Head(stream).id = id
    <3>1. NoneFor(stream', id) => Unconvertible(id, xStatus[id])
      BY <2>1, <2>2, <2>4, ReceiveSteps, CurrentTail DEF StreamCurrent
    <3> QED
      BY <1>0, <2>2, <3>1 DEF startVars
  <2>5. CASE Head(stream).id # id
    <3>1. NoneFor(stream', id) => NoneFor(stream, id)
      BY <2>1, <2>3, <2>5, ReceiveSteps
    <3> QED
      BY <1>0, <2>2, <3>1 DEF startVars
  <2> QED
    BY <2>4, <2>5
<1>17. CASE OnLeverageUpdate \/ OnAccountUpdate \/ OnListenKeyExpired
  <2>1. PICK kind \in {"leverage", "account", "expired"} : Receive(kind)
    BY <1>17 DEF OnLeverageUpdate, OnAccountUpdate, OnListenKeyExpired
  <2>2. id \notin Subject(Head(stream))
    BY <2>1, ReceiveSteps, EventKinds, KeysAssumption
  <2> QED
    BY <1>0, <1>17, <2>1, <2>2, ReceiveSteps
       DEF OnLeverageUpdate, OnAccountUpdate, OnListenKeyExpired, mapVars, exchangeVars, linkVars, startVars
<1>18. ASSUME NEW a \in positionAnswer, StorePosition(a) \/ StorePositionThrows(a)
       PROVE  OrderFollows(id)'
  BY <1>0, <1>18 DEF StorePosition, StorePositionThrows, exchangeVars, linkVars, startVars
<1>19. CASE QueryPositions
  BY <1>0, <1>19, KeysAssumption DEF QueryPositions, exchangeVars, linkVars, startVars, mapVars
<1>20. CASE QueryPositionsFails \/ EndStorePositions \/ UNCHANGED vars
  BY <1>0, <1>20 DEF QueryPositionsFails, EndStorePositions, vars, exchangeVars, linkVars, startVars, mapVars
<1> QED
  BY <1>1, <1>2, <1>3, <1>4, <1>5, <1>6, <1>7, <1>8, <1>9, <1>10, <1>11, <1>12, <1>13,
     <1>14, <1>15, <1>16, <1>17, <1>18, <1>19, <1>20, <1>21 DEF Next

-----------------------------------------------------------------------------
(* Positions. *)

(* Only the callback of an account update clears and fills the positions. *)
LEMMA EmptiedStep ==
  ASSUME TypeOK, StartShape, PositionsEmptied, [Next]_vars
  PROVE  PositionsEmptied'
<1> USE DEF PositionsEmptied
<1> DEFINE unchanged == UNCHANGED <<hedged, callback, positionAnswer, refreshed, PositionInfoMap>>
<1>1. CASE unchanged
  BY <1>1 DEF EmptyMap, Sides
<1>2. ASSUME NEW s \in Symbols, NEW leverage \in Leverages, ChangeLeverage(s, leverage)
      PROVE  unchanged
  BY <1>2 DEF ChangeLeverage, Change, callbackVars, mapVars
<1>3. ASSUME NEW s \in Symbols, NEW side \in Sides, NEW quantity \in Quantities,
             ChangePosition(s, side, quantity)
      PROVE  unchanged
  BY <1>3 DEF ChangePosition, Change, callbackVars, mapVars
<1>4. ASSUME NEW id \in OrderIds, ChangeOrder(id)
      PROVE  unchanged
  BY <1>4 DEF ChangeOrder, Change, callbackVars, mapVars
<1>5. ASSUME NEW a \in answer, StoreOrder(a) \/ StoreOrderThrows(a) \/ StoreLeverage(a)
      PROVE  unchanged
  BY <1>5 DEF StoreOrder, StoreOrderThrows, StoreLeverage, exchangeVars, callbackVars, mapVars
<1>6. CASE \/ ExpireListenKey \/ StreamDown \/ StreamUp \/ APISubscribeToUserDataUpdates
           \/ APIUpdateAllLeverageBracket \/ QueryOrders \/ QueryOrdersFails \/ ClearLeverages
           \/ QueryLeverages \/ QueryLeveragesFails \/ EndStore
  BY <1>1, <1>6 DEF ExpireListenKey, StreamDown, StreamUp, APISubscribeToUserDataUpdates,
     APIUpdateAllLeverageBracket, QueryOrders, QueryOrdersFails, ClearLeverages, QueryLeverages,
     QueryLeveragesFails, EndStore, exchangeVars, callbackVars, mapVars
<1>7. CASE \/ OnLeverageUpdate \/ OnOrderUpdate \/ OnOrderUpdateThrows \/ OnListenKeyExpired
           \/ UNCHANGED vars
  BY <1>1, <1>7 DEF OnLeverageUpdate, OnOrderUpdate, OnOrderUpdateThrows, OnListenKeyExpired,
     Receive, vars, exchangeVars, callbackVars, mapVars
<1>8. CASE OnAccountUpdate
  BY <1>8 DEF OnAccountUpdate, EmptyMap
<1>9. CASE QueryPositions
  <2>1. \A a \in positionAnswer' : a.value.side \in Sides
    BY <1>9 DEF QueryPositions
  <2> QED
    BY <1>9, <2>1 DEF QueryPositions, EmptyMap, Sides, exchangeVars, mapVars
<1>10. CASE QueryPositionsFails \/ EndStorePositions
  BY <1>10 DEF QueryPositionsFails, EndStorePositions, EmptyMap, mapVars
<1>11. ASSUME NEW a \in positionAnswer, StorePosition(a)
       PROVE  PositionsEmptied'
  BY <1>11 DEF StorePosition, Sides, exchangeVars
<1>12. ASSUME NEW a \in positionAnswer, StorePositionThrows(a)
       PROVE  PositionsEmptied'
  BY <1>12 DEF StorePositionThrows, Sides, EmptyMap, TypeOK
<1> QED
  BY <1>1, <1>2, <1>3, <1>4, <1>5, <1>6, <1>7, <1>8, <1>9, <1>10, <1>11, <1>12 DEF Next

(* An account event under way, a query not yet answered and an answer not yet
   stored stand in for the positions in turn. *)
LEMMA PositionStep ==
  ASSUME TypeOK, StartShape, PositionsEmptied, PositionsFollow, [Next]_vars
  PROVE  PositionsFollow'
<1> SUFFICES ASSUME link' # "none", AllPositions \notin missed', NoneFor(stream', AllPositions),
                    NEW s \in Symbols
             PROVE  PositionFollows(s)'
  BY DEF PositionsFollow
<1> USE DEF PositionFollows, Copied, Holding, Sides
<1>0. link # "none" /\ AllPositions \notin missed /\ NoneFor(stream, AllPositions) =>
        PositionFollows(s)
  BY DEF PositionsFollow
<1>1. ASSUME NEW e \in Event, Change(e), UNCHANGED <<hedged, xPosition>>,
             AllPositions \notin missed' => AllPositions \notin missed
      PROVE  PositionFollows(s)'
  <2>1. NoneFor(stream, AllPositions) /\ link # "none"
    BY <1>1, ChangeSteps DEF TypeOK
  <2> QED
    BY <1>0, <1>1, <2>1 DEF Change, callbackVars, mapVars
<1>2. ASSUME NEW t \in Symbols, NEW leverage \in Leverages, ChangeLeverage(t, leverage)
      PROVE  PositionFollows(s)'
  <2>1. PICK e \in Event : Change(e)
    BY <1>2, PushedEvents DEF ChangeLeverage
  <2> QED
    BY <1>1, <1>2, <2>1, KeysAssumption DEF ChangeLeverage, Misses
<1>3. ASSUME NEW id \in OrderIds, ChangeOrder(id)
      PROVE  PositionFollows(s)'
  <2>1. PICK e \in Event : Change(e)
    BY <1>3, OrderEvent
  <2> QED
    BY <1>1, <1>3, <2>1, KeysAssumption DEF ChangeOrder, Misses
<1>4. ASSUME NEW t \in Symbols, NEW side \in Sides, NEW quantity \in Quantities,
             ChangePosition(t, side, quantity)
      PROVE  FALSE
  <2>1. PICK e \in Event : Change(e) /\ Subject(e) = {AllPositions}
    BY <1>4, PushedEvents DEF ChangePosition
  <2>2. link = "up"
    BY <1>4, <2>1, ChangeSteps DEF ChangePosition, TypeOK
  <2> QED
    BY <2>1, <2>2, ChangeSteps
<1>5. CASE ExpireListenKey
  BY <1>5 DEF ExpireListenKey
<1>6. CASE StreamDown
  <2>1. NoneFor(stream, AllPositions) /\ AllPositions \notin missed
    BY <1>6 DEF StreamDown, NoneFor, TypeOK
  <2> QED
    BY <1>0, <1>6, <2>1 DEF StreamDown, exchangeVars, callbackVars, mapVars
<1>7. CASE StreamUp
  BY <1>0, <1>7 DEF StreamUp, exchangeVars, callbackVars, mapVars
<1>8. CASE APISubscribeToUserDataUpdates
  BY <1>8, CallNumbers DEF APISubscribeToUserDataUpdates, StartShape, callbackVars
<1>9. CASE UNCHANGED <<hedged, xPosition, stream, link, callback, positionAnswer, refreshed,
                        PositionInfoMap>>
           /\ (AllPositions \notin missed' => AllPositions \notin missed)
  BY <1>0, <1>9
<1>10. ASSUME NEW a \in answer, StoreOrder(a) \/ StoreOrderThrows(a) \/ StoreLeverage(a)
       PROVE  PositionFollows(s)'
  BY <1>9, <1>10 DEF StoreOrder, StoreOrderThrows, StoreLeverage, exchangeVars, linkVars,
     callbackVars, mapVars
<1>11. CASE \/ APIUpdateAllLeverageBracket \/ QueryOrders \/ QueryOrdersFails \/ ClearLeverages
            \/ QueryLeverages \/ QueryLeveragesFails \/ EndStore \/ UNCHANGED vars
  BY <1>9, <1>11, KeysAssumption DEF APIUpdateAllLeverageBracket, QueryOrders, QueryOrdersFails,
     ClearLeverages, QueryLeverages, QueryLeveragesFails, EndStore, vars, exchangeVars, linkVars,
     callbackVars, mapVars
<1>12. CASE OnLeverageUpdate \/ OnOrderUpdate \/ OnOrderUpdateThrows \/ OnListenKeyExpired
  <2>1. PICK kind \in {"leverage", "order", "expired"} : Receive(kind)
    BY <1>12 DEF OnLeverageUpdate, OnOrderUpdate, OnOrderUpdateThrows, OnListenKeyExpired
  <2>2. NoneFor(stream, AllPositions)
    BY <2>1, ReceiveSteps, EventKinds, KeysAssumption
  <2>3. UNCHANGED <<hedged, xPosition, link>>
    BY <2>1, ReceiveSteps DEF exchangeVars, linkVars
  <2>4. UNCHANGED <<callback, positionAnswer, refreshed, PositionInfoMap, missed>>
    BY <1>12 DEF OnLeverageUpdate, OnOrderUpdate, OnOrderUpdateThrows, OnListenKeyExpired,
       mapVars, callbackVars
  <2> QED
    BY <1>0, <2>2, <2>3, <2>4
<1>13. CASE OnAccountUpdate
  BY <1>13 DEF OnAccountUpdate
<1>14. CASE QueryPositions
  <2>1. PositionInfoMap'[s] = Missing
    BY <1>14 DEF QueryPositions, PositionsEmptied, EmptyMap, mapVars
  <2>2. /\ \A a \in positionAnswer' : a.key = s => \E side \in Sides : a.value = Holding(s, side)
        /\ \A side \in Sides : xPosition[<<s, side>>] # 0 => \E a \in positionAnswer' : a.key = s
    <3>1. PICK answered \in SUBSET (Symbols \X Sides) :
            /\ \A p \in Symbols \X Sides : xPosition[p] # 0 => p \in answered
            /\ positionAnswer' =
                 {[key |-> p[1], value |-> [side |-> p[2], quantity |-> xPosition[p]]] : p \in answered}
      BY <1>14 DEF QueryPositions
    <3> HIDE DEF Sides
    <3>2. \A a \in positionAnswer' : a.key = s => \E side \in Sides : a.value = Holding(s, side)
      BY <3>1
    <3>3. ASSUME NEW side \in Sides, xPosition[<<s, side>>] # 0
          PROVE  [key |-> s, value |-> Holding(s, side)] \in positionAnswer'
      BY <3>1, <3>3
    <3> QED
      BY <3>2, <3>3
  <2>4. UNCHANGED <<hedged, xPosition>> /\ callback' = "store"
    BY <1>14 DEF QueryPositions, exchangeVars
  <2> QED
    BY <2>1, <2>2, <2>4
<1>15. ASSUME \/ QueryPositionsFails
              \/ \E a \in positionAnswer : StorePositionThrows(a)
       PROVE  PositionFollows(s)'
  BY <1>15 DEF QueryPositionsFails, StorePositionThrows
<1>16. ASSUME NEW a \in positionAnswer, StorePosition(a)
       PROVE  PositionFollows(s)'
  <2>1. /\ PositionFollows(s) /\ callback = "store" /\ callback' = "store"
        /\ UNCHANGED <<hedged, xPosition>>
    BY <1>0, <1>16 DEF StorePosition, linkVars, exchangeVars
  <2>2. /\ positionAnswer' = positionAnswer \ {a}
        /\ PositionInfoMap' = [PositionInfoMap EXCEPT ![a.key] = a.value]
    BY <1>16 DEF StorePosition
  <2>3. CASE a.key = s
    BY <1>16, <2>1, <2>2, <2>3 DEF TypeOK
  <2>4. CASE a.key # s
    <3>1. PositionInfoMap'[s] = PositionInfoMap[s]
      BY <2>2, <2>4 DEF TypeOK
    <3>2. \A b : b \in positionAnswer /\ b.key = s => b \in positionAnswer'
      BY <2>2, <2>4
    <3> QED
      BY <2>1, <2>2, <3>1, <3>2
  <2> QED
    BY <2>3, <2>4
<1>17. CASE EndStorePositions
  BY <1>0, <1>17 DEF EndStorePositions, exchangeVars, linkVars, mapVars
<1> QED
  BY <1>2, <1>3, <1>4, <1>6, <1>5, <1>7, <1>8, <1>10, <1>11, <1>12, <1>13, <1>14, <1>15,
     <1>16, <1>17 DEF Next

-----------------------------------------------------------------------------
(* The theorems. *)

(* Nothing is copied or under way at first. *)
LEMMA InitInvariant == Init => IInv
<1> SUFFICES ASSUME Init PROVE IInv
  OBVIOUS
<1>1. TypeOK
  BY BoundAssumption, CallNumbers DEF Init, TypeOK, EmptyMap, Statuses, StartCalls
<1>2. StartShape
  BY DEF Init, StartShape
<1>3. StreamCurrent /\ LeveragesFollow /\ OrdersFollow /\ PositionsEmptied /\ PositionsFollow
  BY DEF Init, StreamCurrent, LeveragesFollow, OrdersFollow, PositionsEmptied, PositionsFollow
<1> QED
  BY <1>1, <1>2, <1>3 DEF IInv

(* The inductive invariant: types, OnStart, stream, and the three copies. *)
THEOREM AccountInvariant == Spec => []IInv
<1>1. IInv /\ [Next]_vars => IInv'
  BY TypeStep, ShapeStep, StreamStep, LeverageStep, OrderStep, EmptiedStep, PositionStep DEF IInv
<1> QED
  BY InitInvariant, <1>1, PTL DEF Spec

(* Every variable of the account model is of its type. *)
THEOREM TypesCorrect == Spec => []TypeOK
<1>1. IInv => TypeOK
  BY DEF IInv
<1> QED
  BY AccountInvariant, <1>1, PTL

(* The settings stored by APIUpdateAllLeverageSettings and by OnLeverageUpdate,
   on two threads and without a lock, are the exchange's once all is quiet. *)
THEOREM LeverageSettles == Spec => []LeverageSettled
<1>1. IInv => LeverageSettled
  <2> SUFFICES ASSUME IInv, Quiet, NEW s \in Symbols \ missed
               PROVE  LeverageSettingsDataMap[s] = xLeverage[s]
    BY DEF LeverageSettled
  <2>1. step = 5 /\ link = "up" /\ NoneFor(stream, s)
    BY CallNumbers, EmptyStream DEF IInv, Quiet
  <2> QED
    BY <2>1 DEF IInv, LeveragesFollow, LeverageFollows
<1> QED
  BY AccountInvariant, <1>1, PTL

(* The last status of an order, unless Converter throws on it, is stored under its
   id or under what Converter.ToOrderStatusInfo makes of it, whichever of loop and
   callback wrote last and whichever other updates were lost to the converter. *)
THEOREM OrdersSettle == Spec => []OrdersSettled
<1>1. IInv => OrdersSettled
  <2> SUFFICES ASSUME IInv, Quiet, NEW id \in OrderIds \ missed, xStatus[id] # 0,
                      ~Unconvertible(id, xStatus[id])
               PROVE  Stored(id)
    BY DEF OrdersSettled, Stored, Entry
  <2>1. step = 5 /\ link = "up" /\ NoneFor(stream, id)
    BY CallNumbers, EmptyStream DEF IInv, Quiet
  <2> QED
    BY <2>1 DEF IInv, OrdersFollow, OrderFollows
<1> QED
  BY AccountInvariant, <1>1, PTL

(* APIUpdateAllPositionInfo inside the callback of the last account update leaves
   of each symbol one of the exchange's positions, and nothing only if there is
   none; nothing if its query failed, and no quantity if the conversion threw. *)
THEOREM PositionsSettle == Spec => []PositionsSettled
<1>1. IInv => PositionsSettled
  <2> SUFFICES ASSUME IInv, Quiet
               PROVE  PositionsSettled
    BY DEF PositionsSettled
  <2>1. link = "up" /\ NoneFor(stream, AllPositions) /\ callback = "idle"
    BY EmptyStream DEF Quiet
  <2> QED
    BY <2>1 DEF IInv, PositionsSettled, PositionsEmptied, PositionsFollow, PositionFollows,
       Copied, Holding
<1> QED
  BY AccountInvariant, <1>1, PTL

=============================================================================
