--------------------------- MODULE TradingAccount ---------------------------
(***************************************************************************)
(* How TradingService keeps its copies of the account: leverage settings,  *)
(* positions and open orders.  OnStart subscribes to the user data stream  *)
(* and then queries the exchange, so a query and the callbacks of the      *)
(* stream run on two threads.  A query is a request, an answer taken from  *)
(* the exchange's state at one instant, and a loop that stores the answer  *)
(* entry by entry; none of it holds a lock.  The stream delivers events in *)
(* order and runs one callback at a time; it catches what a callback       *)
(* throws and goes on with the next event.  What leaves OnStart ends the    *)
(* program.                                                                *)
(*                                                                         *)
(* A dictionary is a function whose missing keys map to Missing.           *)
(***************************************************************************)
EXTENDS Integers, Sequences, FiniteSets

CONSTANTS
  Symbols,     (* Contracts.                                                *)
  Leverages,   (* Leverage settings.                                        *)
  Quantities,  (* Position sizes; 0 is no position.                         *)
  OrderIds,    (* Order ids of the exchange, 64 bits wide.                  *)
  UnmappedOrders,(* Those whose type or time in force Converter has not got. *)
  UnmappedEnds,(* Those that end in a status Converter has not got.         *)
  Width,       (* Bits of the int the stream's order ids are cast to.       *)
  AllPositions,(* Stands for the positions among what can be missed.        *)
  Missing,     (* The value of a key that is not in a dictionary.           *)
  MaxChanges,  (* Bound: changes of the account at the exchange.            *)
  MaxPending,  (* Bound: events sent and not yet handled.                   *)
  MaxOutages   (* Bound: times the stream's connection breaks down.         *)

ASSUME SymbolsAssumption == IsFiniteSet(Symbols) /\ Symbols # {}
ASSUME NumbersAssumption ==
  /\ 0 \in Quantities /\ Quantities \subseteq Int
  /\ OrderIds \subseteq Nat
  /\ UnmappedOrders \subseteq OrderIds /\ UnmappedEnds \subseteq OrderIds
  /\ Width \in Nat \ {0}
ASSUME KeysAssumption ==
  Symbols \intersect OrderIds = {} /\ AllPositions \notin Symbols \union OrderIds
ASSUME MissingAssumption == Missing \notin Leverages \union Quantities
ASSUME BoundAssumption == MaxChanges \in Nat /\ MaxPending \in Nat /\ MaxOutages \in Nat

VARIABLES
  xLeverage,       (* The exchange: leverage of each symbol.                 *)
  hedged,          (* The exchange: a symbol has a long and a short position. *)
  xPosition,       (* The exchange: position of each symbol and side.        *)
  xStatus,         (* The exchange: life of each order, 0 before it exists.  *)
  changes,         (* The exchange: how many changes so far.                 *)
  outages,         (* How many times the connection broke down.              *)
  stream,          (* User data events under way, oldest first.              *)
  link,            (* The stream's connection: none, up, or down for a while.   *)
  step,            (* OnStart: the call it is in, an index into StartCalls.  *)
  pc,              (* OnStart: where in that call.                           *)
  answer,          (* OnStart: what the query returned and is yet to store.  *)
  callback,        (* The callback thread: idle, or in the position query.   *)
  positionAnswer,  (* The callback thread: positions yet to be stored.       *)
  LeverageSettingsDataMap,
  PositionInfoMap,
  OpenOrderInfoMap,
  refreshed,       (* History: how the last position query ended.            *)
  missed           (* History: keys whose last change may not be in the copies. *)

exchangeVars == <<xLeverage, hedged, xPosition, xStatus, changes>>
startVars    == <<step, pc, answer>>
callbackVars == <<callback, positionAnswer, refreshed>>
mapVars      == <<LeverageSettingsDataMap, PositionInfoMap, OpenOrderInfoMap>>
linkVars     == <<link, outages>>
vars == <<exchangeVars, stream, linkVars, startVars, callbackVars, mapVars, missed>>

Statuses == 0 .. 2   (* not placed, new, closed *)

(* Converter.ToOrderStatusInfo throws on a type, a time in force or a status that
   its tables do not map. *)
Unconvertible(id, status) == id \in UnmappedOrders \/ (id \in UnmappedEnds /\ status = 2)

PositionSides == {"Long", "Short", "Both"}

(* The sides a symbol's positions are on: both in one where they are netted, which
   is the one Converter.ConvertPositionSide throws on. *)
Sides == IF hedged THEN {"Long", "Short"} ELSE {"Both"}

PositionEntry == [side : PositionSides, quantity : Quantities]

(* new PositionInfo(). *)
Blank == [side |-> "Long", quantity |-> 0]

(* Converter.ToOrderStatusInfo of a stream event casts the id to int: the low
   bits, read as a signed number. *)
StreamKey(id) ==
  LET low == id % 2^Width IN
  IF low >= 2^(Width - 1) THEN low - 2^Width ELSE low

Keys == OrderIds \union {StreamKey(id) : id \in OrderIds}

(* Orders whose low bits agree are 2^Width apart and not considered. *)
ASSUME DistinctKeysAssumption ==
  \A i, j \in OrderIds : i # j => StreamKey(i) \notin {j, StreamKey(j)}

OrderEntry == [id : OrderIds, status : Statuses \ {0}]

Event ==
       [kind : {"leverage"}, symbol : Symbols, leverage : Leverages]
  \cup [kind : {"order"}, id : OrderIds, status : Statuses \ {0}]
  \cup [kind : {"account", "expired"}]

(* The calls of OnStart after the clients are built, in order.  Wrong variant:
   the stream is subscribed to last. *)
StartCalls_SubscribeLast == <<"brackets", "orders", "leverages", "subscribe">>

StartCalls == <<"subscribe", "brackets", "orders", "leverages">>

Started == step > Len(StartCalls)

In(call) == ~Started /\ StartCalls[step] = call

EmptyMap(keys) == [k \in keys |-> Missing]

-----------------------------------------------------------------------------
Init ==
  /\ xLeverage \in [Symbols -> Leverages]
  /\ hedged \in BOOLEAN
  /\ xPosition \in [Symbols \X PositionSides -> Quantities]
  /\ \A s \in Symbols, side \in PositionSides \ Sides : xPosition[<<s, side>>] = 0
  /\ xStatus \in [OrderIds -> {0, 1}]
  /\ changes = 0
  /\ stream = <<>>
  /\ link = "none"
  /\ outages = 0
  /\ step = 1
  /\ pc = "call"
  /\ answer = {}
  /\ callback = "idle"
  /\ positionAnswer = {}
  /\ LeverageSettingsDataMap = EmptyMap(Symbols)
  /\ PositionInfoMap = EmptyMap(Symbols)
  /\ OpenOrderInfoMap = EmptyMap(Keys)
  /\ refreshed = "never"
  /\ missed = {}

-----------------------------------------------------------------------------
(* The exchange.  A change is pushed to the stream if there is one. *)

Push(event) ==
  IF link = "up" THEN Len(stream) < MaxPending /\ stream' = Append(stream, event)
                 ELSE stream' = stream

Change(event) ==
  /\ changes < MaxChanges
  /\ changes' = changes + 1
  /\ Push(event)
  /\ UNCHANGED <<linkVars, startVars, callbackVars, mapVars>>

(* The change overtakes an answer that is still to be stored, or falls into an
   outage; otherwise an event or a later query brings the copy up to date. *)
Misses(call, key) ==
  missed' = IF link = "down" \/ (In(call) /\ \E a \in answer : a.key = key)
              THEN missed \union {key}
              ELSE missed \ {key}

ChangeLeverage(s, leverage) ==
  /\ leverage # xLeverage[s]
  /\ xLeverage' = [xLeverage EXCEPT ![s] = leverage]
  /\ Change([kind |-> "leverage", symbol |-> s, leverage |-> leverage])
  /\ Misses("leverages", s)
  /\ UNCHANGED <<hedged, xPosition, xStatus>>

ChangePosition(s, side, quantity) ==
  /\ quantity # xPosition[<<s, side>>]
  /\ xPosition' = [xPosition EXCEPT ![<<s, side>>] = quantity]
  /\ Change([kind |-> "account"])
  /\ missed' = IF link = "down" THEN missed \union {AllPositions} ELSE missed
  /\ UNCHANGED <<xLeverage, hedged, xStatus>>

(* An order is placed, by this program or by hand, or it is filled or cancelled. *)
ChangeOrder(id) ==
  /\ xStatus[id] < 2
  /\ xStatus' = [xStatus EXCEPT ![id] = @ + 1]
  /\ Change([kind |-> "order", id |-> id, status |-> xStatus[id] + 1])
  /\ Misses("orders", id)
  /\ UNCHANGED <<xLeverage, hedged, xPosition>>

(* The listen key expires: the stream ends with an event that says so. *)
ExpireListenKey ==
  /\ link = "up"
  /\ link' = "none"
  /\ stream' = Append(stream, [kind |-> "expired"])
  /\ UNCHANGED <<exchangeVars, outages, startVars, callbackVars, mapVars, missed>>

(* What an event would have brought up to date. *)
Subject(event) ==
  CASE event.kind = "leverage" -> {event.symbol}
    [] event.kind = "order"    -> {event.id}
    [] event.kind = "account"  -> {AllPositions}
    [] OTHER                   -> {}

(* The connection breaks down and what was under way is lost.  The socket client
   connects again by itself; nothing is queried for the time in between. *)
StreamDown ==
  /\ link = "up" /\ outages < MaxOutages
  /\ link' = "down"
  /\ outages' = outages + 1
  /\ stream' = <<>>
  /\ missed' = missed \union UNION {Subject(stream[i]) : i \in DOMAIN stream}
  /\ UNCHANGED <<exchangeVars, startVars, callbackVars, mapVars>>

StreamUp ==
  /\ link = "down"
  /\ link' = "up"
  /\ UNCHANGED <<exchangeVars, outages, stream, startVars, callbackVars, mapVars, missed>>

-----------------------------------------------------------------------------
(* OnStart. *)

Advance == step' = step + 1 /\ pc' = "call" /\ answer' = {}

(* A failure to get the key or to subscribe is logged; OnStart goes on. *)
APISubscribeToUserDataUpdates ==
  /\ In("subscribe")
  /\ link' \in {"up", "none"}
  /\ Advance
  /\ UNCHANGED <<exchangeVars, outages, stream, callbackVars, mapVars, missed>>

(* The bracket query clears the leverage settings, not the brackets it fills. *)
APIUpdateAllLeverageBracket ==
  /\ In("brackets")
  /\ LeverageSettingsDataMap' = EmptyMap(Symbols)
  /\ Advance
  /\ UNCHANGED <<exchangeVars, stream, linkVars, callbackVars, PositionInfoMap,
                 OpenOrderInfoMap, missed>>

(* Wrong variant: orders that do not exist are answered too. *)
QueryOrders_Unfiltered ==
  /\ In("orders") /\ pc = "call"
  /\ answer' = {[key |-> id, value |-> [id |-> id, status |-> xStatus[id]]] : id \in OrderIds}
  /\ pc' = "store"
  /\ missed' = missed \ OrderIds
  /\ UNCHANGED <<exchangeVars, stream, linkVars, step, callbackVars, mapVars>>

(* The answer to the order query: every order the exchange has. *)
QueryOrders ==
  /\ In("orders") /\ pc = "call"
  /\ answer' = {[key |-> id, value |-> [id |-> id, status |-> xStatus[id]]] :
                  id \in {i \in OrderIds : xStatus[i] # 0}}
  /\ pc' = "store"
  /\ missed' = missed \ OrderIds
  /\ UNCHANGED <<exchangeVars, stream, linkVars, step, callbackVars, mapVars>>

(* Its failure is not tested: the loop over a null list throws, and the
   exception leaves OnStart, the start-up and the program. *)
QueryOrdersFails ==
  /\ In("orders") /\ pc = "call"
  /\ pc' = "aborted"
  /\ UNCHANGED <<exchangeVars, stream, linkVars, step, answer, callbackVars, mapVars, missed>>

(* One turn of the loop of APIUpdateAllOpenOrders: the key is the full id. *)
StoreOrder(a) ==
  /\ In("orders") /\ pc = "store"
  /\ a \in answer /\ ~Unconvertible(a.key, a.value.status)
  /\ OpenOrderInfoMap' = [OpenOrderInfoMap EXCEPT ![a.key] = a.value]
  /\ answer' = answer \ {a}
  /\ UNCHANGED <<exchangeVars, stream, linkVars, step, pc, callbackVars,
                 LeverageSettingsDataMap, PositionInfoMap, missed>>

(* An order that cannot be converted ends the loop, OnStart and the program. *)
StoreOrderThrows(a) ==
  /\ In("orders") /\ pc = "store"
  /\ a \in answer /\ Unconvertible(a.key, a.value.status)
  /\ pc' = "aborted" /\ answer' = {}
  /\ UNCHANGED <<exchangeVars, stream, linkVars, step, callbackVars, mapVars, missed>>

ClearLeverages ==
  /\ In("leverages") /\ pc = "call"
  /\ LeverageSettingsDataMap' = EmptyMap(Symbols)
  /\ pc' = "query"
  /\ UNCHANGED <<exchangeVars, stream, linkVars, step, answer, callbackVars,
                 PositionInfoMap, OpenOrderInfoMap, missed>>

QueryLeverages ==
  /\ In("leverages") /\ pc = "query"
  /\ answer' = {[key |-> s, value |-> xLeverage[s]] : s \in Symbols}
  /\ pc' = "store"
  /\ missed' = missed \ Symbols
  /\ UNCHANGED <<exchangeVars, stream, linkVars, step, callbackVars, mapVars>>

(* A failed query leaves the cleared map as it is. *)
QueryLeveragesFails ==
  /\ In("leverages") /\ pc = "query"
  /\ Advance
  /\ missed' = missed \union Symbols
  /\ UNCHANGED <<exchangeVars, stream, linkVars, callbackVars, mapVars>>

(* One turn of the loop of APIUpdateAllLeverageSettings. *)
StoreLeverage(a) ==
  /\ In("leverages") /\ pc = "store"
  /\ a \in answer
  /\ LeverageSettingsDataMap' = [LeverageSettingsDataMap EXCEPT ![a.key] = a.value]
  /\ answer' = answer \ {a}
  /\ UNCHANGED <<exchangeVars, stream, linkVars, step, pc, callbackVars,
                 PositionInfoMap, OpenOrderInfoMap, missed>>

EndStore ==
  /\ ~Started /\ pc = "store"
  /\ answer = {}
  /\ Advance
  /\ UNCHANGED <<exchangeVars, stream, linkVars, callbackVars, mapVars, missed>>

-----------------------------------------------------------------------------
(* The callbacks of the stream. *)

Receive(kind) ==
  /\ callback = "idle" /\ pc # "aborted"
  /\ stream # <<>>
  /\ Head(stream).kind = kind
  /\ stream' = Tail(stream)
  /\ UNCHANGED <<exchangeVars, linkVars, startVars>>

OnLeverageUpdate ==
  /\ Receive("leverage")
  /\ LET e == Head(stream) IN
     LeverageSettingsDataMap' = [LeverageSettingsDataMap EXCEPT ![e.symbol] = e.leverage]
  /\ UNCHANGED <<callbackVars, PositionInfoMap, OpenOrderInfoMap, missed>>

(* Wrong variant: an order that is already known is left as it is. *)
OnOrderUpdate_NewOnly ==
  /\ Receive("order")
  /\ LET e == Head(stream) IN
     /\ ~Unconvertible(e.id, e.status)
     /\ OpenOrderInfoMap' =
          IF OpenOrderInfoMap[StreamKey(e.id)] # Missing THEN OpenOrderInfoMap
          ELSE [OpenOrderInfoMap EXCEPT ![StreamKey(e.id)] = [id |-> e.id, status |-> e.status]]
  /\ UNCHANGED <<callbackVars, LeverageSettingsDataMap, PositionInfoMap, missed>>

OnOrderUpdate ==
  /\ Receive("order")
  /\ LET e == Head(stream) IN
     /\ ~Unconvertible(e.id, e.status)
     /\ OpenOrderInfoMap' =
          [OpenOrderInfoMap EXCEPT ![StreamKey(e.id)] = [id |-> e.id, status |-> e.status]]
  /\ UNCHANGED <<callbackVars, LeverageSettingsDataMap, PositionInfoMap, missed>>

(* An update that cannot be converted is lost: the order keeps the entry it had. *)
OnOrderUpdateThrows ==
  /\ Receive("order")
  /\ Unconvertible(Head(stream).id, Head(stream).status)
  /\ UNCHANGED <<callbackVars, mapVars, missed>>

(* Wrong variant: the map is filled over what it held. *)
OnAccountUpdate_NoClear ==
  /\ Receive("account")
  /\ callback' = "query"
  /\ UNCHANGED <<mapVars, positionAnswer, refreshed, missed>>

(* APIUpdateAllPositionInfo, called from the callback, clears the map first
   and blocks the callback thread until the answer is there. *)
OnAccountUpdate ==
  /\ Receive("account")
  /\ PositionInfoMap' = EmptyMap(Symbols)
  /\ callback' = "query"
  /\ UNCHANGED <<positionAnswer, refreshed, LeverageSettingsDataMap, OpenOrderInfoMap, missed>>

(* GetPositionsAsync returns the sides that have a position and, of symbols with
   open orders or with a position on the other side, some that have none. *)
QueryPositions ==
  /\ callback = "query" /\ pc # "aborted"
  /\ \E answered \in SUBSET (Symbols \X Sides) :
       /\ \A p \in Symbols \X Sides : xPosition[p] # 0 => p \in answered
       /\ positionAnswer' =
            {[key |-> p[1], value |-> [side |-> p[2], quantity |-> xPosition[p]]] : p \in answered}
  /\ callback' = "store"
  /\ missed' = missed \ {AllPositions}
  /\ UNCHANGED <<exchangeVars, stream, linkVars, startVars, refreshed, mapVars>>

(* A failed query is not reported, and the map stays cleared. *)
QueryPositionsFails ==
  /\ callback = "query" /\ pc # "aborted"
  /\ callback' = "idle"
  /\ refreshed' = "failed"
  /\ UNCHANGED <<exchangeVars, stream, linkVars, startVars, positionAnswer, mapVars, missed>>

(* One turn of the loop: the key is the symbol, whichever the side, and the later
   of two sides replaces the earlier. *)
StorePosition(a) ==
  /\ callback = "store" /\ pc # "aborted"
  /\ a \in positionAnswer /\ a.value.side # "Both"
  /\ PositionInfoMap' = [PositionInfoMap EXCEPT ![a.key] = a.value]
  /\ positionAnswer' = positionAnswer \ {a}
  /\ UNCHANGED <<exchangeVars, stream, linkVars, startVars, callback, refreshed,
                 LeverageSettingsDataMap, OpenOrderInfoMap, missed>>

(* A netted position ends the loop and the callback, after the symbol was given a
   blank entry. *)
StorePositionThrows(a) ==
  /\ callback = "store" /\ pc # "aborted"
  /\ a \in positionAnswer /\ a.value.side = "Both"
  /\ PositionInfoMap' = [PositionInfoMap EXCEPT ![a.key] = IF @ = Missing THEN Blank ELSE @]
  /\ positionAnswer' = {} /\ callback' = "idle" /\ refreshed' = "threw"
  /\ UNCHANGED <<exchangeVars, stream, linkVars, startVars, LeverageSettingsDataMap,
                 OpenOrderInfoMap, missed>>

EndStorePositions ==
  /\ callback = "store" /\ pc # "aborted"
  /\ positionAnswer = {}
  /\ callback' = "idle"
  /\ refreshed' = "done"
  /\ UNCHANGED <<exchangeVars, stream, linkVars, startVars, positionAnswer, mapVars, missed>>

(* The handler asks for a new key and leaves it at that: the subscription that
   ended is not made again, and whether the request succeeds changes nothing. *)
OnListenKeyExpired ==
  /\ Receive("expired")
  /\ UNCHANGED <<callbackVars, mapVars, missed>>

-----------------------------------------------------------------------------
Next ==
  \/ \E s \in Symbols, leverage \in Leverages : ChangeLeverage(s, leverage)
  \/ \E s \in Symbols, side \in Sides, quantity \in Quantities : ChangePosition(s, side, quantity)
  \/ \E id \in OrderIds : ChangeOrder(id)
  \/ ExpireListenKey
  \/ StreamDown
  \/ StreamUp
  \/ APISubscribeToUserDataUpdates
  \/ APIUpdateAllLeverageBracket
  \/ QueryOrders
  \/ QueryOrdersFails
  \/ \E a \in answer : StoreOrder(a) \/ StoreOrderThrows(a) \/ StoreLeverage(a)
  \/ ClearLeverages
  \/ QueryLeverages
  \/ QueryLeveragesFails
  \/ EndStore
  \/ OnLeverageUpdate
  \/ OnOrderUpdate
  \/ OnOrderUpdateThrows
  \/ OnAccountUpdate
  \/ QueryPositions
  \/ QueryPositionsFails
  \/ \E a \in positionAnswer : StorePosition(a) \/ StorePositionThrows(a)
  \/ EndStorePositions
  \/ OnListenKeyExpired

Spec == Init /\ [][Next]_vars

-----------------------------------------------------------------------------
(* Properties. *)

(* Every variable is of its type. *)
TypeOK ==
  /\ xLeverage \in [Symbols -> Leverages]
  /\ hedged \in BOOLEAN
  /\ xPosition \in [Symbols \X PositionSides -> Quantities]
  /\ xStatus \in [OrderIds -> Statuses]
  /\ changes \in 0 .. MaxChanges
  /\ stream \in Seq(Event)
  /\ link \in {"none", "up", "down"}
  /\ outages \in 0 .. MaxOutages
  /\ step \in 1 .. Len(StartCalls) + 1
  /\ pc \in {"call", "query", "store", "aborted"}
  /\ answer \subseteq [key : OrderIds, value : OrderEntry]
                     \cup [key : Symbols, value : Leverages]
  /\ callback \in {"idle", "query", "store"}
  /\ positionAnswer \subseteq [key : Symbols, value : PositionEntry]
  /\ LeverageSettingsDataMap \in [Symbols -> Leverages \union {Missing}]
  /\ PositionInfoMap \in [Symbols -> PositionEntry \union {Missing}]
  /\ OpenOrderInfoMap \in [Keys -> OrderEntry \union {Missing}]
  /\ refreshed \in {"never", "done", "failed", "threw"}
  /\ missed \subseteq Symbols \union OrderIds \union {AllPositions}

(* The start-up is over, the stream is up, and nothing is under way. *)
Quiet ==
  Started /\ link = "up" /\ stream = <<>> /\ callback = "idle"

(* Subscribing before querying loses no change of leverage: once everything is
   quiet the setting of a symbol is the exchange's, unless its last change came
   between the query's answer and the turn of the loop that stored it (there
   the older value wins for good) or during an outage of the stream, or the
   query failed and the symbol has not changed since. *)
LeverageSettled ==
  Quiet => \A s \in Symbols \ missed : LeverageSettingsDataMap[s] = xLeverage[s]

(* The same for orders: with the same exceptions, the last status of every order
   the exchange has is stored under the id or under the id cut to an int, unless
   it is one that Converter throws on; then whatever is stored of the order is
   older. *)
OrdersSettled ==
  Quiet => \A id \in OrderIds \ missed :
    xStatus[id] # 0 /\ ~Unconvertible(id, xStatus[id]) =>
      \E key \in {id, StreamKey(id)} :
        OpenOrderInfoMap[key] = [id |-> id, status |-> xStatus[id]]

(* The positions are cleared and queried again inside the callback of every
   account update.  After the last one, unless they changed during an outage, a
   symbol without an entry has no position, and an entry is what the exchange has
   of the symbol on that side: never a position that was closed or changed since.
   (Of a symbol's two sides the map has one, see the README.)
   If the query failed there are no entries, and if the conversion threw there is
   none with a quantity. *)
PositionsSettled ==
  Quiet =>
    /\ (refreshed = "done" /\ AllPositions \notin missed) =>
         \A s \in Symbols :
           \/ /\ PositionInfoMap[s] = Missing
              /\ \A side \in Sides : xPosition[<<s, side>>] = 0
           \/ \E side \in Sides :
                PositionInfoMap[s] = [side |-> side, quantity |-> xPosition[<<s, side>>]]
    /\ refreshed = "failed" => PositionInfoMap = EmptyMap(Symbols)
    /\ refreshed = "threw" => \A s \in Symbols : PositionInfoMap[s] \in {Missing, Blank}

(* The documented key of OpenOrderInfoMap: the id of the order.  The stream's
   callback does not keep it for an id beyond the int range (see the README). *)
OrdersKeyedById ==
  \A key \in Keys : OpenOrderInfoMap[key] # Missing => OpenOrderInfoMap[key].id = key

=============================================================================
