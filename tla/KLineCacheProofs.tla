-------------------------- MODULE KLineCacheProofs --------------------------
(***************************************************************************)
(* The candles of the cache are in order of time, those of the stream are  *)
(* exact and closed ones are never touched, for every capacity, every      *)
(* preload and every interleaving of the stream, its outages and the other *)
(* threads.                                                                *)
(*                                                                         *)
(* The first argument only looks at the open times.  The buffer of         *)
(* candles, seen through .time, is itself a CircularBuffer, of minutes:    *)
(* adding a candle adds its minute and updating the newest one changes     *)
(* nothing.  The facts proved in CircularBufferProofs are used for that    *)
(* buffer.  The second follows every minute since the stream came up from  *)
(* the exchange through the events under way into the cache.               *)
(*                                                                         *)
(* A third is about the values: every entry of the ring is a candle, so    *)
(* that the ring is a history of candles, and the averages of the newest   *)
(* one are off by no more than their roundings and what they are owed.     *)
(***************************************************************************)
EXTENDS KLineCache, SequenceTheorems, FiniteSumTheorems, TLAPS

Minute == 1 .. MaxTime

times == [i \in 0 .. Capacity - 1 |-> slots[i].time]

T == INSTANCE CircularBufferProofs WITH slots <- times, Item <- Minute, Unused <- NoCandle.time

Times == T!ToArray

(* The buffer of candles itself, with the facts proved about it. *)
C == INSTANCE CircularBufferProofs WITH Item <- Candle, Unused <- NoCandle

(* The parts of the inductive invariant. *)

SlotsFunction == slots = [i \in 0 .. Capacity - 1 |-> slots[i]]

MarketOK == market \in Seq(Closes) /\ Now \in Minute

PhaseOK ==
  /\ phase \in {"idle", "adding", "subscribed", "failed"}
  /\ live \in BOOLEAN
  /\ live => phase = "subscribed"
  /\ phase \in {"idle", "adding"} => stream = <<>>
  /\ phase # "adding" => response = <<>>
  /\ phase = "idle" => count = 0

(* The cache, the events under way and the present follow each other. *)
CacheOrdered == \A i, j \in 1 .. count : i < j => Times[i] < Times[j]

CachePast == count > 0 => Times[count] <= Now

StreamOK ==
  /\ stream \in Seq([time : Minute, close : Closes])
  /\ \A i, j \in 1 .. Len(stream) : i < j => stream[i].time <= stream[j].time
  /\ \A i \in 1 .. Len(stream) : stream[i].time <= Now
  /\ \A i \in 1 .. Len(stream) : count > 0 => Times[count] <= stream[i].time

(* So do the cache and the candles of the query. *)
Preloaded == [time : Minute, close : Closes, ma : {NoAverages}]

ResponseOK ==
  /\ response \in Seq(Preloaded)
  /\ \A i, j \in 1 .. Len(response) : i < j => response[i].time < response[j].time
  /\ \A i \in 1 .. Len(response) : response[i].time <= Now
  /\ \A i \in 1 .. Len(response) : count > 0 => Times[count] < response[i].time

BufferOK == SlotsFunction /\ T!IndInv

IInv ==
  /\ BufferOK /\ MarketOK /\ PhaseOK
  /\ CacheOrdered /\ CachePast /\ StreamOK /\ ResponseOK

-----------------------------------------------------------------------------

(* What is known of the list of cached minutes. *)
LEMMA TimesValue ==
  ASSUME T!IndInv
  PROVE  /\ Times \in Seq(Minute) /\ Len(Times) = count
         /\ count \in 0 .. Capacity
         /\ Capacity \in Nat \ {0}
<1>1. T!ArrayInv
  BY T!ToArrayValue, CapacityAssumption
<1> QED
  BY <1>1, CapacityAssumption DEF T!ArrayInv, Times, T!IndInv, T!TypeOK

(* Adding a candle to the buffer adds its minute to the buffer of minutes. *)
LEMMA AddAddsMinute ==
  ASSUME SlotsFunction, NEW candle, Buffer!Add(candle)
  PROVE  SlotsFunction' /\ T!Add(candle.time)
<1>1. slots' = [slots EXCEPT ![tail] = candle]
  BY DEF Buffer!Add
<1>2. SlotsFunction'
  BY <1>1 DEF SlotsFunction
<1>3. times' = [times EXCEPT ![tail] = candle.time]
  BY <1>1 DEF SlotsFunction, times
<1> QED
  BY <1>2, <1>3 DEF Buffer!Add, T!Add

(* A later minute is added behind the others, and the order is kept. *)
LEMMA AddLater ==
  ASSUME T!IndInv, CacheOrdered, NEW t \in Minute, T!Add(t),
         count > 0 => Times[count] < t
  PROVE  /\ T!IndInv' /\ CacheOrdered'
         /\ count' > 0 /\ Times'[count'] = t
<1>1. T!IndInv'
  BY T!AddInv, CapacityAssumption
<1>2. /\ Times' = IF count < Capacity THEN Append(Times, t) ELSE Append(Tail(Times), t)
      /\ Len(Times') > 0 /\ Times'[Len(Times')] = t
  BY T!AddPushes, CapacityAssumption DEF Times
<1>3. /\ Times \in Seq(Minute) /\ Len(Times) = count
      /\ count \in 0 .. Capacity /\ Capacity \in Nat \ {0}
  BY TimesValue
<1>4. Len(Times') = count'
  <2>1. T!IndInv => T!ArrayInv
    BY T!ToArrayValue, CapacityAssumption
  <2>2. T!ArrayInv'
    BY <1>1, <2>1, T!ToArrayValue, CapacityAssumption, PTL
  <2> QED
    BY <2>2 DEF T!ArrayInv, Times
<1>5. CacheOrdered'
  <2>1. \A i, j \in 1 .. Len(Times) : i < j => Times[i] < Times[j]
    BY <1>3 DEF CacheOrdered
  <2>2. \A i \in 1 .. Len(Times) : Times[i] < t
    <3> SUFFICES ASSUME NEW i \in 1 .. Len(Times)
                 PROVE  Times[i] < t
      OBVIOUS
    <3>1. count > 0 /\ Times[i] \in Minute /\ Times[count] \in Minute
      BY <1>3
    <3>2. i = count \/ Times[i] < Times[count]
      BY <1>3, <2>1
    <3> QED
      BY <3>1, <3>2 DEF Minute
  <2>3. CASE count < Capacity
    BY <1>2, <1>3, <1>4, <2>1, <2>2, <2>3 DEF CacheOrdered
  <2>4. CASE ~(count < Capacity)
    BY <1>2, <1>3, <1>4, <2>1, <2>2, <2>4 DEF CacheOrdered
  <2> QED
    BY <2>3, <2>4
<1> QED
  BY <1>1, <1>2, <1>4, <1>5

(* Updating the newest candle with an event of its own minute leaves every
   minute as it is. *)
LEMMA UpdateKeepsMinutes ==
  ASSUME BufferOK, NEW event, IsUpdate(event), UpdateNewest(event)
  PROVE  SlotsFunction' /\ UNCHANGED <<times, head, tail, count>>
<1> DEFINE p == Buffer!Position(-1)
<1>1. PICK candle : candle.time = event.time /\ Buffer!Set(-1, candle)
  <2> DEFINE old == Buffer!Get(-1)
             sum(q) == event.close + CloseSum(1, q - 1)
             ma == [q \in Periods |->
                      IF Computes(q, count)
                        THEN AdjustedMA(old.ma[q], q, sum(q), old.close, event.close)
                        ELSE old.ma[q]]
             candle == [time |-> event.time, close |-> event.close, ma |-> ma]
  <2>1. Buffer!Set(-1, candle)
    BY DEF UpdateNewest
  <2>2. candle.time = event.time
    OBVIOUS
  <2> QED
    BY <2>1, <2>2
<1>2. slots' = [slots EXCEPT ![p] = candle] /\ UNCHANGED <<head, tail, count>>
  BY <1>1 DEF Buffer!Set
<1>3. slots[p].time = event.time
  BY DEF IsUpdate, Buffer!Get
<1>4. SlotsFunction'
  BY <1>2 DEF BufferOK, SlotsFunction
<1>5. times' = times
  BY <1>1, <1>2, <1>3 DEF BufferOK, SlotsFunction, times
<1> QED
  BY <1>2, <1>4, <1>5

(* The minutes themselves only change with the buffer. *)
LEMMA SameMinutes ==
  ASSUME BufferOK, UNCHANGED <<times, head, tail, count>>
  PROVE  T!IndInv' /\ Times' = Times
<1> QED
  BY DEF BufferOK, T!IndInv, T!TypeOK, T!Aligned, T!Filled, T!Slot, Times, T!ToArray

(* Initially there is nothing to be out of order. *)
LEMMA InitIInv == Init => IInv
<1> SUFFICES ASSUME Init PROVE IInv
  OBVIOUS
<1>1. BufferOK
  <2>1. T!Init /\ SlotsFunction
    BY DEF Init, Buffer!Init, Buffer!Slot, T!Init, T!Slot, times, SlotsFunction
  <2> QED
    BY <2>1, T!InitInv, CapacityAssumption DEF BufferOK
<1>2. count = 0
  BY DEF Init, Buffer!Init
<1>3. MarketOK
  BY BoundsAssumption DEF Init, MarketOK, Now, Minute
<1>4. stream = <<>> /\ response = <<>>
  BY DEF Init
<1>5. StreamOK
  BY <1>4 DEF StreamOK
<1>6. ResponseOK
  BY <1>4 DEF ResponseOK
<1>7. PhaseOK
  BY <1>2 DEF Init, PhaseOK
<1>8. CacheOrdered /\ CachePast
  BY <1>2 DEF CacheOrdered, CachePast
<1> QED
  BY <1>1, <1>3, <1>5, <1>6, <1>7, <1>8 DEF IInv

-----------------------------------------------------------------------------

(* A function on 1 .. n is a sequence of length n. *)
LEMMA FunctionIsSeq ==
  ASSUME NEW S, NEW n \in Nat, NEW f \in [1 .. n -> S]
  PROVE  f \in Seq(S) /\ Len(f) = n
<1>1. f \in Seq(S)
  BY SeqDef
<1>2. 1 .. Len(f) = 1 .. n /\ Len(f) \in Nat
  BY <1>1, LenProperties
<1> QED
  BY <1>1, <1>2

(* The times that are compared are integers. *)
LEMMA TimesAreIntegers ==
  ASSUME IInv
  PROVE  /\ count \in Nat /\ (count > 0 => Times[count] \in Int)
         /\ Len(stream) \in Nat /\ \A i \in 1 .. Len(stream) : stream[i].time \in Int
         /\ Len(response) \in Nat /\ \A i \in 1 .. Len(response) : response[i].time \in Int
         /\ Now \in Int
<1>1. \A m \in Minute : m \in Int
  BY DEF Minute
<1>2. /\ Times \in Seq(Minute) /\ Len(Times) = count /\ count \in Nat
  BY TimesValue DEF IInv, BufferOK
<1>3. count > 0 => Times[count] \in Int
  <2> SUFFICES ASSUME count > 0 PROVE Times[count] \in Int
    OBVIOUS
  <2>1. count \in 1 .. Len(Times)
    BY <1>2
  <2> QED
    BY <1>1, <1>2, <2>1, ElementOfSeq
<1>4. Len(stream) \in Nat /\ \A i \in 1 .. Len(stream) : stream[i] \in [time : Minute, close : Closes]
  BY ElementOfSeq, LenProperties DEF IInv, StreamOK
<1>5. Len(response) \in Nat /\ \A i \in 1 .. Len(response) : response[i] \in Preloaded
  BY ElementOfSeq, LenProperties DEF IInv, ResponseOK
<1> QED
  BY <1>1, <1>2, <1>3, <1>4, <1>5 DEF Preloaded, IInv, MarketOK

(* The exchange publishes about the present or a new minute. *)
LEMMA MarketSteps ==
  ASSUME IInv, NEW close \in Closes, Trade(close) \/ OpenMinute(close)
  PROVE  IInv'
<1>1. /\ market \in Seq(Closes) /\ Now \in Minute
      /\ market' \in Seq(Closes) /\ Now' \in Minute /\ Now <= Now'
  <2>1. market \in Seq(Closes) /\ Len(market) \in 1 .. MaxTime
    BY DEF IInv, MarketOK, Now, Minute
  <2>2. CASE Trade(close)
    <3>1. market' = [market EXCEPT ![Len(market)] = close]
      BY <2>2 DEF Trade, Now
    <3>2. market' \in Seq(Closes) /\ Len(market') = Len(market)
      BY <2>1, <3>1
    <3> QED
      BY <2>1, <3>2 DEF Now, Minute
  <2>3. CASE OpenMinute(close)
    <3>1. market' = Append(market, close) /\ Len(market) < MaxTime
      BY <2>3 DEF OpenMinute, Now
    <3>2. market' \in Seq(Closes) /\ Len(market') = Len(market) + 1
      BY <2>1, <3>1
    <3> QED
      BY <2>1, <3>1, <3>2, BoundsAssumption DEF Now, Minute
  <2> QED
    BY <2>2, <2>3
<1>2. UNCHANGED <<slots, head, tail, count, live, phase, response>>
  BY DEF Trade, OpenMinute, bufferVars
<1>3. UNCHANGED <<times, head, tail, count>>
  BY <1>2 DEF times
<1>4. Times' = Times /\ BufferOK'
  BY <1>2, <1>3, SameMinutes DEF IInv, BufferOK, SlotsFunction
<1>5. \/ stream' = stream
      \/ live /\ \E e \in [time : {Now'}, close : Closes] : stream' = Append(stream, e)
  <2>1. CASE Trade(close)
    <3>1. Now' = Now
      BY <2>1, <1>1 DEF Trade, Now
    <3> QED
      BY <2>1, <3>1 DEF Trade, Publish
  <2>2. CASE OpenMinute(close)
    <3>1. Now' = Now + 1
      BY <2>2, <1>1 DEF OpenMinute, Now
    <3> QED
      BY <2>2, <3>1 DEF OpenMinute, Publish
  <2> QED
    BY <2>1, <2>2
<1>6. /\ count > 0 => Times[count] \in Int
      /\ Len(stream) \in Nat /\ \A i \in 1 .. Len(stream) : stream[i].time \in Int
      /\ Len(response) \in Nat /\ \A i \in 1 .. Len(response) : response[i].time \in Int
      /\ Now \in Int /\ Now' \in Int
  BY <1>1, TimesAreIntegers DEF Minute
<1>7. StreamOK'
  <2> USE DEF StreamOK
  <2>1. CASE stream' = stream
    BY <1>1, <1>2, <1>4, <1>6, <2>1 DEF IInv
  <2>2. CASE live /\ \E e \in [time : {Now'}, close : Closes] : stream' = Append(stream, e)
    <3>1. PICK e \in [time : {Now'}, close : Closes] : stream' = Append(stream, e)
      BY <2>2
    <3>2. stream \in Seq([time : Minute, close : Closes]) /\ e \in [time : Minute, close : Closes]
      BY <1>1 DEF IInv
    <3>3. /\ stream' \in Seq([time : Minute, close : Closes])
          /\ Len(stream') = Len(stream) + 1
          /\ \A i \in 1 .. Len(stream) : stream'[i] = stream[i]
          /\ stream'[Len(stream) + 1] = e /\ e.time = Now'
      BY <3>1, <3>2
    <3>4. \A i \in 1 .. Len(stream) : stream[i].time <= Now
      BY DEF IInv
    <3>5. \A i \in 1 .. Len(stream') : stream'[i].time <= Now' /\ stream'[i].time \in Int
      BY <1>1, <1>6, <3>3, <3>4
    <3>6. \A i, j \in 1 .. Len(stream') : i < j => stream'[i].time <= stream'[j].time
      <4>1. \A i, j \in 1 .. Len(stream) : i < j => stream[i].time <= stream[j].time
        BY DEF IInv
      <4> SUFFICES ASSUME NEW i \in 1 .. Len(stream'), NEW j \in 1 .. Len(stream'), i < j
                   PROVE  stream'[i].time <= stream'[j].time
        OBVIOUS
      <4>2. i \in 1 .. Len(stream) /\ stream'[i] = stream[i]
        BY <1>6, <3>3
      <4>3. CASE j \in 1 .. Len(stream)
        BY <3>3, <4>1, <4>2, <4>3
      <4>4. CASE j = Len(stream) + 1
        <5>1. stream'[i].time <= Now'
          BY <3>5
        <5> QED
          BY <3>3, <4>4, <5>1
      <4> QED
        BY <1>6, <3>3, <4>3, <4>4
    <3>7. \A i \in 1 .. Len(stream') : count' > 0 => Times'[count'] <= stream'[i].time
      <4>1. \A i \in 1 .. Len(stream) : count > 0 => Times[count] <= stream[i].time
        BY DEF IInv
      <4>2. count > 0 => Times[count] <= Now'
        BY <1>1, <1>6 DEF IInv, CachePast
      <4> QED
        BY <1>2, <1>4, <1>6, <3>3, <4>1, <4>2
    <3> QED
      BY <3>3, <3>5, <3>6, <3>7
  <2> QED
    BY <1>5, <2>1, <2>2
<1>8. ResponseOK'
  <2>1. response' = response /\ count' = count /\ Times' = Times
    BY <1>2, <1>4
  <2>2. ResponseOK
    BY DEF IInv
  <2>3. \A i \in 1 .. Len(response) : response[i].time <= Now'
    <3> SUFFICES ASSUME NEW i \in 1 .. Len(response)
                 PROVE  response[i].time <= Now'
      OBVIOUS
    <3>1. response[i].time <= Now
      BY <2>2 DEF ResponseOK
    <3>2. response[i].time \in Int /\ Now \in Int /\ Now' \in Int
      BY <1>6
    <3> QED
      BY <1>1, <3>1, <3>2
  <2>4. /\ response \in Seq(Preloaded)
        /\ \A i, j \in 1 .. Len(response) : i < j => response[i].time < response[j].time
        /\ \A i \in 1 .. Len(response) : count > 0 => Times[count] < response[i].time
    BY <2>2 DEF ResponseOK
  <2> QED
    BY <2>1, <2>3, <2>4 DEF ResponseOK
<1>9. CacheOrdered'
  <2>1. CacheOrdered /\ count' = count /\ Times' = Times
    BY <1>2, <1>4 DEF IInv
  <2> QED
    BY <2>1 DEF CacheOrdered
<1>10. CachePast'
  <2>1. CachePast /\ count' = count /\ Times' = Times
    BY <1>2, <1>4 DEF IInv
  <2>2. count > 0 => Times[count] <= Now'
    BY <1>1, <1>6, <2>1 DEF CachePast
  <2> QED
    BY <2>1, <2>2 DEF CachePast
<1>11. PhaseOK'
  BY <1>2, <1>5 DEF IInv, PhaseOK
<1> QED
  BY <1>1, <1>4, <1>7, <1>8, <1>9, <1>10, <1>11 DEF IInv, MarketOK

(* Steps that leave the buffer, the market and both lists alone, or empty the
   stream. *)
LEMMA ControlSteps ==
  ASSUME IInv, PhaseOK',
         UNCHANGED <<slots, head, tail, count, market, response>>,
         stream' = stream \/ stream' = <<>>
  PROVE  IInv'
<1>1. Times' = Times /\ BufferOK'
  <2>1. UNCHANGED <<times, head, tail, count>>
    BY DEF times
  <2> QED
    BY <2>1, SameMinutes DEF IInv, BufferOK, SlotsFunction
<1>2. StreamOK'
  <2>1. CASE stream' = stream
    BY <1>1, <2>1 DEF IInv, StreamOK, Now
  <2>2. CASE stream' = <<>>
    BY <2>2 DEF StreamOK
  <2> QED
    BY <2>1, <2>2
<1> QED
  BY <1>1, <1>2 DEF IInv, MarketOK, CacheOrdered, CachePast, ResponseOK, Now

(* The answer to the query is a list of successive minutes up to now. *)
LEMMA QueryStep ==
  ASSUME IInv, QueryKlines
  PROVE  IInv'
<1> DEFINE first == IF Now > PreloadLimit THEN Now - PreloadLimit + 1 ELSE 1
           n == Now - first + 1
<1>1. /\ first \in Minute /\ n \in Nat /\ first + n = Now + 1
      /\ market \in Seq(Closes) /\ Now = Len(market) /\ Now \in Minute
  <2>1. market \in Seq(Closes) /\ Now = Len(market) /\ Now \in 1 .. MaxTime /\ Now \in Nat
    BY DEF IInv, MarketOK, Minute, Now
  <2>2. PreloadLimit \in Nat /\ PreloadLimit >= 1
    BY PreloadAssumption, CapacityAssumption
  <2>3. first \in 1 .. MaxTime /\ n \in Nat /\ first + n = Now + 1
    <3>1. CASE Now > PreloadLimit
      BY <2>1, <2>2, <3>1, BoundsAssumption
    <3>2. CASE ~(Now > PreloadLimit)
      BY <2>1, <2>2, <3>2, BoundsAssumption
    <3> QED
      BY <3>1, <3>2
  <2> QED
    BY <2>1, <2>3 DEF Minute
<1> HIDE DEF first, n
<1>2. response' = [i \in 1 .. n |-> ToCandlestickData(KlineEvent(first + i - 1))]
  BY DEF QueryKlines, first, n
<1>3. \A i \in 1 .. n :
        /\ first + i - 1 \in 1 .. Len(market)
        /\ response'[i] \in Preloaded
        /\ response'[i].time = first + i - 1
  <2> TAKE i \in 1 .. n
  <2>1. first + i - 1 \in 1 .. Len(market) /\ first + i - 1 \in Minute
    <3>1. i \in Int /\ 1 <= i /\ i <= n /\ first \in Int /\ 1 <= first /\ Now <= MaxTime /\ Now \in Int
      BY <1>1 DEF Minute
    <3> QED
      BY <1>1, <3>1, BoundsAssumption DEF Minute
  <2>2. market[first + i - 1] \in Closes
    BY <1>1, <2>1, ElementOfSeq
  <2> QED
    BY <1>2, <2>1, <2>2 DEF ToCandlestickData, KlineEvent, Preloaded
<1>4. response' \in Seq(Preloaded) /\ Len(response') = n
  <2>1. response' \in [1 .. n -> Preloaded]
    BY <1>2, <1>3
  <2> QED
    BY <1>1, <2>1, FunctionIsSeq
<1>5. UNCHANGED <<slots, head, tail, count, market, stream>> /\ count = 0
  BY DEF QueryKlines, exchangeVars, bufferVars, IInv, PhaseOK
<1>6. ResponseOK'
  <2>1. first \in Int /\ n \in Int /\ Now' = Now /\ Now \in Int /\ count' = 0
    BY <1>1, <1>5 DEF Minute, Now
  <2>2. \A i \in 1 .. n : response'[i].time = first + i - 1 /\ i <= n
    BY <1>3, <2>1
  <2>3. \A i \in 1 .. n : response'[i].time <= Now'
    BY <1>1, <2>1, <2>2
  <2>4. \A i, j \in 1 .. n : i < j => response'[i].time < response'[j].time
    BY <2>1, <2>2
  <2> QED
    BY <1>4, <2>1, <2>3, <2>4 DEF ResponseOK
<1>7. Times' = Times /\ BufferOK'
  <2>1. UNCHANGED <<times, head, tail, count>>
    BY <1>5 DEF times
  <2> QED
    BY <1>5, <2>1, SameMinutes DEF IInv, BufferOK, SlotsFunction
<1>8. PhaseOK'
  BY <1>5 DEF QueryKlines, exchangeVars, IInv, PhaseOK
<1> QED
  BY <1>5, <1>6, <1>7, <1>8 DEF IInv, MarketOK, CacheOrdered, CachePast, StreamOK, Now

(* The next candle of the answer is later than all that are cached, and earlier
   than those that follow it. *)
LEMMA PreloadStep ==
  ASSUME IInv, PreloadAdd
  PROVE  IInv'
<1> DEFINE candle == Head(response)
<1>1. /\ response \in Seq(Preloaded) /\ response # <<>>
      /\ Len(response) \in Nat /\ Len(response) >= 1
      /\ candle = response[1] /\ candle \in Preloaded
  BY EmptySeq DEF PreloadAdd, IInv, ResponseOK
<1>2. /\ response' = Tail(response) /\ response' \in Seq(Preloaded)
      /\ Len(response') = Len(response) - 1
      /\ \A i \in 1 .. Len(response') : response'[i] = response[i + 1]
  BY <1>1 DEF PreloadAdd
<1>3. SlotsFunction' /\ T!Add(candle.time)
  BY AddAddsMinute DEF PreloadAdd, IInv, BufferOK
<1>4. /\ UNCHANGED <<market, live, stream, phase>>
      /\ phase = "adding" /\ stream = <<>>
  BY DEF PreloadAdd, exchangeVars, IInv, PhaseOK
<1>5. candle.time \in Minute /\ (count > 0 => Times[count] < candle.time)
  BY <1>1 DEF Preloaded, IInv, ResponseOK
<1>6. T!IndInv' /\ CacheOrdered' /\ count' > 0 /\ Times'[count'] = candle.time
  BY <1>3, <1>5, AddLater DEF IInv, BufferOK
<1>7. ResponseOK'
  <2>1. /\ \A i, j \in 1 .. Len(response) : i < j => response[i].time < response[j].time
        /\ \A i \in 1 .. Len(response) : response[i].time <= Now
    BY DEF IInv, ResponseOK
  <2>2. \A i \in 1 .. Len(response') : i + 1 \in 1 .. Len(response)
    BY <1>1, <1>2
  <2>3. \A i, j \in 1 .. Len(response') : i < j => response'[i].time < response'[j].time
    BY <1>1, <1>2, <2>1, <2>2
  <2>4. \A i \in 1 .. Len(response') :
          response'[i].time <= Now /\ Times'[count'] < response'[i].time
    BY <1>1, <1>2, <1>6, <2>1, <2>2
  <2> QED
    BY <1>2, <1>4, <2>3, <2>4 DEF ResponseOK, Now
<1>8. CachePast'
  BY <1>1, <1>4, <1>6 DEF CachePast, IInv, ResponseOK, Now
<1>9. StreamOK' /\ PhaseOK' /\ MarketOK'
  BY <1>4 DEF StreamOK, PhaseOK, MarketOK, IInv, Now
<1> QED
  BY <1>3, <1>6, <1>7, <1>8, <1>9 DEF IInv, BufferOK

(* The newest candle is the last of the cached minutes. *)
LEMMA NewestTime ==
  ASSUME BufferOK, count > 0
  PROVE  Times[count] = Buffer!Get(-1).time
<1>1. T!ArrayInv /\ count \in 1 .. Capacity /\ head \in 0 .. Capacity - 1
  BY T!ToArrayValue, CapacityAssumption DEF BufferOK, T!IndInv, T!TypeOK, T!Slot
<1>2. /\ (head + (count - 1)) % Capacity = (head + (count + -1)) % Capacity
      /\ (head + (count - 1)) % Capacity \in 0 .. Capacity - 1
  BY <1>1, CapacityAssumption
<1>3. Times[count] = slots[(head + (count - 1)) % Capacity].time
  BY <1>1, <1>2 DEF Times, T!ToArray, times
<1>4. Buffer!Get(-1) = slots[(head + (count - 1)) % Capacity]
  BY <1>2 DEF Buffer!Get, Buffer!Position
<1> QED
  BY <1>3, <1>4

(* An event that is not about the newest candle is about a later minute. *)
LEMMA CallbackStep ==
  ASSUME IInv, OnKlineUpdate
  PROVE  IInv'
<1> DEFINE event == Head(stream)
<1>1. /\ stream \in Seq([time : Minute, close : Closes]) /\ stream # <<>>
      /\ Len(stream) \in Nat /\ Len(stream) >= 1
      /\ event = stream[1] /\ event \in [time : Minute, close : Closes]
  <2>1. stream # <<>>
    BY DEF OnKlineUpdate
  <2>2. stream \in Seq([time : Minute, close : Closes])
    BY DEF IInv, StreamOK
  <2> HIDE DEF event
  <2>3. Len(stream) \in Nat /\ Len(stream) >= 1
    BY <2>1, <2>2, EmptySeq
  <2>4. event = stream[1]
    BY <2>2, <2>3 DEF event
  <2>5. event \in [time : Minute, close : Closes]
    BY <2>1, <2>2, HeadTailProperties DEF event
  <2> QED
    BY <2>1, <2>2, <2>3, <2>4, <2>5
<1>2. /\ stream' = Tail(stream) /\ stream' \in Seq([time : Minute, close : Closes])
      /\ Len(stream') = Len(stream) - 1
      /\ \A i \in 1 .. Len(stream') : stream'[i] = stream[i + 1]
  BY <1>1 DEF OnKlineUpdate
<1>3. /\ UNCHANGED <<market, live, phase, response>>
      /\ phase \notin {"idle", "adding"} /\ response = <<>>
  BY <1>1 DEF OnKlineUpdate, exchangeVars, IInv, PhaseOK
<1>4. /\ \A i, j \in 1 .. Len(stream) : i < j => stream[i].time <= stream[j].time
      /\ \A i \in 1 .. Len(stream) : stream[i].time <= Now
      /\ count > 0 => Times[count] <= event.time
  BY <1>1 DEF IInv, StreamOK
<1>5. /\ count \in Nat /\ (count > 0 => Times[count] \in Int)
      /\ event.time \in Minute /\ event.time \in Int
  BY <1>1, TimesAreIntegers DEF Minute
<1>6. BufferOK' /\ CacheOrdered' /\ count' > 0 /\ Times'[count'] = event.time
  <2>1. CASE IsUpdate(event) /\ UpdateNewest(event)
    <3>1. SlotsFunction' /\ UNCHANGED <<times, head, tail, count>>
      BY <2>1, UpdateKeepsMinutes DEF IInv
    <3>2. T!IndInv' /\ Times' = Times
      BY <3>1, SameMinutes DEF IInv
    <3>3. count > 0 /\ Times[count] = event.time
      BY <2>1, NewestTime DEF IsUpdate, IInv
    <3> QED
      BY <3>1, <3>2, <3>3 DEF IInv, BufferOK, CacheOrdered
  <2>2. CASE ~IsUpdate(event) /\ AddCandle(event)
    <3>1. PICK candle : candle.time = event.time /\ Buffer!Add(candle)
      BY <2>2 DEF AddCandle
    <3>2. SlotsFunction' /\ T!Add(event.time)
      BY <3>1, AddAddsMinute DEF IInv, BufferOK
    <3>3. count > 0 => Times[count] < event.time
      BY <1>4, <1>5, <2>2, NewestTime DEF IsUpdate, IInv
    <3>4. T!IndInv' /\ CacheOrdered' /\ count' > 0 /\ Times'[count'] = event.time
      BY <1>5, <3>2, <3>3, AddLater DEF IInv, BufferOK
    <3> QED
      BY <3>2, <3>4 DEF BufferOK
  <2> QED
    BY <2>1, <2>2 DEF OnKlineUpdate
<1>7. StreamOK'
  <2>1. \A i \in 1 .. Len(stream') : i + 1 \in 1 .. Len(stream)
    BY <1>1, <1>2
  <2>2. \A i, j \in 1 .. Len(stream') : i < j => stream'[i].time <= stream'[j].time
    BY <1>1, <1>2, <1>4, <2>1
  <2>3. \A i \in 1 .. Len(stream') :
          stream'[i].time <= Now /\ Times'[count'] <= stream'[i].time
    BY <1>1, <1>2, <1>4, <1>6, <2>1
  <2> QED
    BY <1>2, <1>3, <2>2, <2>3 DEF StreamOK, Now
<1>8. CachePast' /\ ResponseOK' /\ MarketOK'
  BY <1>1, <1>3, <1>4, <1>6 DEF CachePast, ResponseOK, MarketOK, IInv, Now
<1>9. PhaseOK'
  BY <1>3 DEF PhaseOK, IInv
<1> QED
  BY <1>6, <1>7, <1>8, <1>9 DEF IInv

-----------------------------------------------------------------------------

(* Every step keeps the order of the minutes. *)
LEMMA NextIInv ==
  ASSUME IInv, [Next]_vars
  PROVE  IInv'
<1> USE DEF exchangeVars, bufferVars, ghostVars
<1>1. ASSUME NEW close \in Closes, Trade(close) \/ OpenMinute(close) PROVE IInv'
  BY <1>1, MarketSteps
<1>2. CASE QueryKlines
  BY <1>2, QueryStep
<1>3. CASE PreloadAdd
  BY <1>3, PreloadStep
<1>4. CASE OnKlineUpdate
  BY <1>4, CallbackStep
<1>5. CASE StreamDown
  BY <1>5, ControlSteps DEF StreamDown, PhaseOK, IInv
<1>6. CASE StreamUp
  BY <1>6, ControlSteps DEF StreamUp, PhaseOK, IInv
<1>7. CASE QueryFails
  BY <1>7, ControlSteps DEF QueryFails, PhaseOK, IInv
<1>8. CASE APISubscribeToKlineUpdates
  <2>1. PhaseOK'
    <3>1. /\ phase = "adding" /\ response = <<>> /\ ~live /\ live \in BOOLEAN
          /\ response' = response /\ stream' = stream /\ count' = count
      BY <1>8 DEF APISubscribeToKlineUpdates, PhaseOK, IInv
    <3>2. CASE phase' = "subscribed" /\ live' = TRUE
      BY <3>1, <3>2 DEF PhaseOK
    <3>3. CASE phase' = "failed" /\ live' = live
      BY <3>1, <3>3 DEF PhaseOK
    <3> QED
      BY <1>8, <3>2, <3>3 DEF APISubscribeToKlineUpdates
  <2>2. UNCHANGED <<slots, head, tail, count, market, response, stream>>
    BY <1>8 DEF APISubscribeToKlineUpdates
  <2> QED
    BY <2>1, <2>2, ControlSteps
<1>9. CASE ClearTradeRules \/ RefillTradeRules
  BY <1>9, ControlSteps DEF ClearTradeRules, RefillTradeRules, PhaseOK, IInv
<1>10. CASE UNCHANGED vars
  BY <1>10, ControlSteps DEF vars, PhaseOK, IInv
<1> QED
  BY <1>1, <1>2, <1>3, <1>4, <1>5, <1>6, <1>7, <1>8, <1>9, <1>10 DEF Next

(* For every capacity and every bound: the cached candles are in order. *)
THEOREM CandlesAlwaysInOrder == Spec => []CandlesInOrder
<1>1. IInv => CandlesInOrder
  <2> SUFFICES ASSUME IInv PROVE CandlesInOrder
    OBVIOUS
  <2>1. /\ T!ArrayInv /\ count \in 0 .. Capacity /\ head \in 0 .. Capacity - 1
    BY T!ToArrayValue, CapacityAssumption DEF IInv, BufferOK, T!IndInv, T!TypeOK, T!Slot
  <2>2. ASSUME NEW i \in 1 .. count
        PROVE  Times[i] = Buffer!ToArray[i].time
    <3>1. (head + (i - 1)) % Capacity \in 0 .. Capacity - 1
      BY <2>1, CapacityAssumption
    <3> QED
      BY <3>1 DEF Times, T!ToArray, Buffer!ToArray, times
  <2> QED
    BY <2>2 DEF IInv, CacheOrdered, CandlesInOrder
<1> QED
  BY <1>1, InitIInv, NextIInv, PTL DEF Spec

-----------------------------------------------------------------------------
(* Streamed candles.  While the stream is up, the minutes since then follow one
   another: those already handled end the cache, the events continue them up to
   the present, and the last event of a minute, or its candle if there is none,
   has the close of the exchange. *)

(* The cached candles, newest first. *)
Recent == [n \in 1 .. count |-> Buffer!Get(-n)]

Newest == IF count > 0 THEN Recent[1].time ELSE 0

(* The last minute the callback has handled or the query has answered. *)
Reached == IF Newest > since THEN Newest ELSE since

EventsFollow ==
  /\ stream = <<>> => Reached = Now
  /\ stream # <<>> =>
       /\ stream[1].time \in {Reached, Reached + 1}
       /\ stream[Len(stream)].time = Now
       /\ \A i \in 1 .. Len(stream) - 1 :
            stream[i + 1].time \in {stream[i].time, stream[i].time + 1}

(* No event under way after the i-th is about minute t. *)
NoneAfter(str, i, t) == \A j \in 1 .. Len(str) : j > i => str[j].time # t

LastEventsExact ==
  \A i \in 1 .. Len(stream) :
    NoneAfter(stream, i, stream[i].time) => stream[i].close = market[stream[i].time]

CandlesExact ==
  \A t \in since + 1 .. Newest :
    Newest - t < Capacity =>
      /\ Newest - t + 1 <= count
      /\ Recent[Newest - t + 1].time = t
      /\ NoneAfter(stream, 0, t) => Recent[Newest - t + 1].close = market[t]

StreamInv ==
  /\ since \in 0 .. Now
  /\ ~live => stream = <<>>
  /\ live => EventsFollow /\ LastEventsExact /\ CandlesExact

-----------------------------------------------------------------------------

(* The counters of the cache. *)
LEMMA Counters ==
  ASSUME BufferOK
  PROVE  /\ Capacity \in Nat \ {0} /\ count \in 0 .. Capacity
         /\ head \in 0 .. Capacity - 1 /\ tail = (head + count) % Capacity
         /\ (count < Capacity => head = 0)
         /\ DOMAIN slots = 0 .. Capacity - 1
<1>1. DOMAIN slots = 0 .. Capacity - 1
  BY DEF BufferOK, SlotsFunction
<1> QED
  BY <1>1, CapacityAssumption DEF BufferOK, T!IndInv, T!TypeOK, T!Slot, T!Aligned

(* The slot of the n-th newest of c candles when the oldest is at h. *)
At(h, c, n) == IF h + c - n < Capacity THEN h + c - n ELSE h + c - n - Capacity

RecentInv == \A n \in 1 .. count : Recent[n] = slots[At(head, count, n)]

(* Where the n-th newest candle is, without the remainder. *)
LEMMA RecentAt == BufferOK => RecentInv
<1> USE DEF RecentInv
<1> SUFFICES ASSUME BufferOK, NEW n \in 1 .. count
             PROVE  Recent[n] = slots[At(head, count, n)]
  OBVIOUS
<1>1. n \in Int /\ -n < 0 /\ count + -n = count - n
  BY Counters
<1>2. Recent[n] = slots[(head + (count + -n)) % Capacity]
  BY <1>1 DEF Recent, Buffer!Get, Buffer!Position
<1>3. (head + (count + -n)) % Capacity = At(head, count, n)
  <2>1. /\ Capacity \in Nat \ {0} /\ count \in 0 .. Capacity
        /\ head \in 0 .. Capacity - 1 /\ n \in 1 .. count
    BY Counters
  <2> QED
    BY <2>1 DEF At
<1> QED
  BY <1>2, <1>3

(* Adding a candle makes it the newest; the others are one older. *)
LEMMA AddRecent ==
  ASSUME BufferOK, BufferOK', NEW candle, Buffer!Add(candle)
  PROVE  /\ count' = IF count < Capacity THEN count + 1 ELSE count
         /\ count' \in 1 .. Capacity
         /\ Recent'[1] = candle
         /\ \A n \in 2 .. count' : Recent'[n] = Recent[n - 1]
<1>1. /\ Capacity \in Nat \ {0} /\ count \in 0 .. Capacity
      /\ head \in 0 .. Capacity - 1
      /\ tail = IF head + count < Capacity THEN head + count ELSE head + count - Capacity
      /\ count < Capacity => head = 0
      /\ DOMAIN slots = 0 .. Capacity - 1
  BY Counters
<1>2. /\ slots' = [slots EXCEPT ![tail] = candle]
      /\ count' = IF count < Capacity THEN count + 1 ELSE count
      /\ head' = IF count < Capacity THEN 0
                 ELSE IF head + 1 < Capacity THEN head + 1 ELSE 0
  BY <1>1 DEF Buffer!Add
<1>3. count' \in 1 .. Capacity /\ head' \in 0 .. Capacity - 1
  BY <1>1, <1>2
<1>4. \A n \in 1 .. count' : Recent'[n] = slots'[At(head', count', n)]
  <2>1. RecentInv'
    BY RecentAt, PTL
  <2> QED
    BY <2>1 DEF RecentInv
<1>5. At(head', count', 1) = tail
  BY <1>1, <1>2, <1>3 DEF At
<1>6. Recent'[1] = candle
  <2>1. Recent'[1] = slots'[tail]
    BY <1>3, <1>4, <1>5
  <2>2. tail \in DOMAIN slots
    BY <1>1
  <2> QED
    BY <2>1, <2>2, <1>2
<1>7. ASSUME NEW n \in 2 .. count'
      PROVE  Recent'[n] = Recent[n - 1]
  <2>1. /\ n \in 1 .. count' /\ n - 1 \in 1 .. count
        /\ At(head', count', n) = At(head, count, n - 1)
        /\ At(head', count', n) \in 0 .. Capacity - 1
        /\ At(head', count', n) # tail
    BY <1>1, <1>2, <1>3 DEF At
  <2>2. Recent'[n] = slots'[At(head', count', n)]
    BY <1>4, <2>1
  <2>3. Recent[n - 1] = slots[At(head, count, n - 1)]
    BY <2>1, RecentAt DEF RecentInv
  <2> QED
    BY <1>1, <1>2, <2>1, <2>2, <2>3
<1> QED
  BY <1>2, <1>3, <1>6, <1>7

(* Replacing the newest candle leaves the others. *)
LEMMA SetRecent ==
  ASSUME BufferOK, BufferOK', NEW candle, Buffer!Set(-1, candle)
  PROVE  /\ count' = count /\ count \in 1 .. Capacity
         /\ Recent'[1] = candle
         /\ \A n \in 2 .. count : Recent'[n] = Recent[n]
<1>1. /\ Capacity \in Nat \ {0} /\ count \in 0 .. Capacity
      /\ head \in 0 .. Capacity - 1
      /\ DOMAIN slots = 0 .. Capacity - 1
  BY Counters
<1>2. count \in 1 .. Capacity
  BY <1>1 DEF Buffer!Set, Buffer!InRange
<1>3. Buffer!Position(-1) = At(head, count, 1)
  <2>1. Buffer!Position(-1) = (head + (count + -1)) % Capacity
    BY DEF Buffer!Position
  <2>2. (head + (count + -1)) % Capacity = At(head, count, 1)
    BY <1>1, <1>2 DEF At
  <2> QED
    BY <2>1, <2>2
<1>4. /\ slots' = [slots EXCEPT ![At(head, count, 1)] = candle]
      /\ head' = head /\ count' = count
  BY <1>3 DEF Buffer!Set
<1>5. \A n \in 1 .. count' : Recent'[n] = slots'[At(head', count', n)]
  <2>1. RecentInv'
    BY RecentAt, PTL
  <2> QED
    BY <2>1 DEF RecentInv
<1>6. Recent'[1] = candle
  <2>1. At(head, count, 1) \in DOMAIN slots
    BY <1>1, <1>2 DEF At
  <2>2. Recent'[1] = slots'[At(head, count, 1)]
    BY <1>2, <1>4, <1>5
  <2> QED
    BY <2>1, <2>2, <1>4
<1>7. ASSUME NEW n \in 2 .. count
      PROVE  Recent'[n] = Recent[n]
  <2>1. /\ n \in 1 .. count
        /\ At(head, count, n) \in 0 .. Capacity - 1
        /\ At(head, count, n) # At(head, count, 1)
    BY <1>1, <1>2 DEF At
  <2>2. Recent'[n] = slots'[At(head, count, n)]
    BY <1>4, <1>5, <2>1
  <2>3. Recent[n] = slots[At(head, count, n)]
    BY <2>1, RecentAt DEF RecentInv
  <2> QED
    BY <1>1, <1>4, <2>1, <2>2, <2>3
<1> QED
  BY <1>2, <1>4, <1>6, <1>7

(* The newest of the recent candles is the last of the cached minutes. *)
LEMMA NewestPast ==
  ASSUME IInv
  PROVE  Newest \in 0 .. Now /\ (count > 0 => Newest = Buffer!Get(-1).time)
<1>1. count \in Nat /\ Now \in Nat
  BY Counters DEF IInv, MarketOK, Minute
<1>2. CASE count = 0
  BY <1>1, <1>2 DEF Newest
<1>3. CASE count > 0
  <2>1. Recent[1] = Buffer!Get(-1)
    BY <1>1, <1>3 DEF Recent
  <2>2. Newest = Times[count]
    BY <1>3, <2>1, NewestTime DEF Newest, IInv
  <2>3. Times \in Seq(Minute) /\ Len(Times) = count
    BY TimesValue DEF IInv, BufferOK
  <2>4. Times[count] \in Minute
    BY <1>1, <1>3, <2>3, ElementOfSeq
  <2> QED
    BY <1>3, <2>1, <2>2, <2>4 DEF Newest, IInv, CachePast, Minute
<1> QED
  BY <1>1, <1>2, <1>3

(* A step that leaves the cache, the events and the market alone. *)
LEMMA QuietStep ==
  ASSUME IInv, StreamInv, UNCHANGED <<market, stream, slots, head, count>>,
         \/ UNCHANGED <<live, since>>
         \/ ~live /\ since' = Now
  PROVE  StreamInv'
<1>1. UNCHANGED <<Recent, Newest, Now>>
  BY DEF Recent, Newest, Buffer!Get, Buffer!Position, Now
<1>2. CASE UNCHANGED <<live, since>>
  BY <1>1, <1>2 DEF StreamInv, EventsFollow, LastEventsExact, CandlesExact, Reached
<1>3. CASE ~live /\ since' = Now
  <2>1. stream = <<>> /\ stream' = <<>>
    BY <1>3 DEF StreamInv
  <2>2. Now \in Nat /\ Newest \in 0 .. Now
    BY NewestPast DEF IInv, MarketOK, Minute
  <2>3. Reached' = Now'
    BY <1>1, <1>3, <2>2 DEF Reached
  <2>4. EventsFollow' /\ LastEventsExact'
    BY <2>1, <2>3 DEF EventsFollow, LastEventsExact
  <2>5. CandlesExact'
    BY <1>1, <1>3, <2>2 DEF CandlesExact
  <2>6. since' \in 0 .. Now'
    BY <1>1, <1>3, <2>2
  <2> QED
    BY <2>1, <2>4, <2>5, <2>6 DEF StreamInv
<1> QED
  BY <1>2, <1>3

(* The connection is lost, or not up at all: nothing is promised. *)
LEMMA DownStep ==
  ASSUME StreamInv, UNCHANGED <<market, since>>, ~live', stream' = <<>>
  PROVE  StreamInv'
<1> QED
  BY DEF StreamInv, Now

(* The exchange changes the price of a minute and says so. *)
LEMMA PublishStep ==
  ASSUME IInv, StreamInv, NEW close \in Closes, Trade(close) \/ OpenMinute(close)
  PROVE  StreamInv'
<1> DEFINE event == [time |-> Now', close |-> close]
<1>1. /\ market \in Seq(Closes) /\ Now \in Nat /\ Now' \in {Now, Now + 1}
      /\ market'[Now'] = close
      /\ \A t \in 1 .. Now : t # Now' => market'[t] = market[t]
  <2>1. market \in Seq(Closes) /\ Len(market) \in 1 .. MaxTime
    BY DEF IInv, MarketOK, Now, Minute
  <2>2. CASE Trade(close)
    BY <2>1, <2>2 DEF Trade, Now
  <2>3. CASE OpenMinute(close)
    BY <2>1, <2>3 DEF OpenMinute, Now
  <2> QED
    BY <2>1, <2>2, <2>3 DEF Now
<1>2. /\ UNCHANGED <<live, since, slots, head, count>>
      /\ stream' = IF live THEN Append(stream, event) ELSE stream
  <2>1. CASE Trade(close)
    <3>1. Now' = Now
      BY <2>1 DEF Trade, Now, IInv, MarketOK
    <3> QED
      BY <2>1, <3>1 DEF Trade, Publish, bufferVars, ghostVars
  <2>2. CASE OpenMinute(close)
    <3>1. Now' = Now + 1
      BY <2>2 DEF OpenMinute, Now, IInv, MarketOK
    <3> QED
      BY <2>2, <3>1 DEF OpenMinute, Publish, bufferVars, ghostVars
  <2> QED
    BY <2>1, <2>2
<1>3. UNCHANGED <<Recent, Newest, Reached>>
  BY <1>2 DEF Recent, Newest, Reached, Buffer!Get, Buffer!Position
<1>4. Newest \in 0 .. Now /\ since \in 0 .. Now /\ since' \in 0 .. Now'
  BY <1>1, <1>2, NewestPast DEF StreamInv
<1>5. CASE ~live
  BY <1>2, <1>4, <1>5 DEF StreamInv
<1>6. CASE live
  <2> DEFINE n == Len(stream)
  <2>0. EventsFollow /\ LastEventsExact /\ CandlesExact
    BY <1>6 DEF StreamInv
  <2>1. /\ stream \in Seq([time : Minute, close : Closes])
        /\ \A i \in 1 .. n : stream[i].time <= Now
    BY DEF IInv, StreamOK
  <2>2. /\ n \in Nat /\ \A i \in 1 .. n : stream[i].time \in 1 .. Now
    <3>1. n \in Nat
      BY <2>1, LenProperties
    <3>2. \A i \in 1 .. n : stream[i] \in [time : Minute, close : Closes]
      BY <2>1, ElementOfSeq
    <3> QED
      BY <1>1, <2>1, <3>1, <3>2 DEF Minute
  <2>3. /\ Len(stream') = n + 1
        /\ \A i \in 1 .. n : stream'[i] = stream[i]
        /\ stream'[n + 1].time = Now' /\ stream'[n + 1].close = close
    BY <1>2, <1>6, <2>1
  <2>4. EventsFollow'
    <3>1. stream' # <<>>
      BY <2>2, <2>3
    <3>2. stream'[1].time \in {Reached', Reached' + 1}
      <4>1. CASE stream = <<>>
        BY <1>1, <1>3, <2>0, <2>3, <4>1 DEF EventsFollow
      <4>2. CASE stream # <<>>
        <5>1. 1 \in 1 .. n
          BY <2>1, <2>2, <4>2
        <5> QED
          BY <1>3, <2>0, <2>3, <4>2, <5>1 DEF EventsFollow
      <4> QED
        BY <4>1, <4>2
    <3>3. ASSUME NEW i \in 1 .. n
          PROVE  stream'[i + 1].time \in {stream'[i].time, stream'[i].time + 1}
      <4>1. CASE i = n
        <5>1. stream # <<>>
          BY <2>2
        <5>2. stream[n].time = Now
          BY <2>0, <5>1 DEF EventsFollow
        <5> QED
          BY <1>1, <2>3, <4>1, <5>2
      <4>2. CASE i # n
        <5>1. i \in 1 .. n - 1 /\ i + 1 \in 1 .. n /\ stream # <<>>
          BY <2>2, <4>2
        <5>2. stream[i + 1].time \in {stream[i].time, stream[i].time + 1}
          BY <2>0, <5>1 DEF EventsFollow
        <5> QED
          BY <2>3, <5>1, <5>2
      <4> QED
        BY <4>1, <4>2
    <3>4. Len(stream') - 1 = n
      BY <2>2, <2>3
    <3> QED
      BY <2>3, <3>1, <3>2, <3>3, <3>4 DEF EventsFollow
  <2>5. LastEventsExact'
    <3> SUFFICES ASSUME NEW i \in 1 .. n + 1,
                        NoneAfter(stream', i, stream'[i].time)
                 PROVE  stream'[i].close = market'[stream'[i].time]
      BY <2>3 DEF LastEventsExact
    <3>1. CASE i = n + 1
      BY <1>1, <2>3, <3>1
    <3>2. CASE i # n + 1
      <4>1. i \in 1 .. n /\ i < n + 1 /\ n + 1 \in 1 .. Len(stream')
        BY <2>2, <2>3, <3>2
      <4>2. stream[i].time # Now' /\ stream'[i] = stream[i]
        BY <2>3, <4>1 DEF NoneAfter
      <4>3. NoneAfter(stream, i, stream[i].time)
        BY <2>2, <2>3, <4>1, <4>2 DEF NoneAfter
      <4>4. stream[i].close = market[stream[i].time]
        BY <2>0, <4>1, <4>3 DEF LastEventsExact
      <4> QED
        BY <1>1, <2>2, <4>1, <4>2, <4>4
    <3> QED
      BY <3>1, <3>2
  <2>6. CandlesExact'
    <3> SUFFICES ASSUME NEW t \in since + 1 .. Newest, Newest - t < Capacity
                 PROVE  /\ Newest - t + 1 <= count
                        /\ Recent[Newest - t + 1].time = t
                        /\ NoneAfter(stream', 0, t) =>
                             Recent[Newest - t + 1].close = market'[t]
      BY <1>2, <1>3 DEF CandlesExact
    <3>1. /\ Newest - t + 1 <= count
          /\ Recent[Newest - t + 1].time = t
          /\ NoneAfter(stream, 0, t) => Recent[Newest - t + 1].close = market[t]
      BY <2>0 DEF CandlesExact
    <3>2. ASSUME NoneAfter(stream', 0, t)
          PROVE  NoneAfter(stream, 0, t) /\ t # Now'
      BY <2>2, <2>3, <3>2 DEF NoneAfter
    <3>3. t \in 1 .. Now
      BY <1>1, <1>4
    <3> QED
      BY <1>1, <3>1, <3>2, <3>3
  <2> QED
    BY <1>2, <1>4, <1>6, <2>4, <2>5, <2>6 DEF StreamInv
<1> QED
  BY <1>5, <1>6 DEF IInv, PhaseOK

(* The callback handles the next event: it makes the event's minute the newest
   one, and every other recent candle stays the candle of its minute. *)
LEMMA HandleStep ==
  ASSUME IInv, IInv', StreamInv, OnKlineUpdate
  PROVE  StreamInv'
<1> DEFINE event == Head(stream)
           n == Len(stream)
<1>1. /\ stream # <<>> /\ stream' = Tail(stream)
      /\ UNCHANGED <<market, live, since>>
      /\ \/ IsUpdate(event) /\ UpdateNewest(event)
         \/ ~IsUpdate(event) /\ AddCandle(event)
  BY DEF OnKlineUpdate, exchangeVars
<1>2. live /\ EventsFollow /\ LastEventsExact /\ CandlesExact
  BY <1>1 DEF StreamInv, IInv, PhaseOK
<1>3. /\ n \in Nat \ {0} /\ event = stream[1]
      /\ Len(stream') = n - 1
      /\ \A i \in 1 .. n - 1 : stream'[i] = stream[i + 1]
  <2>1. stream \in Seq([time : Minute, close : Closes])
    BY DEF IInv, StreamOK
  <2> QED
    BY <1>1, <2>1
<1>4. event.time \in Nat
  <2>1. stream \in Seq([time : Minute, close : Closes]) /\ 1 \in 1 .. n
    BY <1>3 DEF IInv, StreamOK
  <2>2. stream[1] \in [time : Minute, close : Closes]
    BY <2>1, ElementOfSeq
  <2> QED
    BY <1>3, <2>2 DEF Minute
<1>5. /\ Now \in Nat /\ Now' = Now /\ since \in 0 .. Now /\ Newest \in 0 .. Now
      /\ count \in 0 .. Capacity /\ Capacity \in Nat \ {0}
  BY <1>1, NewestPast, Counters DEF StreamInv, IInv, MarketOK, Minute, Now
<1>6. event.time \in {Reached, Reached + 1}
  BY <1>1, <1>2, <1>3 DEF EventsFollow
<1>7. PICK candle :
        /\ candle.time = event.time /\ candle.close = event.close
        /\ \/ IsUpdate(event) /\ Buffer!Set(-1, candle)
           \/ ~IsUpdate(event) /\ Buffer!Add(candle)
  <2>1. CASE IsUpdate(event) /\ UpdateNewest(event)
    <3> DEFINE old == Buffer!Get(-1)
               sum(p) == event.close + CloseSum(1, p - 1)
               ma == [p \in Periods |->
                        IF Computes(p, count)
                          THEN AdjustedMA(old.ma[p], p, sum(p), old.close, event.close)
                          ELSE old.ma[p]]
               candle == [time |-> event.time, close |-> event.close, ma |-> ma]
    <3>1. Buffer!Set(-1, candle)
      BY <2>1 DEF UpdateNewest
    <3>2. candle.time = event.time /\ candle.close = event.close
      OBVIOUS
    <3> HIDE DEF candle
    <3> QED
      BY <2>1, <3>1, <3>2
  <2>2. CASE ~IsUpdate(event) /\ AddCandle(event)
    <3> DEFINE m == IF count < Capacity THEN count + 1 ELSE count
               sum(p) == event.close + CloseSum(0, p - 1)
               ma == [p \in Periods |-> IF Computes(p, m) THEN Mean(sum(p), p) ELSE 0]
               candle == [time |-> event.time, close |-> event.close, ma |-> ma]
    <3>1. Buffer!Add(candle)
      BY <2>2 DEF AddCandle
    <3>2. candle.time = event.time /\ candle.close = event.close
      OBVIOUS
    <3> HIDE DEF candle
    <3> QED
      BY <2>2, <3>1, <3>2
  <2> QED
    BY <1>1, <2>1, <2>2
<1>8. count' > 0 /\ count' \in 1 .. Capacity /\ Recent'[1] = candle
  BY <1>5, <1>7, AddRecent, SetRecent DEF IInv
<1>9. Newest' = event.time
  BY <1>7, <1>8 DEF Newest
<1>10. since <= event.time /\ event.time <= Now /\ Reached' = event.time
  <2>1. since <= event.time
    BY <1>4, <1>5, <1>6 DEF Reached
  <2>2. event.time <= Now
    BY <1>1, <1>3 DEF IInv, StreamOK
  <2> QED
    BY <1>1, <1>4, <1>5, <1>9, <2>1, <2>2 DEF Reached
<1>11. EventsFollow'
  <2>1. CASE n = 1
    <3>1. stream' = <<>> /\ event.time = Now
      BY <1>1, <1>2, <1>3, <2>1 DEF EventsFollow, IInv, StreamOK
    <3> QED
      BY <1>5, <1>10, <3>1 DEF EventsFollow
  <2>2. CASE n # 1
    <3>1. \A i \in 1 .. n - 1 :
            stream[i + 1].time \in {stream[i].time, stream[i].time + 1}
      BY <1>1, <1>2 DEF EventsFollow
    <3>2. stream[n].time = Now
      BY <1>1, <1>2 DEF EventsFollow
    <3>3. 1 \in 1 .. n - 1 /\ n - 1 \in 1 .. n - 1 /\ (n - 1) + 1 = n /\ 1 + 1 = 2
      BY <1>3, <2>2
    <3>4. stream'[1].time \in {Reached', Reached' + 1}
      BY <1>3, <1>10, <3>1, <3>3
    <3>5. stream'[Len(stream')].time = Now'
      BY <1>3, <1>5, <3>2, <3>3
    <3>6. ASSUME NEW i \in 1 .. Len(stream') - 1
          PROVE  stream'[i + 1].time \in {stream'[i].time, stream'[i].time + 1}
      <4>1. i \in 1 .. n - 1 /\ i + 1 \in 1 .. n - 1
        BY <1>3
      <4> QED
        BY <1>3, <3>1, <4>1
    <3>7. stream' # <<>>
      BY <1>3, <2>2
    <3> QED
      BY <3>4, <3>5, <3>6, <3>7 DEF EventsFollow
  <2> QED
    BY <2>1, <2>2
<1>12. LastEventsExact'
  <2> SUFFICES ASSUME NEW i \in 1 .. n - 1,
                      NoneAfter(stream', i, stream'[i].time)
               PROVE  stream'[i].close = market[stream'[i].time]
    BY <1>1, <1>3 DEF LastEventsExact
  <2>1. i + 1 \in 1 .. n /\ stream'[i] = stream[i + 1]
    BY <1>3
  <2>2. ASSUME NEW j \in 1 .. n, j > i + 1
        PROVE  stream[j].time # stream[i + 1].time
    <3>1. j - 1 \in 1 .. Len(stream') /\ j - 1 > i /\ (j - 1) + 1 = j
      BY <1>3, <2>2
    <3> QED
      BY <1>3, <2>1, <3>1 DEF NoneAfter
  <2>3. NoneAfter(stream, i + 1, stream[i + 1].time)
    BY <2>2 DEF NoneAfter
  <2> QED
    BY <1>2, <2>1, <2>3 DEF LastEventsExact
<1>13. ASSUME NEW t, NoneAfter(stream', 0, t)
       PROVE  NoneAfter(stream, 1, t)
  <2> SUFFICES ASSUME NEW j \in 1 .. n, j > 1
               PROVE  stream[j].time # t
    BY DEF NoneAfter
  <2>1. j - 1 \in 1 .. Len(stream') /\ j - 1 > 0 /\ (j - 1) + 1 = j
    BY <1>3
  <2> QED
    BY <1>3, <1>13, <2>1 DEF NoneAfter
<1>14. CandlesExact'
  <2> SUFFICES ASSUME NEW t \in since + 1 .. event.time, event.time - t < Capacity
               PROVE  /\ event.time - t + 1 <= count'
                      /\ Recent'[event.time - t + 1].time = t
                      /\ NoneAfter(stream', 0, t) =>
                           Recent'[event.time - t + 1].close = market[t]
    BY <1>1, <1>9 DEF CandlesExact
  <2>0. t \in Nat /\ t > since /\ t <= event.time
    BY <1>4, <1>5
  <2>1. CASE t = event.time
    <3>1. event.time - t + 1 = 1
      BY <1>4, <2>1
    <3>2. Recent'[1].time = t /\ Recent'[1].close = event.close
      BY <1>7, <1>8, <2>1
    <3>3. NoneAfter(stream', 0, t) => event.close = market[t]
      BY <1>2, <1>3, <1>13, <2>1 DEF LastEventsExact
    <3> QED
      BY <1>8, <3>1, <3>2, <3>3
  <2>2. CASE t # event.time
    <3>1. t < event.time
      BY <1>4, <2>0, <2>2
    <3>2. NoneAfter(stream', 0, t) => NoneAfter(stream, 0, t)
      <4> SUFFICES ASSUME NoneAfter(stream', 0, t), NEW j \in 1 .. n
                   PROVE  stream[j].time # t
        BY DEF NoneAfter
      <4>1. CASE j = 1
        BY <1>3, <2>2, <4>1
      <4>2. CASE j # 1
        BY <1>13, <4>2 DEF NoneAfter
      <4> QED
        BY <4>1, <4>2
    <3>3. t <= Newest /\ Newest > since /\ Reached = Newest /\ count > 0
      BY <1>4, <1>5, <1>6, <2>0, <3>1 DEF Reached, Newest
    <3>4. CASE IsUpdate(event) /\ Buffer!Set(-1, candle)
      <4>1. event.time = Newest
        BY <3>3, <3>4, NewestPast DEF IsUpdate
      <4>2. /\ Newest - t + 1 <= count
            /\ Recent[Newest - t + 1].time = t
            /\ NoneAfter(stream, 0, t) => Recent[Newest - t + 1].close = market[t]
        BY <1>2, <1>5, <2>0, <3>3, <4>1 DEF CandlesExact
      <4>3. count' = count /\ Newest - t + 1 \in 2 .. count
        BY <1>5, <2>0, <3>1, <3>4, <4>1, <4>2, SetRecent DEF IInv
      <4>4. Recent'[Newest - t + 1] = Recent[Newest - t + 1]
        BY <3>4, <4>3, SetRecent DEF IInv
      <4> QED
        BY <3>2, <4>1, <4>2, <4>3, <4>4
    <3>5. CASE ~IsUpdate(event) /\ Buffer!Add(candle)
      <4>1. event.time = Newest + 1
        BY <1>6, <3>3, <3>5, NewestPast DEF IsUpdate
      <4>2. /\ Newest - t + 1 <= count
            /\ Recent[Newest - t + 1].time = t
            /\ NoneAfter(stream, 0, t) => Recent[Newest - t + 1].close = market[t]
        BY <1>2, <1>5, <2>0, <3>3, <4>1 DEF CandlesExact
      <4>3. count' = IF count < Capacity THEN count + 1 ELSE count
        BY <3>5, AddRecent DEF IInv
      <4>4. /\ event.time - t + 1 \in 2 .. count'
            /\ (event.time - t + 1) - 1 = Newest - t + 1
        BY <1>5, <2>0, <3>3, <4>1, <4>2, <4>3
      <4>5. Recent'[event.time - t + 1] = Recent[Newest - t + 1]
        BY <3>5, <4>4, AddRecent DEF IInv
      <4> QED
        BY <3>2, <4>2, <4>4, <4>5
    <3> QED
      BY <1>7, <3>4, <3>5
  <2> QED
    BY <2>1, <2>2
<1> QED
  BY <1>1, <1>2, <1>5, <1>11, <1>12, <1>14 DEF StreamInv

-----------------------------------------------------------------------------

(* Every step keeps the streamed minutes following one another. *)
LEMMA NextStreamInv ==
  ASSUME IInv, IInv', StreamInv, [Next]_vars
  PROVE  StreamInv'
<1> USE DEF exchangeVars, bufferVars, ghostVars
<1>1. ASSUME NEW close \in Closes, Trade(close) \/ OpenMinute(close) PROVE StreamInv'
  BY <1>1, PublishStep
<1>2. CASE OnKlineUpdate
  BY <1>2, HandleStep
<1>3. CASE PreloadAdd
  <2>1. ~live /\ stream = <<>>
    BY <1>3 DEF PreloadAdd, IInv, PhaseOK
  <2> QED
    BY <1>3, <2>1, DownStep DEF PreloadAdd
<1>4. CASE StreamDown
  BY <1>4, DownStep DEF StreamDown
<1>5. CASE StreamUp
  BY <1>5, QuietStep DEF StreamUp
<1>6. CASE APISubscribeToKlineUpdates
  <2>1. ~live
    BY <1>6 DEF APISubscribeToKlineUpdates, IInv, PhaseOK
  <2>2. \/ UNCHANGED <<live, since>>
        \/ ~live /\ since' = Now
    BY <1>6, <2>1 DEF APISubscribeToKlineUpdates
  <2>3. UNCHANGED <<market, stream, slots, head, count>>
    BY <1>6 DEF APISubscribeToKlineUpdates
  <2> QED
    BY <2>2, <2>3, QuietStep
<1>7. CASE QueryKlines \/ QueryFails \/ ClearTradeRules \/ RefillTradeRules
  BY <1>7, QuietStep DEF QueryKlines, QueryFails, ClearTradeRules, RefillTradeRules
<1>8. CASE UNCHANGED vars
  BY <1>8, QuietStep DEF vars
<1> QED
  BY <1>1, <1>2, <1>3, <1>4, <1>5, <1>6, <1>7, <1>8 DEF Next

(* For every capacity and every bound: once the callback has handled every
   event, each minute since the stream came up is cached where its age says,
   with the close of the exchange. *)
THEOREM StreamedCandlesAreExact == Spec => []StreamedCandlesExact
<1>1. Init => StreamInv
  <2> SUFFICES ASSUME Init PROVE StreamInv
    OBVIOUS
  <2>1. since = 0 /\ Now \in Nat
    BY InitIInv DEF Init, IInv, MarketOK, Minute
  <2> QED
    BY <2>1 DEF Init, StreamInv
<1>2. IInv /\ StreamInv => StreamedCandlesExact
  <2> SUFFICES ASSUME IInv, StreamInv, live, stream = <<>>,
                      NEW t \in since + 1 .. Now, Now - t + 1 <= Capacity
               PROVE  LET candle == QueryNthRecentlyCached(Now - t + 1) IN
                      /\ Now - t + 1 <= count
                      /\ candle.time = t /\ candle.close = market[t]
    BY DEF StreamedCandlesExact
  <2>1. /\ Now \in Nat /\ since \in 0 .. Now /\ Newest \in 0 .. Now
        /\ count \in 0 .. Capacity /\ Capacity \in Nat \ {0}
    BY NewestPast, Counters DEF StreamInv, IInv, MarketOK, Minute
  <2>2. Reached = Now /\ CandlesExact
    BY DEF StreamInv, EventsFollow
  <2>3. Newest = Now
    BY <2>1, <2>2 DEF Reached
  <2>4. NoneAfter(stream, 0, t)
    BY DEF NoneAfter
  <2>5. /\ Now - t + 1 <= count
        /\ Recent[Now - t + 1].time = t
        /\ Recent[Now - t + 1].close = market[t]
    BY <2>1, <2>2, <2>3, <2>4 DEF CandlesExact
  <2>6. Now - t + 1 \in 1 .. count
    BY <2>1, <2>5
  <2>7. QueryNthRecentlyCached(Now - t + 1) = Recent[Now - t + 1]
    BY <2>1, <2>6 DEF QueryNthRecentlyCached, Recent
  <2> QED
    BY <2>5, <2>7
<1> QED
  BY <1>1, <1>2, InitIInv, NextIInv, NextStreamInv, PTL DEF Spec

-----------------------------------------------------------------------------
(* Closed candles. *)

(* A step adds one candle, replaces the newest one or leaves the cache alone. *)
LEMMA CacheSteps ==
  ASSUME [Next]_vars
  PROVE  \/ UNCHANGED <<slots, head, tail, count>>
         \/ \E candle : Buffer!Add(candle) \/ Buffer!Set(-1, candle)
<1> USE DEF exchangeVars, bufferVars, ghostVars
<1>1. ASSUME NEW close \in Closes, Trade(close) \/ OpenMinute(close)
      PROVE  UNCHANGED <<slots, head, tail, count>>
  BY <1>1 DEF Trade, OpenMinute
<1>2. CASE PreloadAdd
  BY <1>2 DEF PreloadAdd
<1>3. CASE OnKlineUpdate
  <2>1. CASE UpdateNewest(Head(stream))
    BY <2>1 DEF UpdateNewest
  <2>2. CASE AddCandle(Head(stream))
    BY <2>2 DEF AddCandle
  <2> QED
    BY <1>3, <2>1, <2>2 DEF OnKlineUpdate
<1>4. CASE \/ StreamDown \/ StreamUp \/ QueryKlines \/ QueryFails
           \/ APISubscribeToKlineUpdates \/ ClearTradeRules \/ RefillTradeRules
  BY <1>4 DEF StreamDown, StreamUp, QueryKlines, QueryFails, APISubscribeToKlineUpdates,
              ClearTradeRules, RefillTradeRules
<1>5. CASE UNCHANGED vars
  BY <1>5 DEF vars
<1> QED
  BY <1>1, <1>2, <1>3, <1>4, <1>5 DEF Next

ArrayInv == \A i \in 1 .. count : Buffer!ToArray[i] = Recent[count - i + 1]

(* The list of candles, oldest first, is the recent candles the other way. *)
LEMMA ArrayRecent == BufferOK => ArrayInv
<1> SUFFICES ASSUME BufferOK, NEW i \in 1 .. count
             PROVE  Buffer!ToArray[i] = Recent[count - i + 1]
  BY DEF ArrayInv
<1>1. /\ Capacity \in Nat \ {0} /\ count \in 0 .. Capacity
      /\ head \in 0 .. Capacity - 1
  BY Counters
<1>2. count - i + 1 \in 1 .. count
  BY <1>1
<1>3. Recent[count - i + 1] = slots[At(head, count, count - i + 1)]
  BY <1>2, RecentAt DEF RecentInv
<1>4. (head + (i - 1)) % Capacity = At(head, count, count - i + 1)
  BY <1>1 DEF At
<1>5. Buffer!ToArray[i] = slots[(head + (i - 1)) % Capacity]
  BY DEF Buffer!ToArray
<1> QED
  BY <1>3, <1>4, <1>5

(* For every capacity and every bound: a step changes the newest candle, appends
   one, and drops the oldest one of a full cache, and touches no other. *)
THEOREM ClosedCandlesStayFrozen == Spec => ClosedCandlesFrozen
<1> DEFINE dropped == IF count = Capacity /\ tail' # tail THEN 1 ELSE 0
           kept    == IF tail' # tail THEN count ELSE count - 1
           Frozen  == \A i \in dropped + 1 .. kept :
                        Buffer!ToArray'[i - dropped] = Buffer!ToArray[i]
<1>1. ASSUME IInv, IInv', [Next]_vars
      PROVE  [Frozen]_bufferVars
  <2>0. /\ BufferOK /\ BufferOK'
        /\ Capacity \in Nat \ {0} /\ count \in 0 .. Capacity
        /\ head \in 0 .. Capacity - 1
        /\ tail = IF head + count < Capacity THEN head + count ELSE head + count - Capacity
    BY <1>1, Counters DEF IInv
  <2>1. ArrayInv /\ ArrayInv'
    BY <2>0, ArrayRecent, PTL
  <2>2. CASE UNCHANGED <<slots, head, tail, count>>
    BY <2>2 DEF bufferVars
  <2>3. ASSUME NEW candle, Buffer!Add(candle), NEW i \in dropped + 1 .. kept
        PROVE  Buffer!ToArray'[i - dropped] = Buffer!ToArray[i]
    <3>1. /\ count' = IF count < Capacity THEN count + 1 ELSE count
          /\ count' \in 1 .. Capacity
          /\ \A n \in 2 .. count' : Recent'[n] = Recent[n - 1]
      BY <2>0, <2>3, AddRecent
    <3>2. tail' = IF tail + 1 < Capacity THEN tail + 1 ELSE 0
      BY <2>0, <2>3 DEF Buffer!Add
    <3>3. tail' # tail \/ (Capacity = 1 /\ tail' = tail)
      BY <2>0, <3>2
    <3>4. /\ i \in 1 .. count /\ i - dropped \in 1 .. count'
          /\ count - i + 2 \in 2 .. count'
          /\ count' - (i - dropped) + 1 = count - i + 2
          /\ (count - i + 2) - 1 = count - i + 1
      BY <2>0, <2>3, <3>1, <3>3
    <3>5. Buffer!ToArray'[i - dropped] = Recent'[count' - (i - dropped) + 1]
      <4> HIDE DEF dropped
      <4> QED
        BY <2>1, <3>4 DEF ArrayInv
    <3>6. Buffer!ToArray[i] = Recent[count - i + 1]
      BY <2>1, <3>4 DEF ArrayInv
    <3> QED
      BY <3>1, <3>4, <3>5, <3>6
  <2>4. ASSUME NEW candle, Buffer!Set(-1, candle), NEW i \in dropped + 1 .. kept
        PROVE  Buffer!ToArray'[i - dropped] = Buffer!ToArray[i]
    <3>1. /\ count' = count /\ \A n \in 2 .. count : Recent'[n] = Recent[n]
          /\ tail' = tail
      BY <2>0, <2>4, SetRecent DEF Buffer!Set
    <3>2. /\ dropped = 0 /\ i - dropped = i /\ i \in 1 .. count
          /\ count - i + 1 \in 2 .. count
      BY <2>0, <2>4, <3>1
    <3>3. /\ Buffer!ToArray'[i] = Recent'[count - i + 1]
          /\ Buffer!ToArray[i] = Recent[count - i + 1]
      BY <2>1, <3>1, <3>2 DEF ArrayInv
    <3> QED
      BY <3>1, <3>2, <3>3
  <2> QED
    BY <1>1, <2>2, <2>3, <2>4, CacheSteps
<1> QED
  BY <1>1, InitIInv, NextIInv, PTL DEF Spec, ClosedCandlesFrozen

-----------------------------------------------------------------------------
(* Types and averages. *)

(* Every cached candle is one. *)
CachedOK == \A n \in 1 .. count : Recent[n] \in Candle

(* The terms of the sums: the closes of the cached candles, newest first. *)
RecentCloses == [n \in 1 .. count |-> Recent[n].close]

(* Rounding is by half a unit at most. *)
LEMMA RoundError ==
  ASSUME NEW n \in Int, NEW d \in Nat \ {0}
  PROVE  /\ RoundHalfEven(n, d) \in Int
         /\ 2 * (d * RoundHalfEven(n, d) - n) <= d
         /\ 2 * (n - d * RoundHalfEven(n, d)) <= d
<1> DEFINE q == n \div d
           r == n % d
<1>1. q \in Int /\ r \in 0 .. d - 1 /\ n = d * q + r
  OBVIOUS
<1>2. d * (q + 1) = d * q + d /\ d * q \in Int
  BY <1>1
<1>3. RoundHalfEven(n, d) = IF 2 * r < d \/ (2 * r = d /\ q % 2 = 0) THEN q ELSE q + 1
  BY DEF RoundHalfEven
<1> HIDE DEF q, r
<1>4. CASE 2 * r < d \/ (2 * r = d /\ q % 2 = 0)
  BY <1>1, <1>2, <1>3, <1>4
<1>5. CASE ~(2 * r < d \/ (2 * r = d /\ q % 2 = 0))
  <2>1. RoundHalfEven(n, d) = q + 1 /\ 2 * r >= d
    BY <1>1, <1>3, <1>5
  <2> QED
    BY <1>1, <1>2, <2>1
<1> QED
  BY <1>4, <1>5

(* So is a mean, as often as it has terms. *)
LEMMA MeanError ==
  ASSUME NEW sum \in Int, NEW p \in Periods
  PROVE  /\ Mean(sum, p) \in Int /\ p * Mean(sum, p) \in Int /\ p * MAUnit \in Nat \ {0}
         /\ 2 * (p * Mean(sum, p) - sum) <= p * MAUnit
         /\ 2 * (sum - p * Mean(sum, p)) <= p * MAUnit
<1>1. p \in Nat \ {0} /\ MAUnit \in Nat \ {0}
  BY PeriodsAssumption
<1>2. p * MAUnit \in Nat \ {0}
  BY <1>1
<1> DEFINE d == p * MAUnit
           R == RoundHalfEven(sum, d)
<1>3. R \in Int /\ 2 * (d * R - sum) <= d /\ 2 * (sum - d * R) <= d
  BY <1>2, RoundError
<1>4. Mean(sum, p) = MAUnit * R
  BY DEF Mean
<1>5. \A i, j, k \in Int : i * (j * k) = (i * j) * k /\ j * k \in Int /\ i * (j * k) \in Int
  OBVIOUS
<1> HIDE DEF R
<1>6. p * Mean(sum, p) = d * R /\ Mean(sum, p) \in Int /\ p * Mean(sum, p) \in Int
  BY <1>1, <1>3, <1>4, <1>5
<1> HIDE DEF d
<1> QED
  BY <1>2, <1>3, <1>6 DEF d

(* The sum of closes, as one over cached candles: it is an integer, and the first
   term can be taken out. *)
CloseSumInv ==
  \A skip, n \in Nat : skip + n <= count =>
    /\ CloseSum(skip, n) = SumFunctionOnSet(RecentCloses, skip + 1 .. skip + n)
    /\ CloseSum(skip, n) \in Int
    /\ n > 0 => CloseSum(skip, n) = Recent[skip + 1].close + CloseSum(skip + 1, n - 1)

ClosesInv == \A n \in 1 .. count : RecentCloses[n] = Recent[n].close /\ RecentCloses[n] \in Int

(* The candles that a buffer holds have integer closes. *)
LEMMA ClosesAreIntegers == CachedOK => ClosesInv
<1> SUFFICES ASSUME CachedOK, NEW n \in 1 .. count
             PROVE  RecentCloses[n] = Recent[n].close /\ RecentCloses[n] \in Int
  BY DEF ClosesInv
<1>1. Recent[n].close \in Closes
  BY DEF CachedOK, Candle
<1>2. Recent[n].close \in Int
  <2>1. \A close \in Closes : close \in Int
    BY ClosesAssumption
  <2> QED
    BY <1>1, <2>1
<1>3. RecentCloses[n] = Recent[n].close
  BY DEF RecentCloses
<1> QED
  BY <1>2, <1>3

(* The sum in the model, whose terms are read from the buffer. *)
LEMMA CloseSumValue ==
  ASSUME CachedOK, count \in Nat, NEW skip \in Nat, NEW n \in Nat, skip + n <= count
  PROVE  /\ CloseSum(skip, n) = SumFunctionOnSet(RecentCloses, skip + 1 .. skip + n)
         /\ CloseSum(skip, n) \in Int
<1> DEFINE S == skip + 1 .. skip + n
           closes == [i \in S |-> Buffer!Get(-i).close]
<1>1. IsFiniteSet(S)
  BY FS_Interval
<1>2. ASSUME NEW i \in S PROVE closes[i] \in Int /\ closes[i] = RecentCloses[i]
  <2>1. i \in 1 .. count
    OBVIOUS
  <2>2. Recent[i] = Buffer!Get(-i)
    BY <2>1 DEF Recent
  <2>3. RecentCloses[i] = Recent[i].close /\ RecentCloses[i] \in Int
    BY <2>1, ClosesAreIntegers DEF ClosesInv
  <2> QED
    BY <2>2, <2>3
<1>3. CloseSum(skip, n) = SumFunctionOnSet(closes, S)
  BY DEF CloseSum, SumFunction
<1> HIDE DEF closes, S
<1>4. SumFunctionOnSet(closes, S) = SumFunctionOnSet(RecentCloses, S) /\ SumFunctionOnSet(closes, S) \in Int
  BY <1>1, <1>2, SumAgrees, SumType
<1> QED
  BY <1>3, <1>4 DEF S

(* The sum of closes, taken one candle at a time from the newest on. *)
LEMMA CloseSums == CachedOK /\ BufferOK => CloseSumInv
<1>0. BufferOK => count \in Nat
  BY Counters
<1> SUFFICES ASSUME CachedOK, count \in Nat, NEW skip \in Nat, NEW n \in Nat, skip + n <= count
             PROVE  /\ CloseSum(skip, n) = SumFunctionOnSet(RecentCloses, skip + 1 .. skip + n)
                    /\ CloseSum(skip, n) \in Int
                    /\ n > 0 => CloseSum(skip, n) = Recent[skip + 1].close + CloseSum(skip + 1, n - 1)
  BY <1>0 DEF CloseSumInv
<1>1. CASE n = 0
  BY <1>1, CloseSumValue
<1>2. CASE n > 0
  <2> DEFINE S == skip + 1 .. skip + n
  <2>1. IsFiniteSet(S) /\ skip + 1 \in S
    BY <1>2, FS_Interval
  <2>2. \A i \in S : RecentCloses[i] = Recent[i].close /\ RecentCloses[i] \in Int
    BY ClosesAreIntegers DEF ClosesInv
  <2>3. S \ {skip + 1} = (skip + 1) + 1 .. (skip + 1) + (n - 1)
    BY <1>2
  <2>4. /\ skip + 1 \in Nat /\ n - 1 \in Nat /\ (skip + 1) + (n - 1) <= count
    BY <1>2
  <2>5. CloseSum(skip + 1, n - 1) = SumFunctionOnSet(RecentCloses, S \ {skip + 1})
    <3> HIDE DEF S
    <3> QED
      BY <2>3, <2>4, CloseSumValue
  <2>6. CloseSum(skip, n) = SumFunctionOnSet(RecentCloses, S)
    BY CloseSumValue
  <2> HIDE DEF S
  <2>7. CloseSum(skip, n) = RecentCloses[skip + 1] + CloseSum(skip + 1, n - 1)
    BY <2>1, <2>2, <2>5, <2>6, SumWithout
  <2> QED
    BY <2>1, <2>2, <2>7, CloseSumValue
<1> QED
  BY <1>1, <1>2

(* The recent sum of a replaced newest candle. *)
LEMMA SumAfterSet ==
  ASSUME CachedOK, CachedOK', BufferOK, BufferOK', NEW candle, Buffer!Set(-1, candle),
         NEW p \in 1 .. count
  PROVE  /\ CloseSum(1, p - 1) \in Int
         /\ CloseSum(0, p) = Recent[1].close + CloseSum(1, p - 1)
         /\ CloseSum(0, p)' = candle.close + CloseSum(1, p - 1)
<1>1. count \in Nat /\ count' = count /\ Recent'[1] = candle
      /\ \A n \in 2 .. count : Recent'[n] = Recent[n]
  BY Counters, SetRecent
<1>2. CloseSumInv /\ CloseSumInv'
  BY CloseSums, PTL
<1>3. p \in Nat /\ p - 1 \in Nat /\ 1 \in Nat /\ 0 \in Nat /\ p > 0 /\ 0 + p <= count
      /\ 1 + (p - 1) <= count /\ 0 + 1 = 1
  BY <1>1
<1>4. CloseSum(1, p - 1) \in Int /\ CloseSum(0, p) = Recent[1].close + CloseSum(1, p - 1)
  <2>1. CloseSum(1, p - 1) \in Int
    BY ONLY <1>2, <1>3 DEF CloseSumInv
  <2>2. CloseSum(0, p) = Recent[0 + 1].close + CloseSum(0 + 1, p - 1)
    BY ONLY <1>2, <1>3 DEF CloseSumInv
  <2> QED
    BY <1>3, <2>1, <2>2
<1>5. CloseSum(0, p)' = candle.close + CloseSum(1, p - 1)'
  <2>1. CloseSum(0, p)' = Recent'[0 + 1].close + CloseSum(0 + 1, p - 1)'
    BY <1>1, <1>2, <1>3 DEF CloseSumInv
  <2> QED
    BY <1>1, <1>3, <2>1
<1>6. CloseSum(1, p - 1)' = CloseSum(1, p - 1)
  <2> DEFINE S == 1 + 1 .. 1 + (p - 1)
  <2>1. IsFiniteSet(S)
    BY <1>3, FS_Interval
  <2>2. ClosesInv /\ ClosesInv'
    BY ClosesAreIntegers, PTL
  <2>3. ASSUME NEW i \in S PROVE RecentCloses[i] \in Int /\ RecentCloses[i] = RecentCloses'[i]
    <3>1. i \in 1 .. count /\ i \in 2 .. count
      BY <1>1
    <3> QED
      BY <1>1, <2>2, <3>1 DEF ClosesInv
  <2>4. CloseSum(1, p - 1) = SumFunctionOnSet(RecentCloses, S)
        /\ CloseSum(1, p - 1)' = SumFunctionOnSet(RecentCloses', S)
    BY <1>1, <1>2, <1>3 DEF CloseSumInv
  <2> HIDE DEF S
  <2> QED
    BY <2>1, <2>3, <2>4, SumAgrees
<1> QED
  BY <1>4, <1>5, <1>6

(* The recent sum with a new candle: the others are one older. *)
LEMMA SumAfterAdd ==
  ASSUME CachedOK, CachedOK', BufferOK, BufferOK', NEW candle, Buffer!Add(candle),
         NEW p \in 1 .. count'
  PROVE  CloseSum(0, p - 1) \in Int /\ CloseSum(0, p)' = candle.close + CloseSum(0, p - 1)
<1>1. /\ count \in Nat /\ count' \in Nat /\ count' = IF count < Capacity THEN count + 1 ELSE count
      /\ Recent'[1] = candle /\ \A n \in 2 .. count' : Recent'[n] = Recent[n - 1]
      /\ Capacity \in Nat
  BY Counters, AddRecent
<1>2. CloseSumInv /\ CloseSumInv'
  BY CloseSums, PTL
<1>3. p \in Nat /\ p - 1 \in Nat /\ 1 \in Nat /\ 0 \in Nat /\ p > 0 /\ 0 + p <= count'
      /\ 1 + (p - 1) <= count' /\ 0 + (p - 1) <= count /\ 0 + 1 = 1
  BY <1>1
<1>4. CloseSum(0, p - 1) \in Int
  BY <1>2, <1>3 DEF CloseSumInv
<1>5. CloseSum(0, p)' = candle.close + CloseSum(1, p - 1)'
  <2>1. Recent'[0 + 1] = candle
    BY <1>1
  <2>2. CloseSum(0, p)' = Recent'[0 + 1].close + CloseSum(0 + 1, p - 1)'
    BY <1>2, <1>3 DEF CloseSumInv
  <2> QED
    BY <2>1, <2>2
<1>6. CloseSum(1, p - 1)' = CloseSum(0, p - 1)
  <2> DEFINE S == 0 + 1 .. 0 + (p - 1)
             older == [i \in S |-> i + 1]
             R == 1 + 1 .. 1 + (p - 1)
  <2>1. IsFiniteSet(S)
    BY <1>3, FS_Interval
  <2>2. ClosesInv /\ ClosesInv'
    BY ClosesAreIntegers, PTL
  <2>3. ASSUME NEW i \in S
        PROVE  RecentCloses[i] \in Int /\ RecentCloses'[older[i]] = RecentCloses[i]
    <3>1. i \in 1 .. count /\ i + 1 \in 2 .. count' /\ i + 1 \in 1 .. count' /\ (i + 1) - 1 = i
          /\ older[i] = i + 1
      BY <1>1
    <3> HIDE DEF older, S
    <3> QED
      BY <1>1, <2>2, <3>1 DEF ClosesInv
  <2>4. {older[i] : i \in S} = R
    <3>1. ASSUME NEW j \in R PROVE j - 1 \in S /\ older[j - 1] = j
      BY <1>3
    <3>2. \A i \in S : older[i] \in R
      BY <1>3
    <3> QED
      BY <3>1, <3>2
  <2>5. \A i, j \in S : older[i] = older[j] => i = j
    BY <1>3
  <2>6. CloseSum(0, p - 1) = SumFunctionOnSet(RecentCloses, S)
        /\ CloseSum(1, p - 1)' = SumFunctionOnSet(RecentCloses', R)
    BY <1>1, <1>2, <1>3 DEF CloseSumInv
  <2> HIDE DEF S, R, older
  <2> QED
    BY <2>1, <2>3, <2>4, <2>5, <2>6, SumRenamed
<1> QED
  BY <1>4, <1>5, <1>6

-----------------------------------------------------------------------------
(* The types of all variables, which the sums need. *)

Event == [time : Minute, close : Closes]

TypeInv ==
  /\ C!IndInv
  /\ trades \in 0 .. MaxTrades
  /\ hasRule \in BOOLEAN
  /\ since \in 0 .. MaxTime
  /\ owed \in [Periods -> Int]
  /\ roundings \in [Periods -> Nat]

(* The cached candles are candles, and none of them is the filler. *)
LEMMA CandlesTyped == TypeInv => CachedOK
<1> SUFFICES ASSUME TypeInv, NEW n \in 1 .. count
             PROVE  Recent[n] \in Candle
  BY DEF CachedOK
<1>1. count \in 0 .. Capacity /\ Capacity \in Nat
  BY CapacityAssumption DEF TypeInv, C!IndInv, C!TypeOK
<1>2. C!InRange(-n)
  BY <1>1 DEF C!InRange
<1>3. /\ C!Position(-n) \in C!Slot /\ C!Position(-n) < Capacity
      /\ count < Capacity => C!Position(-n) < count
  BY <1>2, C!PositionInSlot, CapacityAssumption DEF TypeInv
<1>4. C!Position(-n) < count
  BY <1>1, <1>3
<1>5. slots[C!Position(-n)] \in Candle
  BY <1>3, <1>4 DEF TypeInv, C!IndInv, C!Filled
<1>6. Recent[n] = slots[C!Position(-n)]
  BY DEF Recent, Buffer!Get, Buffer!Position, C!Position
<1> QED
  BY <1>5, <1>6

(* A price is an integer. *)
LEMMA PricesAreIntegers == \A close \in Closes : close \in Int
BY ClosesAssumption

(* The candle that replaces the newest one. *)
LEMMA UpdateValues ==
  ASSUME IInv, TypeInv, NEW event \in Event, IsUpdate(event), UpdateNewest(event)
  PROVE  \E candle \in Candle :
           /\ Buffer!Set(-1, candle) /\ candle.close = event.close
           /\ \A p \in Periods :
                candle.ma[p] =
                  IF Computes(p, count)
                    THEN AdjustedMA(Recent[1].ma[p], p, event.close + CloseSum(1, p - 1),
                                    Recent[1].close, event.close)
                    ELSE Recent[1].ma[p]
<1> DEFINE old == Recent[1]
           ma == [p \in Periods |->
                    IF Computes(p, count)
                      THEN AdjustedMA(old.ma[p], p, event.close + CloseSum(1, p - 1),
                                      old.close, event.close)
                      ELSE old.ma[p]]
           candle == [time |-> event.time, close |-> event.close, ma |-> ma]
<1>1. count \in Nat /\ 1 \in 1 .. count
  BY Counters DEF IsUpdate, IInv
<1>2. old = Buffer!Get(-1) /\ old \in Candle
  BY <1>1, CandlesTyped DEF Recent, CachedOK
<1>3. Buffer!Set(-1, candle)
  <2>1. ma = [p \in Periods |->
                IF Computes(p, count)
                  THEN AdjustedMA(Buffer!Get(-1).ma[p], p, event.close + CloseSum(1, p - 1),
                                  Buffer!Get(-1).close, event.close)
                  ELSE Buffer!Get(-1).ma[p]]
    BY <1>2
  <2> QED
    BY <2>1 DEF UpdateNewest
<1>4. event.close \in Closes /\ event.time \in Minute /\ event.close \in Int
  BY PricesAreIntegers DEF Event
<1>5. old.ma \in [Periods -> Int] /\ old.close \in Int
  <2>1. old.ma \in [Periods -> Int] /\ old.close \in Closes
    BY <1>2 DEF Candle
  <2> QED
    BY <2>1, PricesAreIntegers
<1> HIDE DEF old
<1>6. ma \in [Periods -> Int]
  <2> SUFFICES ASSUME NEW p \in Periods, Computes(p, count)
               PROVE  AdjustedMA(old.ma[p], p, event.close + CloseSum(1, p - 1),
                                 old.close, event.close) \in Int
    BY <1>5
  <2> DEFINE s == event.close + CloseSum(1, p - 1)
             x == (IF old.ma[p] # 0 THEN old.ma[p] * p ELSE s) - old.close + event.close
  <2>1. p \in Nat \ {0} /\ p <= count
    BY <1>1, PeriodsAssumption DEF Computes
  <2>2. CloseSumInv
    BY CandlesTyped, CloseSums DEF IInv
  <2>3. CloseSum(1, p - 1) \in Int
    <3>1. p - 1 \in Nat /\ 1 + (p - 1) <= count
      BY <1>1, <2>1
    <3> QED
      BY <2>2, <3>1 DEF CloseSumInv
  <2>4. old.ma[p] \in Int /\ old.ma[p] * p \in Int
    BY <1>5, <2>1
  <2>5. x \in Int
    BY <1>4, <1>5, <2>3, <2>4
  <2>6. AdjustedMA(old.ma[p], p, s, old.close, event.close) = Mean(x, p)
    BY DEF AdjustedMA
  <2> HIDE DEF x, s
  <2>7. Mean(x, p) \in Int
    BY <2>5, MeanError
  <2> QED
    BY <2>6, <2>7 DEF s
<1> HIDE DEF ma
<1>7. candle \in Candle /\ candle.close = event.close /\ candle.ma = ma
  BY <1>4, <1>6 DEF Candle, Minute
<1> QED
  <2>1. \A p \in Periods :
          candle.ma[p] =
            IF Computes(p, count)
              THEN AdjustedMA(Recent[1].ma[p], p, event.close + CloseSum(1, p - 1),
                              Recent[1].close, event.close)
              ELSE Recent[1].ma[p]
    BY <1>7 DEF ma, old
  <2> HIDE DEF candle
  <2> QED
    BY <1>3, <1>7, <2>1

(* The candle that is added. *)
LEMMA AddValues ==
  ASSUME IInv, TypeInv, NEW event \in Event, AddCandle(event)
  PROVE  \E candle \in Candle :
           /\ Buffer!Add(candle) /\ candle.close = event.close
           /\ LET n == IF count < Capacity THEN count + 1 ELSE count IN
              \A p \in Periods :
                candle.ma[p] =
                  IF Computes(p, n) THEN Mean(event.close + CloseSum(0, p - 1), p) ELSE 0
<1> DEFINE n == IF count < Capacity THEN count + 1 ELSE count
           ma == [p \in Periods |->
                    IF Computes(p, n) THEN Mean(event.close + CloseSum(0, p - 1), p) ELSE 0]
           candle == [time |-> event.time, close |-> event.close, ma |-> ma]
<1>1. count \in Nat /\ n \in Nat /\ n <= count + 1
  <2>1. count \in 0 .. Capacity /\ Capacity \in Nat
    BY Counters DEF IInv
  <2> QED
    BY <2>1
<1>2. Buffer!Add(candle)
  BY DEF AddCandle
<1>3. event.close \in Closes /\ event.time \in Minute /\ event.close \in Int
  BY PricesAreIntegers DEF Event
<1> HIDE DEF n
<1>4. ma \in [Periods -> Int]
  <2> SUFFICES ASSUME NEW p \in Periods, Computes(p, n)
               PROVE  Mean(event.close + CloseSum(0, p - 1), p) \in Int
    OBVIOUS
  <2>1. p \in Nat \ {0} /\ p <= n
    BY <1>1, PeriodsAssumption DEF Computes
  <2>2. p - 1 \in Nat /\ 0 + (p - 1) <= count
    BY <1>1, <2>1
  <2>3. CloseSumInv
    BY CandlesTyped, CloseSums DEF IInv
  <2>4. CloseSum(0, p - 1) \in Int
    BY <2>2, <2>3 DEF CloseSumInv
  <2>5. event.close + CloseSum(0, p - 1) \in Int
    BY <1>3, <2>4
  <2> QED
    BY <2>5, MeanError
<1> HIDE DEF ma
<1>5. candle \in Candle /\ candle.close = event.close /\ candle.ma = ma
  BY <1>3, <1>4 DEF Candle, Minute
<1> QED
  <2>1. \A p \in Periods :
          candle.ma[p] =
            IF Computes(p, n) THEN Mean(event.close + CloseSum(0, p - 1), p) ELSE 0
    BY <1>5 DEF ma
  <2> HIDE DEF candle
  <2> QED
    BY <1>2, <1>5, <2>1 DEF n

(* A candle written into the buffer keeps its invariant. *)
LEMMA BufferTyped ==
  ASSUME C!IndInv,
         \/ UNCHANGED <<slots, head, tail, count>>
         \/ \E candle \in Candle : Buffer!Add(candle) \/ Buffer!Set(-1, candle)
  PROVE  C!IndInv'
<1>1. CASE UNCHANGED <<slots, head, tail, count>>
  BY <1>1 DEF C!IndInv, C!TypeOK, C!Aligned, C!Filled
<1>2. ASSUME NEW candle \in Candle, Buffer!Add(candle) PROVE C!IndInv'
  <2>1. C!Add(candle)
    BY <1>2 DEF Buffer!Add, C!Add
  <2> QED
    BY <2>1, C!AddInv, CapacityAssumption
<1>3. ASSUME NEW candle \in Candle, Buffer!Set(-1, candle) PROVE C!IndInv'
  <2>1. C!Set(-1, candle)
    BY <1>3 DEF Buffer!Set, C!Set, Buffer!InRange, C!InRange, Buffer!Position, C!Position
  <2> QED
    BY <2>1, C!SetInv, CapacityAssumption
<1> QED
  BY <1>1, <1>2, <1>3

(* The event the callback handles. *)
LEMMA HeadIsEvent ==
  ASSUME IInv, stream # <<>>
  PROVE  Head(stream) \in Event
<1>1. stream \in Seq(Event)
  BY DEF IInv, StreamOK, Event
<1> QED
  BY <1>1

(* The history variables of the averages. *)
LEMMA CallbackTyped ==
  ASSUME IInv, TypeInv, OnKlineUpdate
  PROVE  TypeInv'
<1> DEFINE event == Head(stream)
<1>1. event \in Event
  BY HeadIsEvent DEF OnKlineUpdate
<1>2. trades' = trades /\ hasRule' = hasRule /\ since' = since
  BY DEF OnKlineUpdate, exchangeVars
<1> HIDE DEF event
<1>3. CASE IsUpdate(event) /\ UpdateNewest(event)
  <2>1. C!IndInv'
    BY <1>1, <1>3, UpdateValues, BufferTyped DEF TypeInv
  <2>2. event.close \in Int
    BY <1>1, PricesAreIntegers DEF Event
  <2>3. Buffer!Get(-1).close \in Int
    <3>1. count \in Nat /\ 1 \in 1 .. count
      BY <1>3, Counters DEF IsUpdate, IInv
    <3>2. Recent[1] = Buffer!Get(-1) /\ Recent[1] \in Candle
      BY <3>1, CandlesTyped DEF Recent, CachedOK
    <3>3. Recent[1].close \in Closes
      BY <3>2 DEF Candle
    <3> QED
      BY <3>2, <3>3, PricesAreIntegers
  <2>4. owed' \in [Periods -> Int]
    <3> DEFINE change == event.close - Buffer!Get(-1).close
    <3>1. owed' = [p \in Periods |->
             IF count < p           THEN 0
             ELSE IF ~hasRule       THEN owed[p] - change
             ELSE IF Buffer!Get(-1).ma[p] = 0  THEN change
             ELSE owed[p]]
      BY <1>3 DEF UpdateNewest
    <3>2. change \in Int
      BY <2>2, <2>3
    <3> HIDE DEF change
    <3>3. \A p \in Periods : owed[p] \in Int /\ owed[p] - change \in Int
      BY <3>2 DEF TypeInv
    <3> QED
      BY <3>1, <3>2, <3>3
  <2>5. roundings' \in [Periods -> Nat]
    <3>1. roundings' = [p \in Periods |->
             IF Computes(p, count)
               THEN (IF Buffer!Get(-1).ma[p] = 0 THEN 1 ELSE roundings[p] + 1)
               ELSE roundings[p]]
      BY <1>3 DEF UpdateNewest
    <3>2. \A p \in Periods : roundings[p] \in Nat /\ roundings[p] + 1 \in Nat
      BY DEF TypeInv
    <3> QED
      BY <3>1, <3>2
  <2> QED
    BY <1>2, <2>1, <2>4, <2>5 DEF TypeInv
<1>4. CASE AddCandle(event)
  <2>1. C!IndInv'
    BY <1>1, <1>4, AddValues, BufferTyped DEF TypeInv
  <2>2. owed' \in [Periods -> Int] /\ roundings' \in [Periods -> Nat]
    BY <1>4 DEF AddCandle, NoAverages
  <2> QED
    BY <1>2, <2>1, <2>2 DEF TypeInv
<1> QED
  BY <1>3, <1>4 DEF OnKlineUpdate, event

(* Every other step. *)
LEMMA NextTypeInv ==
  ASSUME IInv, TypeInv, [Next]_vars
  PROVE  TypeInv'
<1> USE DEF exchangeVars, bufferVars, ghostVars
<1>1. ASSUME NEW close \in Closes, Trade(close) \/ OpenMinute(close) PROVE TypeInv'
  <2>1. UNCHANGED <<slots, head, tail, count, hasRule, since, owed, roundings>>
    BY <1>1 DEF Trade, OpenMinute
  <2>2. trades' \in 0 .. MaxTrades
    <3>1. trades \in 0 .. MaxTrades /\ MaxTrades \in Nat
      BY BoundsAssumption DEF TypeInv
    <3>2. trades' = trades \/ (trades < MaxTrades /\ trades' = trades + 1)
      BY <1>1 DEF Trade, OpenMinute
    <3> QED
      BY <3>1, <3>2
  <2> QED
    BY <2>1, <2>2, BufferTyped DEF TypeInv
<1>2. CASE OnKlineUpdate
  BY <1>2, CallbackTyped
<1>3. CASE PreloadAdd
  <2>1. Head(response) \in Candle
    <3>1. response \in Seq(Preloaded) /\ response # <<>>
      BY <1>3 DEF PreloadAdd, IInv, ResponseOK
    <3>2. Head(response) \in Preloaded
      BY <3>1
    <3> QED
      BY <3>2 DEF Preloaded, Candle, NoAverages, Minute
  <2>2. Buffer!Add(Head(response)) /\ UNCHANGED <<trades, hasRule, since, owed, roundings>>
    BY <1>3 DEF PreloadAdd
  <2> QED
    BY <2>1, <2>2, BufferTyped DEF TypeInv
<1>4. CASE StreamUp \/ APISubscribeToKlineUpdates
  <2>1. UNCHANGED <<slots, head, tail, count, trades, hasRule, owed, roundings>>
    BY <1>4 DEF StreamUp, APISubscribeToKlineUpdates
  <2>2. since' \in 0 .. MaxTime
    <3>1. Now \in 0 .. MaxTime
      BY BoundsAssumption DEF IInv, MarketOK, Minute
    <3>2. since' = Now \/ since' = since
      BY <1>4 DEF StreamUp, APISubscribeToKlineUpdates
    <3> QED
      BY <3>1, <3>2 DEF TypeInv
  <2> QED
    BY <2>1, <2>2, BufferTyped DEF TypeInv
<1>5. CASE StreamDown \/ QueryKlines \/ QueryFails \/ ClearTradeRules \/ RefillTradeRules
  <2>1. UNCHANGED <<slots, head, tail, count, trades, since, owed, roundings>>
    BY <1>5 DEF StreamDown, QueryKlines, QueryFails, ClearTradeRules, RefillTradeRules
  <2>2. hasRule' \in BOOLEAN
    BY <1>5 DEF StreamDown, QueryKlines, QueryFails, ClearTradeRules, RefillTradeRules, TypeInv
  <2> QED
    BY <2>1, <2>2, BufferTyped DEF TypeInv
<1>6. CASE UNCHANGED vars
  BY <1>6, BufferTyped DEF vars, TypeInv
<1> QED
  BY <1>1, <1>2, <1>3, <1>4, <1>5, <1>6 DEF Next

(* The variables start within their types. *)
LEMMA InitTypeInv == Init => TypeInv
<1> SUFFICES ASSUME Init PROVE TypeInv
  OBVIOUS
<1>1. C!Init
  BY DEF Init, Buffer!Init, Buffer!Slot, C!Init, C!Slot
<1>2. C!IndInv
  BY <1>1, C!InitInv, CapacityAssumption
<1> QED
  BY <1>2, BoundsAssumption DEF Init, TypeInv, NoAverages

(* For every capacity and every bound: every variable is of its type, the buffer,
   the events and the answer of the query included. *)
THEOREM TypesAreCorrect == Spec => []TypeOK
<1>1. IInv /\ TypeInv => TypeOK
  <2> SUFFICES ASSUME IInv, TypeInv PROVE TypeOK
    OBVIOUS
  <2>1. stream \in Seq([time : 1 .. MaxTime, close : Closes])
    BY DEF IInv, StreamOK, Minute
  <2>2. response \in Seq(Candle)
    <3>1. response \in Seq(Preloaded)
      BY DEF IInv, ResponseOK
    <3>2. Preloaded \subseteq Candle
      BY DEF Preloaded, Candle, NoAverages, Minute
    <3> QED
      BY <3>1, <3>2
  <2>3. Buffer!TypeOK
    BY DEF TypeInv, C!IndInv, C!TypeOK, C!Slot, Buffer!TypeOK, Buffer!Slot
  <2> QED
    BY <2>1, <2>2, <2>3 DEF TypeOK, TypeInv, IInv, MarketOK, PhaseOK, Minute
<1> QED
  BY <1>1, InitIInv, NextIInv, InitTypeInv, NextTypeInv, PTL DEF Spec

-----------------------------------------------------------------------------
(* The cache as a history of candles. *)

(* Whatever a step of the service writes into the ring is a candle: the head of
   the query's answer, or what the callback makes of an event. *)
LEMMA CandlesAreWritten ==
  ASSUME IInv, TypeInv, [Next]_vars
  PROVE  \/ UNCHANGED <<slots, head, tail, count>>
         \/ \E candle \in Candle : Buffer!Add(candle) \/ Buffer!Set(-1, candle)
<1> USE DEF exchangeVars, bufferVars, ghostVars
<1>1. ASSUME NEW close \in Closes, Trade(close) \/ OpenMinute(close)
      PROVE  UNCHANGED <<slots, head, tail, count>>
  BY <1>1 DEF Trade, OpenMinute
<1>2. CASE OnKlineUpdate
  <2>1. Head(stream) \in Event
    BY <1>2, HeadIsEvent DEF OnKlineUpdate
  <2>2. CASE IsUpdate(Head(stream)) /\ UpdateNewest(Head(stream))
    BY <2>1, <2>2, UpdateValues
  <2>3. CASE AddCandle(Head(stream))
    BY <2>1, <2>3, AddValues
  <2> QED
    BY <1>2, <2>2, <2>3 DEF OnKlineUpdate
<1>3. CASE PreloadAdd
  <2>1. response \in Seq(Preloaded) /\ response # <<>> /\ Buffer!Add(Head(response))
    BY <1>3 DEF PreloadAdd, IInv, ResponseOK
  <2>2. Head(response) \in Preloaded
    BY <2>1
  <2>3. Head(response) \in Candle
    BY <2>2 DEF Preloaded, Candle, NoAverages, Minute
  <2> QED
    BY <2>1, <2>3
<1>4. CASE \/ StreamDown \/ StreamUp \/ QueryKlines \/ QueryFails
           \/ APISubscribeToKlineUpdates \/ ClearTradeRules \/ RefillTradeRules
           \/ UNCHANGED vars
  BY <1>4 DEF StreamDown, StreamUp, QueryKlines, QueryFails, APISubscribeToKlineUpdates,
              ClearTradeRules, RefillTradeRules, vars
<1> QED
  BY <1>1, <1>2, <1>3, <1>4 DEF Next

(* Whatever start-up, stream and refresh do, in any order and for every
   capacity, their steps on the ring of candles are steps of a circular buffer,
   and so of the bounded history it implements: to every reader the cache is the
   last candles written, oldest first (QuoteService.cs:243-341 and 690-790). *)
THEOREM CacheImplementsHistory == Spec => CacheIsHistory
<1>1. Init => C!Init
  BY DEF Init, Buffer!Init, Buffer!Slot, C!Init, C!Slot
<1>2. ASSUME IInv, TypeInv, [Next]_vars
      PROVE  [C!Next]_(C!bufferVars)
  <2>1. CASE UNCHANGED <<slots, head, tail, count>>
    BY <2>1 DEF C!bufferVars
  <2>2. ASSUME NEW candle \in Candle, Buffer!Add(candle)
        PROVE  C!Next
    BY <2>2 DEF Buffer!Add, C!Add, C!Next
  <2>3. ASSUME NEW candle \in Candle, Buffer!Set(-1, candle)
        PROVE  C!Next
    <3>1. C!Set(-1, candle)
      BY <2>3 DEF Buffer!Set, C!Set, Buffer!InRange, C!InRange, Buffer!Position, C!Position
    <3>2. -1 \in -Capacity .. Capacity - 1
      BY CapacityAssumption
    <3> QED
      BY <3>1, <3>2 DEF C!Next
  <2> QED
    BY <1>2, <2>1, <2>2, <2>3, CandlesAreWritten
<1>3. Spec => C!Spec
  BY <1>1, <1>2, InitIInv, NextIInv, InitTypeInv, NextTypeInv, PTL DEF Spec, C!Spec
<1>4. C!Spec => C!History!Spec
  BY C!ImplementsHistory, CapacityAssumption
<1>5. C!ToArray = Buffer!ToArray
  BY DEF C!ToArray, Buffer!ToArray
<1>6. C!History!Init => Buffer!History!Init
  BY <1>5 DEF C!History!Init, Buffer!History!Init
<1>7. [C!History!Next]_(C!ToArray) => [Buffer!History!Next]_(Buffer!ToArray)
  BY DEF C!History!Next, C!History!Push, C!History!Amend, C!ToArray,
         Buffer!History!Next, Buffer!History!Push, Buffer!History!Amend, Buffer!ToArray
<1> QED
  BY <1>3, <1>4, <1>6, <1>7, PTL DEF C!History!Spec, CacheIsHistory, Buffer!History!Spec

-----------------------------------------------------------------------------
(* The averages of the newest candle. *)

(* How far an average may be from the mean: the error of the sum it was last
   computed from, and half a unit for this rounding. *)
LEMMA ErrorGrows ==
  ASSUME NEW p \in Periods, NEW old \in Int, NEW sum \in Int, NEW lost \in Int, NEW r \in Nat,
         2 * (old - sum - lost) <= r * (p * MAUnit), 2 * (sum + lost - old) <= r * (p * MAUnit),
         NEW change \in Int
  PROVE  LET ma == Mean(old + change, p) IN
         /\ 2 * (p * ma - (sum + change) - lost) <= (r + 1) * (p * MAUnit)
         /\ 2 * ((sum + change) + lost - p * ma) <= (r + 1) * (p * MAUnit)
<1> DEFINE ma == Mean(old + change, p)
<1>1. /\ ma \in Int /\ p * ma \in Int /\ p * MAUnit \in Nat \ {0}
      /\ 2 * (p * ma - (old + change)) <= p * MAUnit
      /\ 2 * ((old + change) - p * ma) <= p * MAUnit
  BY MeanError
<1> DEFINE unit == p * MAUnit
<1> HIDE DEF ma
<1>2. r * unit \in Int /\ (r + 1) * unit = r * unit + unit
  BY <1>1
<1> DEFINE allowed == r * unit
           x == p * ma
<1>3. 2 * (old - sum - lost) <= allowed /\ 2 * (sum + lost - old) <= allowed
  OBVIOUS
<1>4. x \in Int /\ unit \in Int /\ allowed \in Int
      /\ 2 * (x - (old + change)) <= unit /\ 2 * ((old + change) - x) <= unit
      /\ (r + 1) * unit = allowed + unit
  BY <1>1, <1>2
<1> HIDE DEF unit, allowed, x
<1>5. /\ 2 * (x - (sum + change) - lost) <= allowed + unit
      /\ 2 * ((sum + change) + lost - x) <= allowed + unit
  BY <1>3, <1>4
<1> QED
  BY <1>4, <1>5 DEF unit, x, ma

(* The bound of the average of the newest candle, on either side. *)
Accounted(p) ==
  /\ 2 * (p * Recent[1].ma[p] - CloseSum(0, p) - owed[p]) <= roundings[p] * (p * MAUnit)
  /\ 2 * (CloseSum(0, p) + owed[p] - p * Recent[1].ma[p]) <= roundings[p] * (p * MAUnit)

AverageInv == \A p \in Periods : (count >= p /\ Recent[1].ma[p] # 0) => Accounted(p)

(* Adjusting the newest candle. *)
LEMMA UpdateAccounted ==
  ASSUME IInv, IInv', TypeInv, TypeInv', AverageInv, NEW event \in Event,
         IsUpdate(event), UpdateNewest(event)
  PROVE  AverageInv'
<1>1. PICK candle \in Candle :
        /\ Buffer!Set(-1, candle) /\ candle.close = event.close
        /\ \A p \in Periods :
             candle.ma[p] =
               IF Computes(p, count)
                 THEN AdjustedMA(Recent[1].ma[p], p, event.close + CloseSum(1, p - 1),
                                 Recent[1].close, event.close)
                 ELSE Recent[1].ma[p]
  BY UpdateValues
<1>2. CachedOK /\ CachedOK'
  BY CandlesTyped, PTL
<1>3. count \in Nat /\ count' = count /\ count > 0 /\ 1 \in 1 .. count /\ Recent'[1] = candle
  BY <1>1, Counters, SetRecent DEF IInv, IsUpdate
<1> SUFFICES ASSUME NEW p \in Periods, count >= p, candle.ma[p] # 0
             PROVE  Accounted(p)'
  BY <1>3 DEF AverageInv
<1> DEFINE ma == Recent[1].ma[p]
           rest == CloseSum(1, p - 1)
           change == event.close - Recent[1].close
<1>4. p \in Nat \ {0} /\ p \in 1 .. count
  BY <1>3, PeriodsAssumption
<1>5. rest \in Int /\ CloseSum(0, p) = Recent[1].close + rest
      /\ CloseSum(0, p)' = event.close + rest
  BY <1>1, <1>2, <1>4, SumAfterSet DEF IInv
<1>6. ma \in Int /\ Recent[1].close \in Int /\ event.close \in Int /\ change \in Int
  <2>1. Recent[1] \in Candle
    BY <1>2, <1>3 DEF CachedOK
  <2>2. Recent[1].ma \in [Periods -> Int] /\ Recent[1].close \in Closes /\ event.close \in Closes
    BY <2>1 DEF Candle, Event
  <2>3. Recent[1].close \in Int /\ event.close \in Int
    BY <2>2, PricesAreIntegers
  <2> QED
    BY <2>2, <2>3
<1>7. Recent[1] = Buffer!Get(-1)
  BY <1>3 DEF Recent
<1>8. owed'[p] = IF ~hasRule THEN owed[p] - change ELSE IF ma = 0 THEN change ELSE owed[p]
  <2>1. ~(count < p)
    BY <1>3, <1>4
  <2>2. owed' = [q \in Periods |->
           IF count < q           THEN 0
           ELSE IF ~hasRule       THEN owed[q] - (event.close - Buffer!Get(-1).close)
           ELSE IF Buffer!Get(-1).ma[q] = 0  THEN event.close - Buffer!Get(-1).close
           ELSE owed[q]]
    BY DEF UpdateNewest
  <2> QED
    BY <1>7, <2>1, <2>2
<1>9. roundings'[p] = IF hasRule THEN (IF ma = 0 THEN 1 ELSE roundings[p] + 1) ELSE roundings[p]
  <2>1. roundings' = [q \in Periods |->
           IF Computes(q, count)
             THEN (IF Buffer!Get(-1).ma[q] = 0 THEN 1 ELSE roundings[q] + 1)
             ELSE roundings[q]]
    BY DEF UpdateNewest
  <2>2. Computes(p, count) <=> hasRule
    BY DEF Computes
  <2> QED
    BY <1>7, <2>1, <2>2
<1>10. candle.ma[p] = IF hasRule
                       THEN Mean((IF ma # 0 THEN ma * p ELSE event.close + rest)
                                   - Recent[1].close + event.close, p)
                       ELSE ma
  BY <1>1 DEF AdjustedMA, Computes
<1>11. owed[p] \in Int /\ roundings[p] \in Nat
  BY DEF TypeInv
<1>12. p * ma \in Int /\ ma * p = p * ma
  BY <1>4, <1>6
<1>13. ma # 0 =>
         /\ 2 * (p * ma - (Recent[1].close + rest) - owed[p]) <= roundings[p] * (p * MAUnit)
         /\ 2 * ((Recent[1].close + rest) + owed[p] - p * ma) <= roundings[p] * (p * MAUnit)
  BY <1>5 DEF AverageInv, Accounted
<1> SUFFICES
      /\ 2 * (p * candle.ma[p] - (event.close + rest) - owed'[p]) <= roundings'[p] * (p * MAUnit)
      /\ 2 * ((event.close + rest) + owed'[p] - p * candle.ma[p]) <= roundings'[p] * (p * MAUnit)
  BY <1>3, <1>5 DEF Accounted
<1> DEFINE oc == Recent[1].close
           ec == event.close
           lost == owed[p]
           r == roundings[p]
<1>14. CASE hasRule /\ ma # 0
  <2>1. /\ 2 * (p * ma - (oc + rest) - lost) <= r * (p * MAUnit)
        /\ 2 * ((oc + rest) + lost - p * ma) <= r * (p * MAUnit)
        /\ p * ma \in Int /\ oc + rest \in Int /\ lost \in Int /\ r \in Nat /\ change \in Int
    BY <1>5, <1>6, <1>11, <1>12, <1>13, <1>14
  <2> DEFINE new == Mean(p * ma + change, p)
             x == p * ma
             s == oc + rest
  <2>2. /\ 2 * (p * new - (s + change) - lost) <= (r + 1) * (p * MAUnit)
        /\ 2 * ((s + change) + lost - p * new) <= (r + 1) * (p * MAUnit)
    <3>1. /\ 2 * (x - s - lost) <= r * (p * MAUnit)
          /\ 2 * (s + lost - x) <= r * (p * MAUnit)
          /\ x \in Int /\ s \in Int /\ lost \in Int /\ r \in Nat /\ change \in Int
      BY <2>1
    <3> HIDE DEF x, s, lost, r, change
    <3> QED
      BY <3>1, ErrorGrows DEF x
  <2>3. candle.ma[p] = new
    <3>1. ma * p - oc + ec = p * ma + change
      BY <1>6, <1>12
    <3> QED
      BY <1>10, <1>14, <3>1
  <2>4. owed'[p] = lost /\ roundings'[p] = r + 1
    BY <1>8, <1>9, <1>14
  <2>5. s + change = ec + rest
    BY <1>5, <1>6
  <2> HIDE DEF new
  <2> QED
    BY <2>2, <2>3, <2>4, <2>5
<1>15. CASE hasRule /\ ma = 0
  <2> DEFINE s == ec + rest
             new == Mean(s + change, p)
  <2>1. s \in Int /\ 0 \in Int /\ 0 \in Nat /\ change \in Int
    BY <1>5, <1>6
  <2>2. s + change \in Int
    BY <2>1
  <2>3. candle.ma[p] = new
    <3>1. hasRule /\ ma = 0
      BY <1>15
    <3> DEFINE sum == IF ma # 0 THEN ma * p ELSE ec + rest
               t == sum - oc + ec
               u == s + change
    <3>2. candle.ma[p] = Mean(t, p)
      BY <1>10, <3>1
    <3>3. t = u
      <4>1. sum = ec + rest
        <5> HIDE DEF ma
        <5> QED
          BY <3>1, Zenon
      <4> HIDE DEF sum
      <4> QED
        BY <1>5, <1>6, <4>1
    <3>4. new = Mean(u, p)
      OBVIOUS
    <3> HIDE DEF t, u, new
    <3> QED
      BY <3>2, <3>3, <3>4
  <2>4. owed'[p] = change /\ roundings'[p] = 1
    BY <1>8, <1>9, <1>15
  <2>5. /\ p * new \in Int /\ p * MAUnit \in Nat
        /\ 2 * (p * new - (s + change)) <= p * MAUnit
        /\ 2 * ((s + change) - p * new) <= p * MAUnit
    <3> HIDE DEF s, change
    <3> QED
      BY <2>2, MeanError
  <2> HIDE DEF new
  <2>6. 1 * (p * MAUnit) = p * MAUnit
    BY <2>5
  <2> DEFINE y == p * new
             unit == p * MAUnit
  <2>7. 2 * (y - s - change) <= unit /\ 2 * (s + change - y) <= unit
    <3>1. y \in Int /\ unit \in Nat /\ 2 * (y - (s + change)) <= unit
          /\ 2 * ((s + change) - y) <= unit
      BY <2>5
    <3> HIDE DEF y, unit, s, change
    <3> QED
      BY <2>1, <3>1
  <2> QED
    BY <2>3, <2>4, <2>6, <2>7
<1>16. CASE ~hasRule
  <2>1. candle.ma[p] = ma /\ owed'[p] = lost - change /\ roundings'[p] = r /\ ma # 0
    BY <1>8, <1>9, <1>10, <1>16
  <2> DEFINE x == p * ma
             allowed == r * (p * MAUnit)
  <2>2. 2 * (x - (oc + rest) - lost) <= allowed /\ 2 * ((oc + rest) + lost - x) <= allowed
    BY <1>13, <2>1
  <2>3. /\ x - (ec + rest) - (lost - change) = x - (oc + rest) - lost
        /\ (ec + rest) + (lost - change) - x = (oc + rest) + lost - x
    <3>1. x \in Int /\ ec \in Int /\ rest \in Int /\ oc \in Int /\ lost \in Int
      BY <1>5, <1>6, <1>11, <1>12
    <3> HIDE DEF x, rest, lost
    <3> QED
      BY <3>1
  <2> QED
    BY <2>1, <2>2, <2>3
<1> QED
  BY <1>14, <1>15, <1>16, <1>11 DEF TypeInv

(* A new candle. *)
LEMMA AddAccounted ==
  ASSUME IInv, IInv', TypeInv, TypeInv', NEW event \in Event, AddCandle(event)
  PROVE  AverageInv'
<1> DEFINE n == IF count < Capacity THEN count + 1 ELSE count
<1>1. PICK candle \in Candle :
        /\ Buffer!Add(candle) /\ candle.close = event.close
        /\ \A p \in Periods :
             candle.ma[p] =
               IF Computes(p, n) THEN Mean(event.close + CloseSum(0, p - 1), p) ELSE 0
  BY AddValues
<1>2. CachedOK /\ CachedOK'
  BY CandlesTyped, PTL
<1>3. count' \in Nat /\ count' = n /\ Recent'[1] = candle
  BY <1>1, AddRecent DEF IInv
<1> SUFFICES ASSUME NEW p \in Periods, count' >= p, candle.ma[p] # 0
             PROVE  Accounted(p)'
  BY <1>3 DEF AverageInv
<1> DEFINE before == CloseSum(0, p - 1)
           s == event.close + before
<1>4. p \in Nat \ {0} /\ p \in 1 .. count'
  BY <1>3, PeriodsAssumption
<1>5. before \in Int /\ CloseSum(0, p)' = s
  BY <1>1, <1>2, <1>4, SumAfterAdd DEF IInv
<1>6. s \in Int
  BY <1>5, PricesAreIntegers DEF Event
<1>7. candle.ma[p] = Mean(s, p) /\ Computes(p, n)
  BY <1>1
<1>8. owed'[p] = 0 /\ roundings'[p] = 1
  BY <1>7 DEF AddCandle, NoAverages
<1> HIDE DEF s
<1>9. /\ p * Mean(s, p) \in Int /\ p * MAUnit \in Nat
      /\ 2 * (p * Mean(s, p) - s) <= p * MAUnit
      /\ 2 * (s - p * Mean(s, p)) <= p * MAUnit
  BY <1>6, MeanError
<1> DEFINE y == p * Mean(s, p)
           unit == p * MAUnit
<1>10. 1 * unit = unit /\ 2 * (y - s - 0) <= unit /\ 2 * (s + 0 - y) <= unit
  <2>1. y \in Int /\ unit \in Nat /\ 2 * (y - s) <= unit /\ 2 * (s - y) <= unit
    BY <1>9
  <2> HIDE DEF y, unit
  <2> QED
    BY <1>6, <2>1
<1> QED
  BY <1>3, <1>5, <1>7, <1>8, <1>10 DEF Accounted

(* Every step keeps the bound. *)
LEMMA NextAverageInv ==
  ASSUME IInv, IInv', TypeInv, TypeInv', AverageInv, [Next]_vars
  PROVE  AverageInv'
<1> USE DEF exchangeVars, bufferVars, ghostVars
<1>1. ASSUME UNCHANGED <<slots, head, tail, count, owed, roundings>>
      PROVE  AverageInv'
  <2>1. UNCHANGED <<Recent, count, owed, roundings>>
    BY <1>1 DEF Recent, Buffer!Get, Buffer!Position
  <2>2. \A p \in Periods : CloseSum(0, p)' = CloseSum(0, p)
    BY <1>1 DEF CloseSum, Buffer!Get, Buffer!Position
  <2> QED
    BY <2>1, <2>2 DEF AverageInv, Accounted
<1>2. CASE PreloadAdd
  <2>1. response # <<>> /\ Buffer!Add(Head(response)) /\ Head(response).ma = NoAverages
    <3>1. response # <<>> /\ Buffer!Add(Head(response)) /\ response \in Seq(Preloaded)
      BY <1>2 DEF PreloadAdd, IInv, ResponseOK
    <3>2. Head(response) \in Preloaded
      BY <3>1
    <3> QED
      BY <3>1, <3>2 DEF Preloaded
  <2>2. Recent'[1].ma = NoAverages
    BY <2>1, AddRecent DEF IInv
  <2> QED
    BY <2>2 DEF AverageInv, NoAverages
<1>3. CASE OnKlineUpdate
  <2>1. Head(stream) \in Event
    BY <1>3, HeadIsEvent DEF OnKlineUpdate
  <2> QED
    BY <1>3, <2>1, UpdateAccounted, AddAccounted DEF OnKlineUpdate
<1>4. ASSUME NEW close \in Closes, Trade(close) \/ OpenMinute(close) PROVE AverageInv'
  BY <1>1, <1>4 DEF Trade, OpenMinute
<1>5. CASE \/ StreamDown \/ StreamUp \/ QueryKlines \/ QueryFails
           \/ APISubscribeToKlineUpdates \/ ClearTradeRules \/ RefillTradeRules
  BY <1>1, <1>5 DEF StreamDown, StreamUp, QueryKlines, QueryFails, APISubscribeToKlineUpdates,
                    ClearTradeRules, RefillTradeRules
<1>6. CASE UNCHANGED vars
  BY <1>1, <1>6 DEF vars
<1> QED
  BY <1>2, <1>3, <1>4, <1>5, <1>6 DEF Next

(* For every set of periods, every rounding unit, every capacity and every bound:
   a moving average of the newest candle is off by half a rounding unit per
   update and by the price changes accounted for, and by nothing else. *)
THEOREM AverageErrorsAccounted == Spec => []AverageErrorAccounted
<1>1. Init => AverageInv
  <2> SUFFICES ASSUME Init, NEW p \in Periods PROVE ~(count >= p)
    BY DEF AverageInv
  <2>1. count = 0 /\ p \in Nat \ {0}
    BY PeriodsAssumption DEF Init, Buffer!Init
  <2> QED
    BY <2>1
<1>2. IInv /\ TypeInv /\ AverageInv => AverageErrorAccounted
  <2> SUFFICES ASSUME IInv, TypeInv, AverageInv,
                      NEW p \in Periods, count >= p, Buffer!Get(-1).ma[p] # 0
               PROVE  2 * Abs(p * Buffer!Get(-1).ma[p] - CloseSum(0, p) - owed[p])
                        <= roundings[p] * p * MAUnit
    BY DEF AverageErrorAccounted
  <2>1. p \in Nat \ {0} /\ count \in Nat /\ 1 \in 1 .. count /\ 0 + p <= count
    BY PeriodsAssumption, Counters DEF IInv
  <2>2. Recent[1] = Buffer!Get(-1) /\ Recent[1] \in Candle
    BY <2>1, CandlesTyped DEF Recent, CachedOK
  <2>3. CloseSum(0, p) \in Int
    <3>1. CloseSumInv
      BY CandlesTyped, CloseSums DEF IInv
    <3> QED
      BY <2>1, <3>1 DEF CloseSumInv
  <2> DEFINE x == p * Recent[1].ma[p]
             s == CloseSum(0, p)
             lost == owed[p]
             allowed == roundings[p] * (p * MAUnit)
  <2>4. x \in Int /\ s \in Int /\ lost \in Int
    <3>1. Recent[1].ma[p] \in Int
      BY <2>2 DEF Candle
    <3> QED
      BY <2>1, <2>3, <3>1 DEF TypeInv
  <2>5. roundings[p] * p * MAUnit = allowed /\ allowed \in Int
    <3>1. roundings[p] \in Nat /\ MAUnit \in Nat
      BY PeriodsAssumption DEF TypeInv
    <3> QED
      BY <2>1, <3>1
  <2>6. 2 * (x - s - lost) <= allowed /\ 2 * (s + lost - x) <= allowed
    BY <2>2 DEF AverageInv, Accounted
  <2>7. 2 * Abs(x - s - lost) <= allowed
    <3> HIDE DEF x, s, lost, allowed
    <3> QED
      BY <2>4, <2>5, <2>6 DEF Abs
  <2> QED
    BY <2>2, <2>5, <2>7
<1> QED
  BY <1>1, <1>2, InitIInv, NextIInv, InitTypeInv, NextTypeInv, NextAverageInv, PTL DEF Spec

=============================================================================
