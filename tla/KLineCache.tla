----------------------------- MODULE KLineCache -----------------------------
(***************************************************************************)
(* The candle cache of QuoteService for one symbol and the one-minute      *)
(* interval.  The start-up task asks the exchange for the last candles     *)
(* (APICacheKLineDataAndSubscribe), stores them one by one, and only then  *)
(* subscribes to the stream whose callback OnKlineUpdate keeps the newest  *)
(* candle and its moving averages up to date.  Meanwhile the daily refresh *)
(* of the trade rules (APIUpdateExchangeInfo) runs on another thread; a    *)
(* candle that arrives between its Clear and its refill gets no averages.  *)
(*                                                                         *)
(* Prices are whole price steps.  A candle keeps its open time, its close  *)
(* and its averages; the other fields are copied and never compared.       *)
(***************************************************************************)
EXTENDS Integers, Sequences, Functions

CONSTANTS
  Closes,        (* The closing prices the exchange may report.              *)
  Capacity,      (* Capacity of the circular buffer.                         *)
  PreloadLimit,  (* How many candles the start-up query asks for.            *)
  Periods,       (* Periods of the averages: 5, 10 and 20 in the code.       *)
  MAUnit,        (* 10^-precision in price steps: what Math.Round rounds to. *)
  NoCandle,      (* default(CandlestickData), that is null.                  *)
  MaxTime,       (* Bound: minutes the market runs.                          *)
  MaxTrades,     (* Bound: price changes within the minutes.                 *)
  MaxPending     (* Bound: events between the exchange and the callback.     *)

ASSUME CapacityAssumption == Capacity \in Nat \ {0}
ASSUME PreloadAssumption  == PreloadLimit \in 1 .. Capacity
ASSUME ClosesAssumption   == Closes \subseteq Nat \ {0} /\ Closes # {}
ASSUME PeriodsAssumption  == Periods \subseteq Nat \ {0} /\ MAUnit \in Nat \ {0}
ASSUME BoundsAssumption   == MaxTime \in Nat \ {0} /\ MaxTrades \in Nat /\ MaxPending \in Nat

VARIABLES
  market,      (* The exchange: market[t] is the close of minute t so far.    *)
  trades,      (* The exchange: price changes so far.                         *)
  stream,      (* Kline events sent and not yet handled, oldest first.        *)
  live,        (* The stream connection is up.                                *)
  phase,       (* Where APICacheKLineDataAndSubscribe is.                     *)
  response,    (* Candles of the query still to be added to the buffer.       *)
  hasRule,     (* m_Symbol2TradeRuleMap has the symbol.                       *)
  slots, head, tail, count,   (* The circular buffer of the symbol.           *)
  since,       (* History: the minute in which the stream last came up.       *)
  owed,        (* History: price changes an average missed or counted twice.  *)
  roundings    (* History: roundings that went into the newest average.       *)

exchangeVars == <<market, trades, live>>
bufferVars   == <<slots, head, tail, count>>
ghostVars    == <<since, owed, roundings>>
vars == <<exchangeVars, stream, phase, response, hasRule, bufferVars, ghostVars>>

Candle == [time : 1 .. MaxTime, close : Closes, ma : [Periods -> Int]]

(* The cached candles are kept in a CircularBuffer. *)
Buffer == INSTANCE CircularBuffer WITH Item <- Candle, Unused <- NoCandle

Now == Len(market)

KlineEvent(t) == [time |-> t, close |-> market[t]]

NoAverages == [p \in Periods |-> 0]

(* Converter.ToCandlestickData for a candle that is not cached yet. *)
ToCandlestickData(event) == [time |-> event.time, close |-> event.close, ma |-> NoAverages]

-----------------------------------------------------------------------------
(* Averages. *)

(* The quotient n / d of integers, rounded half to even as Math.Round does. *)
RoundHalfEven(n, d) ==
  LET q == n \div d
      r == n % d
  IN  IF 2 * r < d \/ (2 * r = d /\ q % 2 = 0) THEN q ELSE q + 1

Mean(sum, p) == MAUnit * RoundHalfEven(sum, p * MAUnit)

(* GetLastNthPriceSum over the n cached candles that precede the newest
   skip ones. *)
CloseSum(skip, n) ==
  SumFunction([i \in skip + 1 .. skip + n |-> Buffer!Get(-i).close])

(* Wrong variant: the new close is added and the one it replaces is kept. *)
AdjustedMA_KeepsOldClose(ma, p, sum, previousPrice, close) ==
  Mean((IF ma # 0 THEN ma * p ELSE sum) + close, p)

(* UpdateMA for a candle that was already cached; sum is that of the last p
   closes, the new one included.  An average of zero counts as "not computed
   yet": then the sum, which has the new close in it already, is adjusted by
   the price change once more. *)
AdjustedMA(ma, p, sum, previousPrice, close) ==
  Mean((IF ma # 0 THEN ma * p ELSE sum) - previousPrice + close, p)

-----------------------------------------------------------------------------
Init ==
  /\ \E close \in Closes : market = <<close>>
  /\ trades = 0
  /\ stream = <<>>
  /\ live = FALSE
  /\ phase = "idle"
  /\ response = <<>>
  /\ hasRule = TRUE
  /\ Buffer!Init
  /\ since = 0
  /\ owed = NoAverages
  /\ roundings = NoAverages

-----------------------------------------------------------------------------
(* The exchange and the connection to it. *)

Publish(event) ==
  IF live THEN Len(stream) < MaxPending /\ stream' = Append(stream, event)
          ELSE stream' = stream

Trade(close) ==
  /\ trades < MaxTrades
  /\ close # market[Now]
  /\ trades' = trades + 1
  /\ market' = [market EXCEPT ![Now] = close]
  /\ Publish([time |-> Now, close |-> close])
  /\ UNCHANGED <<live, phase, response, hasRule, bufferVars, ghostVars>>

OpenMinute(close) ==
  /\ Now < MaxTime
  /\ market' = Append(market, close)
  /\ Publish([time |-> Now + 1, close |-> close])
  /\ UNCHANGED <<trades, live, phase, response, hasRule, bufferVars, ghostVars>>

(* The socket client loses the connection, with what was on the way, and
   reconnects by itself; nothing asks for the candles it missed. *)
StreamDown ==
  /\ live
  /\ live' = FALSE
  /\ stream' = <<>>
  /\ UNCHANGED <<market, trades, phase, response, hasRule, bufferVars, ghostVars>>

StreamUp ==
  /\ phase = "subscribed"
  /\ ~live
  /\ live' = TRUE
  /\ since' = Now
  /\ UNCHANGED <<market, trades, stream, phase, response, hasRule, bufferVars, owed, roundings>>

-----------------------------------------------------------------------------
(* The start-up task. *)

(* GetKlinesAsync returns the last PreloadLimit candles. *)
QueryKlines ==
  /\ phase = "idle"
  /\ LET first == IF Now > PreloadLimit THEN Now - PreloadLimit + 1 ELSE 1 IN
     response' = [i \in 1 .. Now - first + 1 |-> ToCandlestickData(KlineEvent(first + i - 1))]
  /\ phase' = "adding"
  /\ UNCHANGED <<exchangeVars, stream, hasRule, bufferVars, ghostVars>>

(* A query that fails is logged and the symbol is never subscribed. *)
QueryFails ==
  /\ phase = "idle"
  /\ phase' = "failed"
  /\ UNCHANGED <<exchangeVars, stream, response, hasRule, bufferVars, ghostVars>>

(* One turn of the foreach over the response, which takes no lock. *)
PreloadAdd ==
  /\ phase = "adding"
  /\ response # <<>>
  /\ Buffer!Add(Head(response))
  /\ response' = Tail(response)
  /\ UNCHANGED <<exchangeVars, stream, phase, hasRule, ghostVars>>

APISubscribeToKlineUpdates ==
  /\ phase = "adding"
  /\ response = <<>>
  /\ \/ /\ phase' = "subscribed"
        /\ live' = TRUE
        /\ since' = Now
     \/ /\ phase' = "failed"
        /\ UNCHANGED <<live, since>>
  /\ UNCHANGED <<market, trades, stream, response, hasRule, bufferVars, owed, roundings>>

-----------------------------------------------------------------------------
(* The daily refresh: m_Symbol2TradeRuleMap.Clear(), then the refill. *)

ClearTradeRules ==
  /\ hasRule
  /\ hasRule' = FALSE
  /\ UNCHANGED <<exchangeVars, stream, phase, response, bufferVars, ghostVars>>

RefillTradeRules ==
  /\ ~hasRule
  /\ hasRule' = TRUE
  /\ UNCHANGED <<exchangeVars, stream, phase, response, bufferVars, ghostVars>>

-----------------------------------------------------------------------------
(* The stream callback, whole, under the lock on m_KLineCacheDataMap. *)

Computes(p, n) == hasRule /\ n >= p

(* Wrong variant: the newest candle is replaced even by another minute's. *)
IsUpdate_Always(event) == count > 0

(* Wrong variant: every event is taken for a new candle. *)
IsUpdate_Never(event) == FALSE

(* The event is about the newest cached candle. *)
IsUpdate(event) == count > 0 /\ Buffer!Get(-1).time = event.time

UpdateNewest(event) ==
  LET old == Buffer!Get(-1)
      sum(p) == event.close + CloseSum(1, p - 1)
      ma == [p \in Periods |->
               IF Computes(p, count)
                 THEN AdjustedMA(old.ma[p], p, sum(p), old.close, event.close)
                 ELSE old.ma[p]]
      change == event.close - old.close
  IN  /\ Buffer!Set(-1, [time |-> event.time, close |-> event.close, ma |-> ma])
      /\ owed' = [p \in Periods |->
           IF count < p           THEN 0
           ELSE IF ~hasRule       THEN owed[p] - change
           ELSE IF old.ma[p] = 0  THEN change
           ELSE owed[p]]
      /\ roundings' = [p \in Periods |->
           IF Computes(p, count)
             THEN (IF old.ma[p] = 0 THEN 1 ELSE roundings[p] + 1)
             ELSE roundings[p]]

AddCandle(event) ==
  LET n == IF count < Capacity THEN count + 1 ELSE count
      sum(p) == event.close + CloseSum(0, p - 1)
      ma == [p \in Periods |-> IF Computes(p, n) THEN Mean(sum(p), p) ELSE 0]
  IN  /\ Buffer!Add([time |-> event.time, close |-> event.close, ma |-> ma])
      /\ owed' = NoAverages
      /\ roundings' = [p \in Periods |-> IF Computes(p, n) THEN 1 ELSE 0]

OnKlineUpdate ==
  /\ stream # <<>>
  /\ stream' = Tail(stream)
  /\ \/ IsUpdate(Head(stream)) /\ UpdateNewest(Head(stream))
     \/ ~IsUpdate(Head(stream)) /\ AddCandle(Head(stream))
  /\ UNCHANGED <<exchangeVars, phase, response, hasRule, since>>

-----------------------------------------------------------------------------
Next ==
  \/ \E close \in Closes : Trade(close) \/ OpenMinute(close)
  \/ StreamDown
  \/ StreamUp
  \/ QueryKlines
  \/ QueryFails
  \/ PreloadAdd
  \/ APISubscribeToKlineUpdates
  \/ ClearTradeRules
  \/ RefillTradeRules
  \/ OnKlineUpdate

Spec == Init /\ [][Next]_vars

-----------------------------------------------------------------------------
(* Properties. *)

(* Every variable is of its type, the buffer's fields included. *)
TypeOK ==
  /\ market \in Seq(Closes) /\ Now \in 1 .. MaxTime
  /\ trades \in 0 .. MaxTrades
  /\ stream \in Seq([time : 1 .. MaxTime, close : Closes])
  /\ live \in BOOLEAN
  /\ phase \in {"idle", "adding", "subscribed", "failed"}
  /\ response \in Seq(Candle)
  /\ hasRule \in BOOLEAN
  /\ Buffer!TypeOK
  /\ since \in 0 .. MaxTime
  /\ owed \in [Periods -> Int]
  /\ roundings \in [Periods -> Nat]

(* QueryNthRecentlyCachedCandlestickData: the n-th newest candle, or null. *)
QueryNthRecentlyCached(n) == IF n <= 0 \/ count < n THEN NoCandle ELSE Buffer!Get(-n)

(* The cached candles are in strictly increasing order of open time, whatever
   the preload, the stream and its outages contribute: OnKlineUpdate compares
   the event with the newest candle only, and everything that reads "the n-th
   newest candle" relies on it. *)
CandlesInOrder ==
  \A i, j \in 1 .. count :
    i < j => Buffer!ToArray[i].time < Buffer!ToArray[j].time

(* Once the callback has handled every event, each minute that opened after the
   stream last came up is cached at the place its age says, with the close the
   exchange has for it: no minute is skipped, doubled or left at an
   intermediate price. *)
StreamedCandlesExact ==
  (live /\ stream = <<>>) =>
    \A t \in since + 1 .. Now :
      Now - t + 1 <= Capacity =>
        LET candle == QueryNthRecentlyCached(Now - t + 1) IN
        Now - t + 1 <= count /\ candle.time = t /\ candle.close = market[t]

Abs(x) == IF x < 0 THEN -x ELSE x

(* A moving average differs from the mean of its closes by half a rounding
   unit per update of the newest candle at most, plus the price changes that
   arrived while the symbol had no trade rule and the one counted twice when
   the average was still zero.  Nothing else is lost or added. *)
AverageErrorAccounted ==
  \A p \in Periods :
    (count >= p /\ Buffer!Get(-1).ma[p] # 0) =>
      2 * Abs(p * Buffer!Get(-1).ma[p] - CloseSum(0, p) - owed[p])
        <= roundings[p] * p * MAUnit

(* The documented meaning of CandlestickData.MA: the rounded mean of the last
   closes.  The code does not keep it (see the README). *)
AverageIsMean ==
  \A p \in Periods :
    (count >= p /\ Buffer!Get(-1).ma[p] # 0) =>
      Buffer!Get(-1).ma[p] = Mean(CloseSum(0, p), p)

(* A closed candle is frozen: a step only ever changes the newest cached
   candle, appends one, and drops the oldest one of a full buffer. *)
ClosedCandlesFrozen ==
  [][LET dropped == IF count = Capacity /\ tail' # tail THEN 1 ELSE 0
         kept    == IF tail' # tail THEN count ELSE count - 1
     IN  \A i \in dropped + 1 .. kept :
           Buffer!ToArray'[i - dropped] = Buffer!ToArray[i]]_bufferVars

(* The ring of slots implements the bounded history of candles. *)
CacheIsHistory == Buffer!History!Spec

=============================================================================
