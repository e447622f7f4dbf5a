---------------------------- MODULE MarketSummary ----------------------------
(***************************************************************************)
(* The market overview: every ticker event updates QuoteService's list,     *)
(* sorts it by change, recalculates MarketSummaryData and broadcasts it;    *)
(* the client's bar chart adds the summary's intervals up to its own.       *)
(*                                                                         *)
(* A change is in steps of 1/Unit percent, so that there are changes        *)
(* between two whole percents.  The code's ten levels on each side of zero  *)
(* are Levels, its first and last ten contracts the first and last Top.     *)
(* Averages are kept as the sums the code divides by constants.             *)
(***************************************************************************)
EXTENDS Integers, FiniteSets, SequencesExt

CONSTANTS
  Symbols,      (* The contracts.                                            *)
  Changes,      (* The changes the market may have, in steps, from -Most.    *)
  Most,         (* So many steps below zero the market starts.               *)
  Unit,         (* Steps of a percent.                                       *)
  Levels,       (* The intervals on each side of zero; 10 in the code.       *)
  Top,          (* The contracts of the two partial averages; 10 in the code. *)
  Bars,         (* m_intervals: the chart's bounds, in percent above -Levels. *)
  MaxEvents     (* Bound: ticker events.                                     *)

(* More percents than any interval's bound has. *)
Infinity == 1000

ASSUME MarketAssumption ==
  /\ IsFiniteSet(Symbols) /\ MaxEvents \in Nat
  /\ Unit \in Nat \ {0} /\ Levels \in 1 .. Infinity /\ Top \in Nat \ {0}
  /\ Changes \subseteq Nat /\ Most \in Nat /\ Bars \subseteq 0 .. 2 * Levels /\ Bars # {}

VARIABLES
  m_TickerDataList, (* The tickers, symbol and change, in descending order.  *)
  riseCount, fallCount, unchangedCount,
  percentageSum, topSum, lastSum,
  intervalCount,    (* IntervalDatas: the count of each interval.            *)
  events            (* Ticker events so far.                                 *)

marketVars == <<m_TickerDataList, riseCount, fallCount, unchangedCount, percentageSum, topSum,
                lastSum, intervalCount, events>>

Change     == {c - Most : c \in Changes}
Ticker     == [symbol : Symbols, perc : Change]
IntervalNo == 0 .. 2 * Levels

(* Reset, of an empty list: the bounds of the intervals, in percent. *)
LowerBound(i) == IF i = 0 THEN -Infinity ELSE i - Levels
UpperBound(i) ==
  CASE i = 0          -> -Levels
    [] i = Levels     -> 0
    [] i = 2 * Levels -> Infinity
    [] OTHER          -> i - Levels + 1

MarketInit ==
  /\ m_TickerDataList = << >>
  /\ riseCount = 0 /\ fallCount = 0 /\ unchangedCount = 0
  /\ percentageSum = 0 /\ topSum = 0 /\ lastSum = 0
  /\ intervalCount = [i \in IntervalNo |-> 0]
  /\ events = 0

(* Wrong variant: the last interval's bound is tested with an interval found. *)
IntervalOf_NoReturn(perc) ==
  {i \in IntervalNo : perc >= LowerBound(i) * Unit /\ perc < UpperBound(i) * Unit}
    \union {i \in {2 * Levels} : perc >= (Levels - 1) * Unit}
    \union {i \in {0} : perc <= -Levels * Unit} \union {i \in {Levels} : perc = 0}

(* RecordPerc: the interval whose count a change raises, none for a change
   between two bounds that no interval spans. *)
IntervalOf(perc) ==
  LET found == {i \in IntervalNo : perc >= LowerBound(i) * Unit /\ perc < UpperBound(i) * Unit}
  IN IF found # {} THEN found
     ELSE CASE perc >= Levels * Unit  -> {2 * Levels}
            [] perc <= -Levels * Unit -> {0}
            [] perc = 0               -> {Levels}
            [] OTHER                  -> {}

SumOf(list, places) ==
  SumFunctionOnSet([k \in 1 .. Len(list) |-> list[k].perc], places)
CountOf(list, P(_)) == Quantify(1 .. Len(list), LAMBDA k : P(list[k].perc))

(* The tickers of an event in their order: known ones in place, new ones at
   the end, then the sort. *)
Updated(list, event) ==
  LET known  == [k \in 1 .. Len(list) |->
                   IF list[k].symbol \in DOMAIN event
                   THEN [list[k] EXCEPT !.perc = event[list[k].symbol]] ELSE list[k]]
      new    == DOMAIN event \ {list[k].symbol : k \in 1 .. Len(list)}
      added  == SetToSeq({[symbol |-> s, perc |-> event[s]] : s \in new})
  IN known \o added

(* The list in an order of its places. *)
Ordered(list, order) == [k \in 1 .. Len(list) |-> list[order[k]]]

Descending(list) == \A i, j \in 1 .. Len(list) : i < j => list[i].perc >= list[j].perc

(* Wrong variant: only a longer list is sorted again. *)
Sorted_New(list) ==
  LET places == 1 .. Len(list) IN
  {Ordered(list, order) : order \in
     {order \in Bijection(places, places) :
        Descending(Ordered(list, order)) \/ Len(list) = Len(m_TickerDataList)}}

(* List.Sort, which is free to put equal changes in any order. *)
Sorted(list) ==
  LET places == 1 .. Len(list) IN
  {Ordered(list, order) : order \in
     {order \in Bijection(places, places) : Descending(Ordered(list, order))}}

(* RecalculateMarketPreviewData: Reset leaves the counts of the intervals. *)
Recalculate(list) ==
  LET n == Len(list) IN
  /\ riseCount' = CountOf(list, LAMBDA p : p > 0)
  /\ fallCount' = CountOf(list, LAMBDA p : p < 0)
  /\ unchangedCount' = CountOf(list, LAMBDA p : p = 0)
  /\ percentageSum' = SumOf(list, 1 .. n)
  /\ topSum' = SumOf(list, {k \in 1 .. n : k <= Top})
  /\ lastSum' = SumOf(list, {k \in 1 .. n : k > Top /\ k > n - Top})
  /\ intervalCount' = [i \in IntervalNo |->
                         intervalCount[i] + CountOf(list, LAMBDA p : i \in IntervalOf(p))]

OnTickerUpdate ==
  /\ events < MaxEvents /\ events' = events + 1
  /\ \E subset \in SUBSET Symbols : \E event \in [subset -> Change] :
     \E list \in Sorted(Updated(m_TickerDataList, event)) :
       /\ list # << >>
       /\ m_TickerDataList' = list
       /\ Recalculate(list)

(* updateSumamryData: the chart's bars, below its first bound, between two
   neighbours and above the last, and what it counts for one. *)
Bounds == {b - Levels : b \in Bars}
ChartBars ==
  LET ends == Bounds \union {-Infinity, Infinity + 1}
  IN {bar \in ends \X ends : bar[1] < bar[2] /\ \A b \in ends : b <= bar[1] \/ b >= bar[2]}

BarIntervals(bar) ==
  {i \in IntervalNo : LowerBound(i) >= bar[1] /\ UpperBound(i) < bar[2]}

BarCount(bar) == SumFunctionOnSet(intervalCount, BarIntervals(bar))

-----------------------------------------------------------------------------

MarketTypeOK ==
  /\ m_TickerDataList \in Seq(Ticker)
  /\ {riseCount, fallCount, unchangedCount} \subseteq Nat
  /\ {percentageSum, topSum, lastSum} \subseteq Int
  /\ intervalCount \in [IntervalNo -> Nat]
  /\ events \in 0 .. MaxEvents

(* Whichever contracts an event updates, the two partial averages are those of
   the contracts that rose most and least, as long as there are enough that
   none is among both. *)
PartialAveragesAreExtreme ==
  LET places == 1 .. Len(m_TickerDataList) IN
  Len(m_TickerDataList) >= 2 * Top =>
    \A chosen \in kSubset(Top, places) :
      /\ SumOf(m_TickerDataList, chosen) <= topSum
      /\ SumOf(m_TickerDataList, chosen) >= lastSum

CountIn(intervals) == SumFunctionOnSet(intervalCount, intervals)

Above == Levels + 1 .. 2 * Levels
Below == 0 .. Levels - 1

(* What an event adds to the intervals above, below and at zero is no more than the
   contracts it finds risen, fallen and unchanged: RecordPerc counts no contract
   twice, nor on the wrong side of zero.  And the chart, whatever its bounds, shows
   no count in two bars. *)
DistributionAccounted ==
  [][events' # events =>
     /\ CountIn(Above)' - CountIn(Above) <= riseCount'
     /\ CountIn(Below)' - CountIn(Below) <= fallCount'
     /\ CountIn({Levels})' - CountIn({Levels}) <= unchangedCount'
     /\ SumFunction([bar \in ChartBars |-> BarCount(bar)])' <= CountIn(IntervalNo)']_marketVars

(* What MarketSummaryData.cs says of its intervals, which lie next to each other from
   -infinity to +infinity: they hold the numbers of the whole distribution, each
   contract's change once (see the README). *)
IntervalsHoldDistribution == CountIn(IntervalNo) = Len(m_TickerDataList)
=============================================================================
