---------------------------- MODULE HistoryQuery ----------------------------
(***************************************************************************)
(* QuoteService's query of past candles.  More of them than one request may *)
(* ask for are asked in pages, by tasks of a lazy enumeration: WaitAll runs *)
(* all of them, the loop that merges runs each a second time, and only its  *)
(* answers count.  A page's start is derived anew from its end, and a page  *)
(* that fails is an empty one.                                              *)
(*                                                                         *)
(* Binance's answer is external: the first candles, at most the limit, that *)
(* open between the start and the end, both included.  The candle of        *)
(* minute c opens at c * Interval, the first one ever is that of minute 0.  *)
(***************************************************************************)
EXTENDS Integers, Sequences, SequencesExt, FiniteSetsExt

CONSTANTS
  PageSize,   (* KLINE_MAX_COUNT_PER_QUERY.                                  *)
  Interval,   (* Ticks of a candle.                                          *)
  Limits,     (* What the callers ask for.                                   *)
  StartTimes, (* Their startTime, if they give no endTime.                   *)
  EndTimes,   (* Their endTime, or m_ServerTime.                             *)
  Opened,     (* Candles when the query begins.                              *)
  MaxOpened   (* Bound: candles at the end.                                  *)

ASSUME HistoryAssumption ==
  /\ {PageSize, Interval} \union Limits \subseteq Nat \ {0}
  /\ StartTimes \union EndTimes \subseteq Nat
  /\ Opened \in Nat /\ MaxOpened \in Nat /\ Opened <= MaxOpened

VARIABLES
  opened,   (* The candles 0 .. opened - 1 exist.                            *)
  phase,    (* idle, single, pages or done.                                  *)
  query,    (* startTime, endTime and limit, after the rules; an endTime     *)
            (* that is not given is {}, one that is has it as its element.   *)
  pending,  (* The tasks WaitAll waits for.                                  *)
  merged,   (* Pages merged.                                                 *)
  result,
  failed    (* History: the merged pages that failed.                        *)

historyVars == <<opened, phase, query, pending, merged, result, failed>>

HistoryInit ==
  /\ opened = Opened /\ phase = "idle"
  /\ query = [start |-> 0, end |-> {}, limit |-> 1]
  /\ pending = {} /\ merged = 0 /\ result = << >> /\ failed = {}

(* The candles of a stretch of minutes that have opened. *)
Candles(first, last) ==
  [k \in 1 .. Max({0, Min({last, opened - 1}) - first + 1}) |-> first + k - 1]

(* The first minute that begins at a time or after it. *)
MinuteFrom(time) == Max({0, (time + Interval - 1) \div Interval})

GetKlinesAsync(start, end, limit) ==
  LET first == MinuteFrom(start)
  IN Candles(first, Min({first + limit - 1} \union {time \div Interval : time \in end}))

(* A request that fails is logged, and its answer is empty. *)
APIQueryCandlestickDataNonThreaded(start, end, limit) ==
  \/ result' = result \o GetKlinesAsync(start, end, limit) /\ UNCHANGED failed
  \/ UNCHANGED result /\ failed' = failed \union {merged'}

(* With an end, the start is so many candles before it, given or not. *)
StartTime(end, limit) == end - Interval * limit

Begin(start, end, limit) ==
  /\ phase = "idle"
  /\ query' = [start |-> start, end |-> end, limit |-> limit]
  /\ phase' = IF limit <= PageSize THEN "single" ELSE "pages"
  /\ pending' = IF limit <= PageSize THEN {} ELSE 1 .. (limit + PageSize - 1) \div PageSize
  /\ UNCHANGED <<opened, merged, result, failed>>

APIQueryCandlestickData ==
  \E limit \in Limits :
    \/ \E end \in EndTimes : Begin(StartTime(end, limit), {end}, limit)
    \/ \E start \in StartTimes : Begin(start, {}, limit)

QuerySingle ==
  /\ phase = "single" /\ phase' = "done"
  /\ merged' = 1
  /\ APIQueryCandlestickDataNonThreaded(query.start, query.end, query.limit)
  /\ UNCHANGED <<opened, query, pending>>

Pages == (query.limit + PageSize - 1) \div PageSize

(* Wrong variant: a page begins after the candle at which the last one ends. *)
PageEnd_After(i) ==
  Min({query.start + i * Interval * PageSize + (i - 1) * Interval} \union query.end)

(* timeRanges: full pages from the start on, the last one cut at the end. *)
PageEnd(i) == Min({query.start + i * Interval * PageSize} \union query.end)

(* A task of the first round: its answer is thrown away. *)
RunTask(i) ==
  /\ i \in pending /\ pending' = pending \ {i}
  /\ UNCHANGED <<opened, phase, query, merged, result, failed>>

Merge ==
  /\ phase = "pages" /\ pending = {} /\ merged < Pages
  /\ merged' = merged + 1
  /\ APIQueryCandlestickDataNonThreaded(StartTime(PageEnd(merged'), PageSize),
                                        {PageEnd(merged')}, PageSize)
  /\ UNCHANGED <<opened, phase, query, pending>>

(* Wrong variant: the oldest are kept. *)
TakeLast_First(list, n) == SubSeq(list, 1, Min({n, Len(list)}))

TakeLast(list, n) == SubSeq(list, Max({1, Len(list) - n + 1}), Len(list))

EndMerge ==
  /\ phase = "pages" /\ merged = Pages
  /\ phase' = "done" /\ result' = TakeLast(result, query.limit)
  /\ UNCHANGED <<opened, query, pending, merged, failed>>

CandleOpens ==
  /\ opened < MaxOpened /\ opened' = opened + 1
  /\ UNCHANGED <<phase, query, pending, merged, result, failed>>

HistoryNext ==
  \/ APIQueryCandlestickData \/ QuerySingle
  \/ \E i \in pending : RunTask(i)
  \/ Merge \/ EndMerge \/ CandleOpens

-----------------------------------------------------------------------------

HistoryTypeOK ==
  /\ opened \in Opened .. MaxOpened /\ phase \in {"idle", "single", "pages", "done"}
  /\ query \in [start : Int, end : {{}} \union {{end} : end \in EndTimes},
                limit : Limits \union {1}]
  /\ merged \in Nat /\ pending \subseteq 1 .. Pages /\ failed \subseteq 1 .. merged
  /\ result \in Seq(0 .. MaxOpened - 1) /\ (phase = "done" => Len(result) <= query.limit)

(* The candles a query is meant to return: those that open before its end, as
   many as its limit, or so many from its start on. *)
UpTo ==
  IF query.end = {} THEN query.start + Interval * query.limit ELSE CHOOSE end \in query.end : TRUE
Asked(n) == Candles(MinuteFrom(UpTo - Interval * n), MinuteFrom(UpTo) - 1)

(* Nothing that was asked for opens while the requests are under way. *)
Past == UpTo <= Opened * Interval

(* A query of past candles that begins no earlier than the first candle
   returns every one of them once and in order, from one request or from whole
   pages, even though each page includes the candle at its end and the pages
   are asked while new candles open: if no request failed. *)
HistoryExact ==
  /\ phase = "done" /\ failed = {} /\ Past /\ query.start >= 0
  /\ query.limit <= PageSize \/ query.limit % PageSize = 0
  => result = Asked(query.limit)

(* Whatever the limit, and whichever of the other pages failed, the end of the
   result are the newest candles before the end of the query, as many as a
   page holds: a last page that is cut reaches back over the one before it,
   whose candles then come twice, and not in order, but only before these. *)
NewestAreLast ==
  LET n == Min({PageSize, query.limit}) IN
  /\ phase = "done" /\ query.end # {} /\ merged \notin failed /\ Past
  /\ StartTime(UpTo, n) >= 0
  => TakeLast(result, n) = Asked(n)
=============================================================================
