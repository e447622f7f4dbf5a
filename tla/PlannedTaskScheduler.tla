------------------------ MODULE PlannedTaskScheduler ------------------------
(***************************************************************************)
(* PlannedTaskScheduler: interval, tick and daily tasks, run by the Update  *)
(* that Program.Main calls in its loop.  Every method takes one reentrant   *)
(* lock, so that other threads add and clear tasks only between two         *)
(* Updates, while the actions that an Update runs add and clear within it:  *)
(* a removal lets the enumeration go on, an insertion makes its next        *)
(* MoveNext throw, and nobody catches.                                      *)
(*                                                                         *)
(* Time is in milliseconds; a day has DayLength of them.  TotalTime is a    *)
(* float: it counts single milliseconds up to FloatExact (2^24, four hours  *)
(* and forty minutes) and pairs of them above.                              *)
(***************************************************************************)
EXTENDS Integers, FiniteSets

CONSTANTS
  Delays,      (* The delayMs of interval tasks.                             *)
  Frames,      (* The delayFrame of tick tasks.                              *)
  Repeats,     (* The repeatTime of both, besides -1, for ever.              *)
  DayLength,   (* Milliseconds of a day.                                     *)
  FloatExact,  (* The floats are exact up to here.                           *)
  Start,       (* The clock when the program starts: long after 1970.        *)
  MaxTime,     (* Bound: milliseconds the clock passes.                      *)
  MaxTasks,    (* Bound: tasks added.                                        *)
  MaxSetBacks, (* Bound: how often the clock is set back by one.             *)
  MaxRuns      (* Bound: the histories count runs up to here.                *)

ASSUME InputsAssumption ==
  /\ Delays \subseteq 0 .. 2 * FloatExact /\ Frames \subseteq Nat
  /\ Repeats \subseteq 0 .. MaxRuns - 1
ASSUME NumbersAssumption ==
  /\ DayLength \in Nat \ {0} /\ Start \in Nat
  /\ FloatExact \in Nat \ {0} /\ FloatExact % 4 = 0
ASSUME SchedulerBoundsAssumption ==
  /\ MaxTime \in Nat /\ MaxTasks \in Nat /\ MaxSetBacks \in Nat
  /\ MaxRuns \in Nat \ {0}

VARIABLES
  m_IncreaseKey,          (* The id of the next task.                        *)
  m_Id2DelayHandlerDict,  (* The tasks by id.                                *)
  m_ShouldRemoveIDList,   (* The ids an Update removes at its end.           *)
  m_LastTimestamp,        (* The timestamp of the last Update.               *)
  clock,                  (* DateTime.Now.                                   *)
  setBacks,               (* What is left of the bound.                      *)
  update,                 (* The Update under way: the ids it has still to
                             visit.                                          *)
  ended,                  (* The process has ended.                          *)
  history                 (* History: of each task in the table, the handler
                             it began with, its runs, and since when it waits:
                             the last Update before it was added, then its
                             last run.                                       *)

tableVars == <<m_IncreaseKey, m_Id2DelayHandlerDict>>
timeVars  == <<clock, setBacks>>
schedulerVars == <<tableVars, m_ShouldRemoveIDList, m_LastTimestamp, timeVars, update, ended,
          history>>

Ids     == 0 .. MaxTasks - 1
Forever == -1
Times   == 0 .. Start + MaxTime
Idle    == [running |-> FALSE, pending |-> {}]

(* DelayHandler; the fields of the other types keep their zeroes. *)
DelayHandler(type, delay, repeat, next) ==
  [type |-> type, delay |-> delay, repeat |-> repeat, total |-> 0, next |-> next]
Daily(next) == DelayHandler("Daily", 0, 0, next)

(* A TimeSpan's next occurrence: today, or tomorrow when its moment is past. *)
NextExecution(target) ==
  (clock \div DayLength) * DayLength + target
    + (IF clock % DayLength > target THEN DayLength ELSE 0)

NoHistory == [added |-> Daily(0), runs |-> 0, since |-> 0]

Live(id) == id \in DOMAIN m_Id2DelayHandlerDict
Without(ids) ==
  [id \in DOMAIN m_Id2DelayHandlerDict \ ids |-> m_Id2DelayHandlerDict[id]]
HistoryWithout(ids) == [id \in Ids |-> IF id \in ids THEN NoHistory ELSE history[id]]

NoTasks == [id \in {} |-> Daily(0)]

SchedulerInit ==
  /\ m_IncreaseKey = 0 /\ m_Id2DelayHandlerDict = NoTasks
  /\ m_ShouldRemoveIDList = {} /\ m_LastTimestamp = 0
  /\ clock = Start /\ setBacks = MaxSetBacks
  /\ update = Idle /\ ended = FALSE
  /\ history = [id \in Ids |-> NoHistory]

-----------------------------------------------------------------------------
(* Other threads, between two Updates. *)

AddHandler(handler) ==
  /\ ~ended /\ ~update.running /\ m_IncreaseKey < MaxTasks
  /\ m_Id2DelayHandlerDict' = [id \in DOMAIN m_Id2DelayHandlerDict \union {m_IncreaseKey} |->
                                 IF id = m_IncreaseKey THEN handler
                                                       ELSE m_Id2DelayHandlerDict[id]]
  /\ m_IncreaseKey' = m_IncreaseKey + 1
  /\ history' = [history EXCEPT ![m_IncreaseKey] =
                   [added |-> handler, runs |-> 0, since |-> m_LastTimestamp]]
  /\ UNCHANGED <<m_ShouldRemoveIDList, m_LastTimestamp, timeVars, update, ended>>

AddTimeTask == \E delay \in Delays, repeat \in Repeats \union {Forever} :
                 AddHandler(DelayHandler("Interval", delay, repeat, 0))
AddTickTask == \E frames \in Frames, repeat \in Repeats \union {Forever} :
                 AddHandler(DelayHandler("Tick", frames, repeat, 0))
AddDailySpecificTimeTask ==
  \E target \in 0 .. DayLength - 1 : AddHandler(Daily(NextExecution(target)))

ClearHandler(id) ==
  /\ ~ended /\ ~update.running /\ Live(id)
  /\ m_Id2DelayHandlerDict' = Without({id}) /\ history' = HistoryWithout({id})
  /\ UNCHANGED <<m_IncreaseKey, m_ShouldRemoveIDList, m_LastTimestamp, timeVars, update, ended>>

-----------------------------------------------------------------------------
(* Update, task by task; the order of a Dictionary is not specified.  It reads
   the clock once, at its begin, so that the clock may as well stand still
   until its end. *)

BeginUpdate ==
  /\ ~ended /\ ~update.running
  /\ update' = [running |-> TRUE, pending |-> DOMAIN m_Id2DelayHandlerDict]
  /\ UNCHANGED <<tableVars, m_ShouldRemoveIDList, m_LastTimestamp, timeVars, ended, history>>

(* An integer as a float: pairs of milliseconds above FloatExact, the tie to
   the even half.  Above 2 * FloatExact it exceeds every delay, and its grain
   does not matter. *)
Float(ms) ==
  IF ms <= FloatExact \/ ms > 2 * FloatExact \/ ms % 2 = 0 THEN ms
  ELSE IF (ms \div 2) % 2 = 0 THEN ms - 1 ELSE ms + 1

(* Wrong variant: only the time since the last Update counts. *)
Counted_Forgets(h) ==
  CASE h.type = "Interval" -> [h EXCEPT !.total = Float(clock - m_LastTimestamp)]
    [] h.type = "Tick"     -> [h EXCEPT !.total = @ + 1]
    [] OTHER               -> h

(* The handler's clock or counter after this Update's share. *)
Counted(h) ==
  CASE h.type = "Interval" -> [h EXCEPT !.total = Float(@ + clock - m_LastTimestamp)]
    [] h.type = "Tick"     -> [h EXCEPT !.total = @ + 1]
    [] OTHER               -> h

ShouldDoAction(h) ==
  IF h.type = "Daily" THEN clock >= h.next ELSE Counted(h).total >= h.delay

(* Wrong variant: a run takes one delay off the counter. *)
AfterRun_Subtract(h) ==
  IF h.type = "Daily" THEN [h EXCEPT !.next = @ + DayLength]
  ELSE [h EXCEPT !.total = Counted(h).total - h.delay,
                 !.repeat = IF @ = Forever THEN @ ELSE @ - 1]

(* Wrong variant: the next moment is counted from the day of the run. *)
AfterRun_SameDay(h) ==
  IF h.type = "Daily"
  THEN [h EXCEPT !.next = (clock \div DayLength) * DayLength + (@ % DayLength)]
  ELSE [h EXCEPT !.total = 0, !.repeat = IF @ = Forever THEN @ ELSE @ - 1]

(* What a run leaves: the counter at zero or the moment a day later, and one
   repetition less. *)
AfterRun(h) ==
  IF h.type = "Daily" THEN [h EXCEPT !.next = @ + DayLength]
  ELSE [h EXCEPT !.total = 0, !.repeat = IF @ = Forever THEN @ ELSE @ - 1]

(* Wrong variant: the repetition is counted down after it is compared. *)
IsSpent_Late(h) == h.type # "Daily" /\ h.repeat # Forever /\ h.repeat <= 0

(* The run of h was its last. *)
IsSpent(h) == h.type # "Daily" /\ h.repeat # Forever /\ h.repeat - 1 <= 0

Pass(id) ==
  /\ ~ended /\ id \in update.pending /\ ~ShouldDoAction(m_Id2DelayHandlerDict[id])
  /\ m_Id2DelayHandlerDict' = [m_Id2DelayHandlerDict EXCEPT ![id] = Counted(@)]
  /\ update' = [update EXCEPT !.pending = @ \ {id}]
  /\ UNCHANGED <<m_IncreaseKey, m_ShouldRemoveIDList, m_LastTimestamp, timeVars, ended, history>>

(* Wrong variant: a task that another one's action clears is visited still. *)
ToVisit_Cleared(id, cleared) == update.pending \ {id}

(* What the enumeration has still to visit after a run. *)
ToVisit(id, cleared) == update.pending \ ({id} \union cleared)

(* The task runs; its action may Clear tasks, itself included. *)
Run(id, cleared) ==
  /\ ~ended /\ id \in update.pending /\ ShouldDoAction(m_Id2DelayHandlerDict[id])
  /\ m_Id2DelayHandlerDict' = [i \in DOMAIN m_Id2DelayHandlerDict \ cleared |->
       IF i = id THEN AfterRun(m_Id2DelayHandlerDict[i]) ELSE m_Id2DelayHandlerDict[i]]
  /\ m_ShouldRemoveIDList' = m_ShouldRemoveIDList \union
       (IF IsSpent(m_Id2DelayHandlerDict[id]) THEN {id} ELSE {})
  /\ update' = [update EXCEPT !.pending = ToVisit(id, cleared)]
  /\ history' = [HistoryWithout(cleared) EXCEPT ![id] =
       IF id \in cleared THEN NoHistory
       ELSE [added |-> @.added, since |-> clock,
             runs |-> IF @.runs < MaxRuns THEN @.runs + 1 ELSE @.runs]]
  /\ UNCHANGED <<m_IncreaseKey, m_LastTimestamp, timeVars, ended>>

(* Nothing of the scheduler outlives the process. *)
ProcessEnds ==
  /\ ended' = TRUE
  /\ m_Id2DelayHandlerDict' = NoTasks /\ m_ShouldRemoveIDList' = {}
  /\ m_LastTimestamp' = 0 /\ update' = Idle /\ history' = [id \in Ids |-> NoHistory]
  /\ UNCHANGED <<m_IncreaseKey, timeVars>>

(* The action throws, or it adds a task and the enumeration throws. *)
ActionEndsProcess(id) ==
  /\ ~ended /\ id \in update.pending /\ ShouldDoAction(m_Id2DelayHandlerDict[id])
  /\ ProcessEnds

EndUpdate ==
  /\ ~ended /\ update.running /\ update.pending = {}
  /\ m_Id2DelayHandlerDict' = Without(m_ShouldRemoveIDList)
  /\ history' = HistoryWithout(m_ShouldRemoveIDList)
  /\ m_ShouldRemoveIDList' = {}
  /\ m_LastTimestamp' = clock
  /\ update' = Idle
  /\ UNCHANGED <<m_IncreaseKey, timeVars, ended>>

(* Program.Main: the Escape key ends the loop between two Updates. *)
Escape == ~ended /\ ~update.running /\ ProcessEnds

-----------------------------------------------------------------------------

TimePasses ==
  /\ ~ended /\ ~update.running
  /\ clock < Start + MaxTime /\ clock' = clock + 1
  /\ UNCHANGED <<tableVars, m_ShouldRemoveIDList, m_LastTimestamp, setBacks, update, ended, history>>

(* The clock is corrected. *)
SetBack ==
  /\ ~ended /\ ~update.running
  /\ setBacks > 0 /\ clock > Start
  /\ clock' = clock - 1 /\ setBacks' = setBacks - 1
  /\ UNCHANGED <<tableVars, m_ShouldRemoveIDList, m_LastTimestamp, update, ended, history>>

Runs(id) == \E cleared \in {{}} \union {{i} : i \in Ids} : Run(id, cleared)

(* One step of the main loop. *)
UpdateStep ==
  BeginUpdate \/ EndUpdate \/ \E id \in Ids : Pass(id) \/ Runs(id)

SchedulerNext ==
  \/ AddTimeTask \/ AddTickTask \/ AddDailySpecificTimeTask
  \/ \E id \in Ids : ClearHandler(id) \/ ActionEndsProcess(id)
  \/ UpdateStep \/ Escape
  \/ TimePasses \/ SetBack

SchedulerSafety == SchedulerInit /\ [][SchedulerNext]_schedulerVars

(* The main loop never waits. *)
SchedulerSpec == SchedulerSafety /\ WF_schedulerVars(UpdateStep)

-----------------------------------------------------------------------------

Handler ==
  [type : {"Interval", "Tick", "Daily"}, delay : Nat, repeat : Int, total : Int, next : Nat]

SchedulerTypeOK ==
  /\ m_IncreaseKey \in 0 .. MaxTasks
  /\ DOMAIN m_Id2DelayHandlerDict \subseteq 0 .. m_IncreaseKey - 1
  /\ \A id \in DOMAIN m_Id2DelayHandlerDict : m_Id2DelayHandlerDict[id] \in Handler
  /\ m_ShouldRemoveIDList \subseteq Ids
  /\ m_LastTimestamp \in Times /\ clock \in Times
  /\ setBacks \in 0 .. MaxSetBacks
  /\ update \in [running : BOOLEAN, pending : SUBSET DOMAIN m_Id2DelayHandlerDict]
  /\ ended \in BOOLEAN
  /\ history \in [Ids -> [added : Handler, runs : 0 .. MaxRuns, since : Times]]

(* A task that is added with a number of repetitions runs at most so often,
   once if the number is not positive, and no Update leaves it in the table
   after its last run (lines 184 to 190, 193 to 196). *)
MayRun(h)    == IF h.repeat <= 0 THEN 1 ELSE h.repeat
IsLimited(h) == h.type # "Daily" /\ h.repeat # Forever

RunsWithinRepeat ==
  \A id \in DOMAIN m_Id2DelayHandlerDict : LET h == history[id] IN
    IsLimited(h.added) => /\ h.runs <= MayRun(h.added)
                          /\ update.running \/ h.runs < MayRun(h.added)

(* A daily task runs once for every day: its n-th run, catch-up or not, comes
   at or after its n-th moment, even when the clock is set back over it. *)
DailyOncePerDay ==
  \A id \in DOMAIN m_Id2DelayHandlerDict : LET h == history[id] IN
    h.added.type = "Daily" /\ h.runs > 0 /\ h.runs < MaxRuns =>
      h.since >= h.added.next + (h.runs - 1) * DayLength

(* The time an interval task has waited for at this Update. *)
Waited(id) == clock - history[id].since

(* Whatever the Updates' own spacing is, an interval task runs in the first
   one that finds its whole delay passed since its last run, and in none before:
   as long as the delay is one that a float can count to. *)
IntervalRunsOnTime ==
  [][\A id \in update.pending :
       LET h == m_Id2DelayHandlerDict[id]
       IN h.type = "Interval" /\ h.delay <= FloatExact =>
            /\ Runs(id) => Waited(id) >= h.delay
            /\ Pass(id) => Waited(id) < h.delay]_schedulerVars

(* A task that stays due runs, again and again, unless it is cleared or the
   process ends: a tick task always, a daily task once for each day it is
   behind, an interval task whose delay a float can count to. *)
Due(id) ==
  /\ ~ended /\ Live(id)
  /\ LET h == m_Id2DelayHandlerDict[id]
     IN \/ h.type = "Interval" /\ h.delay <= FloatExact /\ clock - history[id].since >= h.delay
        \/ h.type = "Tick"
        \/ h.type = "Daily" /\ clock >= h.next

EveryDueTaskRuns ==
  \A id \in Ids : []<>~Due(id) \/ []<><<Runs(id)>>_schedulerVars
=============================================================================
