--------------------- MODULE PlannedTaskSchedulerProofs ---------------------
(***************************************************************************)
(* What holds of the PlannedTaskScheduler for every set of tasks, every     *)
(* spacing of the Updates and every length of the day: limited tasks run as *)
(* often as they may, daily tasks once for every day, interval tasks on     *)
(* time.                                                                    *)
(***************************************************************************)
EXTENDS PlannedTaskScheduler, TLAPS

(* A handler keeps its type; ids wait for their removal only within an Update,
   and only after their visit. *)
TableInv ==
  /\ \A id \in DOMAIN m_Id2DelayHandlerDict :
       m_Id2DelayHandlerDict[id].type = history[id].added.type
  /\ ~update.running => m_ShouldRemoveIDList = {} /\ update.pending = {}
  /\ m_ShouldRemoveIDList \intersect update.pending = {}

(* A limited task has its remaining repetitions, or waits for its removal. *)
CountdownInv ==
  \A id \in DOMAIN m_Id2DelayHandlerDict : LET h == history[id] IN
    IsLimited(h.added) =>
      /\ h.added.repeat \in 0 .. MaxRuns - 1
      /\ IF id \in m_ShouldRemoveIDList THEN h.runs = MayRun(h.added)
         ELSE /\ h.runs < MayRun(h.added)
              /\ m_Id2DelayHandlerDict[id].repeat = h.added.repeat - h.runs

(* A daily task's next moment is its first plus a day for every run. *)
DailyInv ==
  \A id \in DOMAIN m_Id2DelayHandlerDict : LET h == history[id] IN
    h.added.type = "Daily" /\ h.runs < MaxRuns =>
      /\ m_Id2DelayHandlerDict[id].next = h.added.next + h.runs * DayLength
      /\ h.runs > 0 => h.since >= h.added.next + (h.runs - 1) * DayLength

(* TotalTime is the time from the last run to the last visit: this Update's
   for the tasks it has visited, the last Update's for the others. *)
Visited(id) == IF update.running /\ id \notin update.pending THEN clock ELSE m_LastTimestamp

IntervalInv ==
  \A id \in DOMAIN m_Id2DelayHandlerDict : LET h == m_Id2DelayHandlerDict[id] IN
    h.type = "Interval" /\ h.delay <= FloatExact => h.total = Visited(id) - history[id].since

(* The inductive invariant. *)
IndInv == SchedulerTypeOK /\ TableInv /\ CountdownInv /\ DailyInv /\ IntervalInv

-----------------------------------------------------------------------------

(* A sum reaches a delay that floats count to exactly when its float does. *)
LEMMA FloatReaches ==
  ASSUME NumbersAssumption, NEW ms \in Int, NEW delay \in Int, delay <= FloatExact
  PROVE  /\ Float(ms) \in Int
         /\ Float(ms) >= delay <=> ms >= delay
         /\ Float(ms) < delay => Float(ms) = ms
BY DEF NumbersAssumption, Float

(* A float has a value. *)
LEMMA FloatType ==
  ASSUME NumbersAssumption, NEW ms \in Int
  PROVE  Float(ms) \in Int
BY DEF NumbersAssumption, Float

(* A daily task's handler. *)
LEMMA DailyType ==
  ASSUME NEW next \in Nat
  PROVE  Daily(next) \in Handler /\ Daily(next).total = 0 /\ Daily(next).type = "Daily"
BY DEF Daily, DelayHandler, Handler

(* A history that has been dropped is one that could be. *)
LEMMA NoHistoryType ==
  ASSUME NumbersAssumption, SchedulerBoundsAssumption
  PROVE  NoHistory \in [added : Handler, runs : 0 .. MaxRuns, since : Times]
<1>1. Daily(0) \in Handler
  BY DailyType
<1> QED
  BY <1>1 DEF NoHistory, Times, NumbersAssumption, SchedulerBoundsAssumption

(* The program starts with no tasks. *)
LEMMA InitInv ==
  ASSUME NumbersAssumption, SchedulerBoundsAssumption
  PROVE  SchedulerInit => IndInv
<1> SUFFICES ASSUME SchedulerInit PROVE IndInv
  OBVIOUS
<1>1. DOMAIN m_Id2DelayHandlerDict = {}
  BY DEF SchedulerInit, NoTasks
<1>2. SchedulerTypeOK
  <2>1. history \in [Ids -> [added : Handler, runs : 0 .. MaxRuns, since : Times]]
    BY NoHistoryType DEF SchedulerInit
  <2>2. /\ clock \in Times /\ m_LastTimestamp \in Times
        /\ m_IncreaseKey \in 0 .. MaxTasks /\ setBacks \in 0 .. MaxSetBacks
    BY DEF NumbersAssumption, SchedulerBoundsAssumption, SchedulerInit, Times
  <2> QED
    BY <1>1, <2>1, <2>2 DEF SchedulerInit, SchedulerTypeOK, Idle
<1> QED
  BY <1>1, <1>2 DEF SchedulerInit, IndInv, TableInv, CountdownInv, DailyInv, IntervalInv, Idle

(* The end of the process leaves no tasks. *)
LEMMA ProcessEndsInv ==
  ASSUME NumbersAssumption, SchedulerBoundsAssumption, IndInv, ProcessEnds
  PROVE  IndInv'
<1>1. (DOMAIN m_Id2DelayHandlerDict)' = {}
  BY DEF ProcessEnds, NoTasks
<1>2. SchedulerTypeOK'
  <2>1. history' \in [Ids -> [added : Handler, runs : 0 .. MaxRuns, since : Times]]
    BY NoHistoryType DEF ProcessEnds
  <2>2. m_LastTimestamp' \in Times
    BY DEF NumbersAssumption, SchedulerBoundsAssumption, ProcessEnds, Times
  <2> QED
    BY <1>1, <2>1, <2>2 DEF ProcessEnds, IndInv, SchedulerTypeOK, Idle, timeVars
<1> QED
  BY <1>1, <1>2 DEF ProcessEnds, IndInv, TableInv, CountdownInv, DailyInv, IntervalInv, Idle

(* A new task of any type. *)
Fresh ==
  {h \in Handler : /\ h.total = 0
                   /\ h.type # "Daily" => h.repeat \in Repeats \union {Forever}}

(* A task that is added has its history before it. *)
LEMMA AddInv ==
  ASSUME InputsAssumption, NumbersAssumption, SchedulerBoundsAssumption, IndInv,
         NEW h \in Fresh, AddHandler(h)
  PROVE  IndInv'
<1> DEFINE k == m_IncreaseKey
           D == DOMAIN m_Id2DelayHandlerDict
<1> USE DEF IndInv
<1>1. /\ k \in Ids /\ k \notin D /\ D \subseteq Ids /\ k' = k + 1 /\ k \in 0 .. MaxTasks - 1
      /\ D \subseteq 0 .. k - 1
  BY DEF AddHandler, SchedulerTypeOK, SchedulerBoundsAssumption, Ids
<1>2. D' = D \union {k}
  BY DEF AddHandler
<1>3. /\ m_Id2DelayHandlerDict'[k] = h
      /\ \A id \in D : m_Id2DelayHandlerDict'[id] = m_Id2DelayHandlerDict[id]
  BY <1>1 DEF AddHandler
<1>4. /\ history'[k] = [added |-> h, runs |-> 0, since |-> m_LastTimestamp]
      /\ \A id \in D : history'[id] = history[id]
  BY <1>1 DEF AddHandler, SchedulerTypeOK
<1>5. /\ m_ShouldRemoveIDList = {} /\ update.pending = {} /\ ~update.running
      /\ UNCHANGED <<m_ShouldRemoveIDList, m_LastTimestamp, clock, setBacks, update, ended>>
  BY DEF AddHandler, TableInv, timeVars
<1>6. SchedulerTypeOK'
  <2>1. history' \in [Ids -> [added : Handler, runs : 0 .. MaxRuns, since : Times]]
    BY <1>1 DEF AddHandler, SchedulerTypeOK, Fresh, SchedulerBoundsAssumption
  <2>2. \A id \in D' : m_Id2DelayHandlerDict'[id] \in Handler
    BY <1>2, <1>3 DEF SchedulerTypeOK, Fresh
  <2>3. /\ k' \in 0 .. MaxTasks /\ D' \subseteq 0 .. k' - 1
    BY <1>1, <1>2 DEF SchedulerBoundsAssumption
  <2> QED
    BY <2>1, <2>2, <2>3, <1>2, <1>5 DEF SchedulerTypeOK
<1>7. TableInv'
  BY <1>2, <1>3, <1>4, <1>5 DEF TableInv
<1>8. CountdownInv'
  <2> SUFFICES ASSUME NEW id \in D', IsLimited(history'[id].added)
               PROVE  /\ history'[id].added.repeat \in 0 .. MaxRuns - 1
                      /\ history'[id].runs < MayRun(history'[id].added)
                      /\ m_Id2DelayHandlerDict'[id].repeat = history'[id].added.repeat - history'[id].runs
    BY <1>5 DEF CountdownInv
  <2>1. CASE id = k
    <3>1. history'[id].added = h
      BY <2>1, <1>4
    <3>2. h.repeat \in Repeats
      BY <3>1 DEF IsLimited, Fresh
    <3>3. h.repeat \in 0 .. MaxRuns - 1
      BY <3>2 DEF InputsAssumption
    <3> QED
      BY <3>1, <3>3, <2>1, <1>3, <1>4 DEF MayRun, SchedulerBoundsAssumption
  <2>2. CASE id \in D
    BY <2>2, <1>3, <1>4, <1>5 DEF CountdownInv
  <2> QED
    BY <2>1, <2>2, <1>2
<1>9. DailyInv'
  <2>1. h.next = h.next + 0 * DayLength
    BY DEF NumbersAssumption, Fresh, Handler
  <2> QED
    BY <2>1, <1>2, <1>3, <1>4 DEF DailyInv
<1>10. IntervalInv'
  <2>1. m_LastTimestamp \in Int
    BY DEF SchedulerTypeOK, Times, NumbersAssumption, SchedulerBoundsAssumption
  <2> QED
    BY <2>1, <1>2, <1>3, <1>4, <1>5 DEF IntervalInv, Visited, Fresh
<1> QED
  BY <1>6, <1>7, <1>8, <1>9, <1>10

(* Time that passes between two Updates changes nothing of the tasks. *)
LEMMA ClockInv ==
  ASSUME NumbersAssumption, SchedulerBoundsAssumption, IndInv, TimePasses \/ SetBack
  PROVE  IndInv'
<1> USE DEF IndInv
<1>1. clock' \in Times /\ setBacks' \in 0 .. MaxSetBacks
  BY DEF SchedulerTypeOK, TimePasses, SetBack, Times, NumbersAssumption, SchedulerBoundsAssumption
<1>2. /\ UNCHANGED <<tableVars, m_ShouldRemoveIDList, m_LastTimestamp, update, ended, history>>
      /\ ~update.running
  BY DEF TimePasses, SetBack
<1>3. SchedulerTypeOK'
  BY <1>1, <1>2 DEF SchedulerTypeOK, tableVars
<1> QED
  BY <1>2, <1>3 DEF TableInv, CountdownInv, DailyInv, IntervalInv, Visited, tableVars

(* Tasks that are removed between two Updates leave the others as they were. *)
LEMMA RemovalInv ==
  ASSUME NumbersAssumption, SchedulerBoundsAssumption, IndInv, NEW ids,
         m_Id2DelayHandlerDict' = Without(ids), history' = HistoryWithout(ids),
         m_ShouldRemoveIDList' = {}, ~update'.running, update'.pending = {},
         update' \in [running : BOOLEAN, pending : SUBSET {}],
         m_ShouldRemoveIDList \subseteq ids, m_LastTimestamp' \in Times,
         \A id \in DOMAIN m_Id2DelayHandlerDict : Visited(id) = m_LastTimestamp',
         UNCHANGED <<m_IncreaseKey, timeVars, ended>>
  PROVE  IndInv'
<1> USE DEF IndInv
<1> DEFINE D == DOMAIN m_Id2DelayHandlerDict
<1>1. D' = D \ ids /\ D \subseteq Ids
  BY DEF Without, SchedulerTypeOK, Ids, SchedulerBoundsAssumption
<1>2. \A id \in D' : /\ m_Id2DelayHandlerDict'[id] = m_Id2DelayHandlerDict[id]
                     /\ history'[id] = history[id] /\ id \in D
                     /\ id \notin m_ShouldRemoveIDList
  BY <1>1 DEF Without, HistoryWithout
<1>3. SchedulerTypeOK'
  <2>1. history' \in [Ids -> [added : Handler, runs : 0 .. MaxRuns, since : Times]]
    BY NoHistoryType DEF HistoryWithout, SchedulerTypeOK
  <2>2. \A id \in D' : m_Id2DelayHandlerDict'[id] \in Handler
    BY <1>2 DEF SchedulerTypeOK
  <2> QED
    BY <2>1, <2>2, <1>1, <1>2 DEF SchedulerTypeOK, timeVars
<1>4. TableInv' /\ CountdownInv' /\ DailyInv'
  BY <1>2 DEF TableInv, CountdownInv, DailyInv
<1>5. IntervalInv'
  BY <1>2 DEF IntervalInv, Visited
<1> QED
  BY <1>3, <1>4, <1>5

(* ClearHandler, by another thread. *)
LEMMA ClearInv ==
  ASSUME NumbersAssumption, SchedulerBoundsAssumption, IndInv, NEW id, ClearHandler(id)
  PROVE  IndInv'
<1>1. /\ update' = update /\ ~update.running /\ update.pending = {}
      /\ update \in [running : BOOLEAN, pending : SUBSET {}] /\ m_ShouldRemoveIDList = {}
  BY DEF ClearHandler, IndInv, SchedulerTypeOK, TableInv
<1>2. \A i \in DOMAIN m_Id2DelayHandlerDict : Visited(i) = m_LastTimestamp'
  BY <1>1 DEF ClearHandler, Visited
<1> QED
  BY <1>1, <1>2, RemovalInv DEF ClearHandler, IndInv, SchedulerTypeOK

(* The end of an Update removes the tasks that ran for the last time. *)
LEMMA EndUpdateInv ==
  ASSUME NumbersAssumption, SchedulerBoundsAssumption, IndInv, EndUpdate
  PROVE  IndInv'
<1>1. ~update'.running /\ update'.pending = {} /\ update' \in [running : BOOLEAN, pending : SUBSET {}]
  BY DEF EndUpdate, Idle
<1>2. \A i \in DOMAIN m_Id2DelayHandlerDict : Visited(i) = m_LastTimestamp'
  BY DEF EndUpdate, Visited
<1> QED
  BY <1>1, <1>2, RemovalInv DEF EndUpdate, IndInv, SchedulerTypeOK

(* An Update begins with no task visited. *)
LEMMA BeginUpdateInv ==
  ASSUME IndInv, BeginUpdate
  PROVE  IndInv'
<1> USE DEF IndInv
<1>1. /\ UNCHANGED <<tableVars, m_ShouldRemoveIDList, m_LastTimestamp, timeVars, ended, history>>
      /\ ~update.running /\ m_ShouldRemoveIDList = {}
      /\ update' = [running |-> TRUE, pending |-> DOMAIN m_Id2DelayHandlerDict]
  BY DEF BeginUpdate, TableInv
<1>2. SchedulerTypeOK'
  BY <1>1 DEF SchedulerTypeOK, tableVars, timeVars
<1>3. IntervalInv'
  BY <1>1 DEF IntervalInv, Visited, tableVars
<1> QED
  BY <1>1, <1>2, <1>3 DEF TableInv, CountdownInv, DailyInv, tableVars

(* What a run or a pass leaves of a handler. *)
LEMMA CountedType ==
  ASSUME NumbersAssumption, IndInv, NEW h \in Handler
  PROVE  /\ Counted(h) \in Handler
         /\ Counted(h).type = h.type /\ Counted(h).repeat = h.repeat
         /\ Counted(h).next = h.next /\ Counted(h).delay = h.delay
         /\ h.type = "Interval" => Counted(h).total = Float(h.total + clock - m_LastTimestamp)
<1>1. h.total \in Int /\ clock \in Int /\ m_LastTimestamp \in Int
  BY DEF Handler, IndInv, SchedulerTypeOK, Times
<1>2. Float(h.total + clock - m_LastTimestamp) \in Int
  BY <1>1, FloatType
<1>3. h.type \in {"Interval", "Tick", "Daily"}
  BY DEF Handler
<1>4. CASE h.type = "Interval"
  BY <1>2, <1>4 DEF Counted, Handler
<1>5. CASE h.type = "Tick"
  BY <1>1, <1>5 DEF Counted, Handler
<1>6. CASE h.type = "Daily"
  BY <1>6 DEF Counted, Handler
<1> QED
  BY <1>3, <1>4, <1>5, <1>6

(* A run leaves a handler of the same kind, counted down. *)
LEMMA AfterRunType ==
  ASSUME NumbersAssumption, NEW h \in Handler
  PROVE  /\ AfterRun(h) \in Handler
         /\ AfterRun(h).type = h.type /\ AfterRun(h).delay = h.delay
         /\ h.type = "Daily" => AfterRun(h).next = h.next + DayLength
         /\ h.type # "Daily" =>
              /\ AfterRun(h).total = 0
              /\ h.repeat # Forever => AfterRun(h).repeat = h.repeat - 1
<1>1. CASE h.type = "Daily"
  <2>1. h.next + DayLength \in Nat
    BY DEF Handler, NumbersAssumption
  <2>2. AfterRun(h) = [h EXCEPT !.next = h.next + DayLength]
    BY <1>1 DEF AfterRun
  <2> QED
    BY <1>1, <2>1, <2>2 DEF Handler
<1>2. CASE h.type # "Daily"
  <2> DEFINE r == IF h.repeat = Forever THEN h.repeat ELSE h.repeat - 1
  <2>1. r \in Int
    BY DEF Handler
  <2>2. AfterRun(h) = [[h EXCEPT !.total = 0] EXCEPT !.repeat = r]
    BY <1>2 DEF AfterRun
  <2>3. h.repeat # Forever => r = h.repeat - 1
    OBVIOUS
  <2> HIDE DEF r
  <2> DEFINE g == [h EXCEPT !.total = 0]
  <2>4. g \in Handler /\ g.total = 0 /\ g.type = h.type /\ g.delay = h.delay
    BY DEF Handler
  <2>5. AfterRun(h) = [g EXCEPT !.repeat = r]
    BY <2>2
  <2> HIDE DEF g
  <2> QED
    BY <1>2, <2>1, <2>3, <2>4, <2>5 DEF Handler
<1> QED
  BY <1>1, <1>2

(* A task that is not due counts the time or the frame. *)
LEMMA PassInv ==
  ASSUME NumbersAssumption, SchedulerBoundsAssumption, IndInv, NEW id, Pass(id)
  PROVE  IndInv'
<1> USE DEF IndInv
<1> DEFINE D == DOMAIN m_Id2DelayHandlerDict
           h == m_Id2DelayHandlerDict[id]
<1>1. /\ update.running /\ id \in update.pending /\ id \in D /\ h \in Handler
      /\ m_Id2DelayHandlerDict' = [m_Id2DelayHandlerDict EXCEPT ![id] = Counted(@)]
      /\ update' = [update EXCEPT !.pending = @ \ {id}]
      /\ update \in [running : BOOLEAN, pending : SUBSET D]
      /\ UNCHANGED <<m_IncreaseKey, m_ShouldRemoveIDList, m_LastTimestamp, clock, setBacks,
                     ended, history>>
  BY DEF Pass, SchedulerTypeOK, TableInv, timeVars
<1>2. /\ D' = D /\ m_Id2DelayHandlerDict'[id] = Counted(h)
      /\ \A i \in D : i # id => m_Id2DelayHandlerDict'[i] = m_Id2DelayHandlerDict[i]
      /\ update'.running /\ update'.pending = update.pending \ {id}
  BY <1>1
<1>3. SchedulerTypeOK'
  <2>1. update' \in [running : BOOLEAN, pending : SUBSET D]
    BY <1>1
  <2>2. \A i \in D : m_Id2DelayHandlerDict'[i] \in Handler
    BY <1>1, <1>2, CountedType DEF SchedulerTypeOK
  <2> QED
    BY <2>1, <2>2, <1>1, <1>2 DEF SchedulerTypeOK
<1>4. TableInv'
  BY <1>1, <1>2, CountedType DEF TableInv
<1>5. CountdownInv'
  BY <1>1, <1>2, CountedType DEF CountdownInv
<1>6. DailyInv'
  BY <1>1, <1>2, CountedType DEF DailyInv
<1>7. IntervalInv'
  <2> SUFFICES ASSUME NEW i \in D, m_Id2DelayHandlerDict'[i].type = "Interval",
                      m_Id2DelayHandlerDict'[i].delay <= FloatExact
               PROVE  m_Id2DelayHandlerDict'[i].total = Visited(i)' - history[i].since
    BY <1>1, <1>2 DEF IntervalInv
  <2>1. CASE i # id
    BY <2>1, <1>1, <1>2 DEF IntervalInv, Visited
  <2>2. CASE i = id
    <3>1. h.type = "Interval" /\ h.delay <= FloatExact /\ h.delay \in Int /\ h.total \in Int
      BY <2>2, <1>1, <1>2, CountedType DEF Handler
    <3>2. clock \in Int /\ m_LastTimestamp \in Int
      BY DEF SchedulerTypeOK, Times
    <3>3. Float(h.total + clock - m_LastTimestamp) < h.delay
      <4>1. ~(Counted(h).total >= h.delay)
        BY <1>1, <3>1 DEF Pass, ShouldDoAction
      <4>2. Float(h.total + clock - m_LastTimestamp) \in Int
        BY <3>1, <3>2, FloatType
      <4> QED
        BY <4>1, <4>2, <3>1, <1>1, CountedType
    <3>4. Counted(h).total = h.total + clock - m_LastTimestamp
      BY <3>1, <3>2, <3>3, <1>1, CountedType, FloatReaches
    <3>5. h.total = m_LastTimestamp - history[id].since
      BY <3>1, <1>1 DEF IntervalInv, Visited
    <3>6. history[id].since \in Int
      <4>1. history \in [Ids -> [added : Handler, runs : 0 .. MaxRuns, since : Times]] /\ id \in Ids
        BY <1>1 DEF SchedulerTypeOK, Ids, SchedulerBoundsAssumption
      <4>2. Times \subseteq Int
        BY DEF Times, SchedulerBoundsAssumption
      <4> QED
        BY <4>1, <4>2
    <3>7. Visited(id)' = clock
      BY <1>1, <1>2 DEF Visited
    <3> QED
      BY <2>2, <3>2, <3>4, <3>5, <3>6, <3>7, <1>2
  <2> QED
    BY <2>1, <2>2
<1> QED
  BY <1>3, <1>4, <1>5, <1>6, <1>7

(* The next day's product. *)
LEMMA NextMultiple ==
  ASSUME NEW n \in Nat, NEW d \in Nat
  PROVE  (n + 1) * d = n * d + d /\ n * d \in Int
OBVIOUS

(* A run resets the task's counter or moves its moment on by a day, counts its
   repetition down, and drops the tasks its action clears. *)
LEMMA RunInv ==
  ASSUME NumbersAssumption, SchedulerBoundsAssumption, IndInv,
         NEW id, NEW cleared, Run(id, cleared)
  PROVE  IndInv'
<1> USE DEF IndInv
<1> DEFINE D == DOMAIN m_Id2DelayHandlerDict
           h == m_Id2DelayHandlerDict[id]
           old == history[id]
           new == [added |-> old.added, since |-> clock,
                   runs |-> IF old.runs < MaxRuns THEN old.runs + 1 ELSE old.runs]
<1>1. /\ update.running /\ id \in update.pending /\ id \in D /\ h \in Handler
      /\ D \subseteq Ids /\ id \notin m_ShouldRemoveIDList
      /\ update \in [running : BOOLEAN, pending : SUBSET D]
      /\ clock \in Nat /\ m_LastTimestamp \in Nat
      /\ UNCHANGED <<m_IncreaseKey, m_LastTimestamp, clock, setBacks, ended>>
  <2>1. /\ update.running /\ id \in update.pending /\ update \in [running : BOOLEAN, pending : SUBSET D]
        /\ id \notin m_ShouldRemoveIDList
    BY DEF Run, ToVisit, SchedulerTypeOK, TableInv
  <2>2. id \in D /\ h \in Handler
    BY <2>1 DEF SchedulerTypeOK
  <2>5. D \subseteq Ids
    BY DEF SchedulerTypeOK, Ids, SchedulerBoundsAssumption
  <2>3. clock \in Nat /\ m_LastTimestamp \in Nat
    BY DEF SchedulerTypeOK, Times, SchedulerBoundsAssumption
  <2>4. UNCHANGED <<m_IncreaseKey, m_LastTimestamp, clock, setBacks, ended>>
    BY DEF Run, ToVisit, timeVars
  <2> QED
    BY <2>1, <2>2, <2>3, <2>4, <2>5
<1>2. /\ old \in [added : Handler, runs : 0 .. MaxRuns, since : Times]
      /\ history \in [Ids -> [added : Handler, runs : 0 .. MaxRuns, since : Times]]
      /\ MaxRuns \in Nat \ {0}
  BY <1>1 DEF SchedulerTypeOK, SchedulerBoundsAssumption
<1>3. /\ D' = D \ cleared
      /\ \A i \in D' : m_Id2DelayHandlerDict'[i] =
                         IF i = id THEN AfterRun(h) ELSE m_Id2DelayHandlerDict[i]
  BY DEF Run, ToVisit
<1>4. /\ update' = [update EXCEPT !.pending = @ \ ({id} \union cleared)]
      /\ update'.running /\ update'.pending = update.pending \ ({id} \union cleared)
  BY <1>1 DEF Run, ToVisit
<1>5. /\ new \in [added : Handler, runs : 0 .. MaxRuns, since : Times]
      /\ new.added = old.added /\ new.since = clock
      /\ new.runs = IF old.runs < MaxRuns THEN old.runs + 1 ELSE old.runs
  BY <1>2 DEF SchedulerTypeOK
<1>6. /\ history' = [i \in Ids |-> IF i \in cleared THEN NoHistory
                                   ELSE IF i = id THEN new ELSE history[i]]
      /\ \A i \in D' : history'[i] = IF i = id THEN new ELSE history[i]
  <2>1. history' = [HistoryWithout(cleared) EXCEPT ![id] =
          IF id \in cleared THEN NoHistory
          ELSE [added |-> @.added, since |-> clock,
                runs |-> IF @.runs < MaxRuns THEN @.runs + 1 ELSE @.runs]]
    BY DEF Run, ToVisit
  <2>2. HistoryWithout(cleared)[id] = IF id \in cleared THEN NoHistory ELSE old
    BY <1>1 DEF HistoryWithout
  <2>3. history' = [HistoryWithout(cleared) EXCEPT ![id] =
                      IF id \in cleared THEN NoHistory ELSE new]
    BY <2>1, <2>2
  <2> HIDE DEF new
  <2> QED
    BY <2>3, <1>1, <1>3 DEF HistoryWithout
<1>7. m_ShouldRemoveIDList' = m_ShouldRemoveIDList \union (IF IsSpent(h) THEN {id} ELSE {})
  BY DEF Run, ToVisit
<1> HIDE DEF new
<1>8. SchedulerTypeOK'
  <2>1. history' \in [Ids -> [added : Handler, runs : 0 .. MaxRuns, since : Times]]
    BY <1>2, <1>5, <1>6, NoHistoryType
  <2>2. \A i \in D' : m_Id2DelayHandlerDict'[i] \in Handler
    BY <1>1, <1>3, AfterRunType DEF SchedulerTypeOK
  <2>3. update' \in [running : BOOLEAN, pending : SUBSET D']
    BY <1>1, <1>3, <1>4
  <2>4. m_ShouldRemoveIDList' \subseteq Ids
    BY <1>1, <1>7 DEF SchedulerTypeOK
  <2> QED
    BY <2>1, <2>2, <2>3, <2>4, <1>1, <1>3 DEF SchedulerTypeOK
<1>9. TableInv'
  <2>1. \A i \in D' : m_Id2DelayHandlerDict'[i].type = history'[i].added.type
    BY <1>1, <1>3, <1>5, <1>6, AfterRunType DEF TableInv
  <2> QED
    BY <2>1, <1>1, <1>4, <1>7 DEF TableInv
<1>10. CountdownInv'
  <2> SUFFICES ASSUME NEW i \in D', IsLimited(history'[i].added)
               PROVE  /\ history'[i].added.repeat \in 0 .. MaxRuns - 1
                      /\ IF i \in m_ShouldRemoveIDList'
                         THEN history'[i].runs = MayRun(history'[i].added)
                         ELSE /\ history'[i].runs < MayRun(history'[i].added)
                              /\ m_Id2DelayHandlerDict'[i].repeat
                                   = history'[i].added.repeat - history'[i].runs
    BY DEF CountdownInv
  <2>1. CASE i # id
    BY <2>1, <1>3, <1>6, <1>7 DEF CountdownInv
  <2>2. CASE i = id
    <3>1. /\ history'[i] = new /\ IsLimited(old.added) /\ h.type = old.added.type
          /\ m_Id2DelayHandlerDict'[i] = AfterRun(h)
      BY <2>2, <1>1, <1>3, <1>5, <1>6 DEF TableInv
    <3>2. /\ old.added.repeat \in 0 .. MaxRuns - 1 /\ old.runs < MayRun(old.added)
          /\ h.repeat = old.added.repeat - old.runs
      BY <3>1, <1>1 DEF CountdownInv
    <3>3. old.runs \in Nat /\ old.runs < MaxRuns /\ new.runs = old.runs + 1
      BY <3>2, <1>2, <1>5 DEF MayRun
    <3>4. h.repeat # Forever /\ h.type # "Daily" /\ h.repeat \in Nat
      BY <3>1, <3>2, <3>3 DEF IsLimited, Forever, MayRun
    <3>5. AfterRun(h).repeat = h.repeat - 1
      BY <3>4, <1>1, AfterRunType
    <3>6. i \in m_ShouldRemoveIDList' <=> h.repeat - 1 <= 0
      BY <2>2, <3>4, <1>1, <1>7 DEF IsSpent
    <3>7. CASE h.repeat - 1 <= 0
      BY <3>1, <3>2, <3>3, <3>4, <3>6, <3>7, <1>5 DEF MayRun
    <3>8. CASE ~(h.repeat - 1 <= 0)
      BY <3>1, <3>2, <3>3, <3>4, <3>5, <3>6, <3>8, <1>5 DEF MayRun
    <3> QED
      BY <3>7, <3>8
  <2> QED
    BY <2>1, <2>2
<1>11. DailyInv'
  <2> SUFFICES ASSUME NEW i \in D', history'[i].added.type = "Daily", history'[i].runs < MaxRuns
               PROVE  /\ m_Id2DelayHandlerDict'[i].next
                           = history'[i].added.next + history'[i].runs * DayLength
                      /\ history'[i].runs > 0 =>
                           history'[i].since
                             >= history'[i].added.next + (history'[i].runs - 1) * DayLength
    BY <1>1 DEF DailyInv
  <2>1. CASE i # id
    BY <2>1, <1>1, <1>3, <1>6 DEF DailyInv
  <2>2. CASE i = id
    <3>1. /\ history'[i] = new /\ old.added.type = "Daily" /\ h.type = "Daily"
          /\ m_Id2DelayHandlerDict'[i] = AfterRun(h)
      BY <2>2, <1>1, <1>3, <1>5, <1>6 DEF TableInv
    <3>2. old.runs \in Nat /\ old.runs < MaxRuns /\ new.runs = old.runs + 1
      BY <3>1, <1>2, <1>5
    <3>3. h.next = old.added.next + old.runs * DayLength
      BY <3>1, <3>2, <1>1 DEF DailyInv
    <3>4. clock >= h.next
      BY <3>1 DEF Run, ShouldDoAction
    <3>5. AfterRun(h).next = h.next + DayLength
      BY <3>1, <1>1, AfterRunType
    <3>6. old.added.next \in Int /\ DayLength \in Int
      BY <1>2 DEF Handler, NumbersAssumption
    <3>7. (old.runs + 1) * DayLength = old.runs * DayLength + DayLength /\ old.runs * DayLength \in Int
      BY <3>2, NextMultiple DEF NumbersAssumption
    <3>8. (old.runs + 1) - 1 = old.runs
      BY <3>2
    <3> QED
      BY <3>1, <3>2, <3>3, <3>4, <3>5, <3>6, <3>7, <3>8, <1>5
  <2> QED
    BY <2>1, <2>2
<1>12. IntervalInv'
  <2> SUFFICES ASSUME NEW i \in D', m_Id2DelayHandlerDict'[i].type = "Interval",
                      m_Id2DelayHandlerDict'[i].delay <= FloatExact
               PROVE  m_Id2DelayHandlerDict'[i].total = Visited(i)' - history'[i].since
    BY DEF IntervalInv
  <2>1. CASE i # id
    <3>1. Visited(i)' = Visited(i)
      BY <2>1, <1>1, <1>3, <1>4 DEF Visited
    <3> QED
      BY <2>1, <3>1, <1>3, <1>6 DEF IntervalInv
  <2>2. CASE i = id
    <3>1. AfterRun(h).total = 0
      BY <2>2, <1>1, <1>3, AfterRunType
    <3>2. Visited(i)' = clock
      BY <2>2, <1>1, <1>4 DEF Visited
    <3> QED
      BY <2>2, <3>1, <3>2, <1>1, <1>3, <1>5, <1>6
  <2> QED
    BY <2>1, <2>2
<1> QED
  BY <1>8, <1>9, <1>10, <1>11, <1>12

-----------------------------------------------------------------------------

(* Every step of the specification preserves the invariant. *)
LEMMA NextInv ==
  ASSUME InputsAssumption, NumbersAssumption, SchedulerBoundsAssumption, IndInv,
         [SchedulerNext]_schedulerVars
  PROVE  IndInv'
<1>1. CASE AddTimeTask
  <2>1. PICK delay \in Delays, repeat \in Repeats \union {Forever} :
          AddHandler(DelayHandler("Interval", delay, repeat, 0))
    BY <1>1 DEF AddTimeTask
  <2>2. delay \in Nat /\ repeat \in Int
    BY DEF InputsAssumption, NumbersAssumption, SchedulerBoundsAssumption, Forever
  <2>3. DelayHandler("Interval", delay, repeat, 0) \in Fresh
    BY <2>2 DEF DelayHandler, Fresh, Handler
  <2> QED
    BY <2>1, <2>3, AddInv
<1>2. CASE AddTickTask
  <2>1. PICK frames \in Frames, repeat \in Repeats \union {Forever} :
          AddHandler(DelayHandler("Tick", frames, repeat, 0))
    BY <1>2 DEF AddTickTask
  <2>2. frames \in Nat /\ repeat \in Int
    BY DEF InputsAssumption, SchedulerBoundsAssumption, Forever
  <2>3. DelayHandler("Tick", frames, repeat, 0) \in Fresh
    BY <2>2 DEF DelayHandler, Fresh, Handler
  <2> QED
    BY <2>1, <2>3, AddInv
<1>3. CASE AddDailySpecificTimeTask
  <2>1. PICK target \in 0 .. DayLength - 1 : AddHandler(Daily(NextExecution(target)))
    BY <1>3 DEF AddDailySpecificTimeTask
  <2>2. /\ DayLength \in Nat \ {0} /\ target \in Nat
        /\ clock \in Nat /\ clock \div DayLength \in Nat
    BY DEF NumbersAssumption, IndInv, SchedulerTypeOK, Times
  <2>3. (clock \div DayLength) * DayLength \in Nat
    BY <2>2
  <2>4. NextExecution(target) \in Nat
    BY <2>2, <2>3 DEF NextExecution
  <2>5. Daily(NextExecution(target)) \in Fresh
    BY <2>4, DailyType DEF Fresh
  <2> QED
    BY <2>1, <2>5, AddInv
<1>4. CASE \E id \in Ids : ClearHandler(id) \/ ActionEndsProcess(id)
  BY <1>4, ClearInv, ProcessEndsInv DEF ActionEndsProcess
<1>5. CASE UpdateStep
  BY <1>5, BeginUpdateInv, EndUpdateInv, PassInv, RunInv DEF UpdateStep, Runs
<1>6. CASE Escape
  BY <1>6, ProcessEndsInv DEF Escape
<1>7. CASE TimePasses \/ SetBack
  BY <1>7, ClockInv
<1>8. CASE UNCHANGED schedulerVars
  BY <1>8 DEF schedulerVars, tableVars, timeVars, IndInv, SchedulerTypeOK, TableInv, CountdownInv,
              DailyInv, IntervalInv, Visited
<1> QED
  BY <1>1, <1>2, <1>3, <1>4, <1>5, <1>6, <1>7, <1>8 DEF SchedulerNext

(* The invariant holds in every state of the specification. *)
THEOREM Invariance == SchedulerSafety => []IndInv
<1> USE InputsAssumption, NumbersAssumption, SchedulerBoundsAssumption
<1>1. SchedulerInit => IndInv
  BY InitInv
<1>2. IndInv /\ [SchedulerNext]_schedulerVars => IndInv'
  BY NextInv
<1> QED
  BY <1>1, <1>2, PTL DEF SchedulerSafety

(* The scheduler's state stays of its types. *)
THEOREM TypesHold == SchedulerSafety => []SchedulerTypeOK
BY Invariance, PTL DEF IndInv

(* Limited tasks run as often as they were told to, and are gone then. *)
THEOREM LimitedTasksEnd == SchedulerSafety => []RunsWithinRepeat
<1>1. IndInv => RunsWithinRepeat
  <2> SUFFICES ASSUME IndInv, NEW id \in DOMAIN m_Id2DelayHandlerDict,
                      IsLimited(history[id].added)
               PROVE  /\ history[id].runs <= MayRun(history[id].added)
                      /\ update.running \/ history[id].runs < MayRun(history[id].added)
    BY DEF RunsWithinRepeat
  <2>1. history[id].runs \in Nat
    BY SchedulerBoundsAssumption DEF IndInv, SchedulerTypeOK, Ids
  <2>2. history[id].added.repeat \in Int
    BY SchedulerBoundsAssumption DEF IndInv, CountdownInv
  <2> QED
    BY <2>1, <2>2 DEF IndInv, CountdownInv, TableInv, MayRun
<1> QED
  BY <1>1, Invariance, PTL

(* Daily tasks run once for every day. *)
THEOREM DailyTasksRunOnce == SchedulerSafety => []DailyOncePerDay
<1>1. IndInv => DailyOncePerDay
  BY DEF IndInv, DailyInv, DailyOncePerDay
<1> QED
  BY <1>1, Invariance, PTL

(* Interval tasks run in the first Update that finds their delay passed. *)
THEOREM IntervalTasksRunOnTime == SchedulerSafety => IntervalRunsOnTime
<1> DEFINE OnTime ==
      \A id \in update.pending :
        LET h == m_Id2DelayHandlerDict[id]
        IN h.type = "Interval" /\ h.delay <= FloatExact =>
             /\ Runs(id) => Waited(id) >= h.delay
             /\ Pass(id) => Waited(id) < h.delay
<1>1. IndInv => OnTime
  <2> SUFFICES ASSUME IndInv, NEW id \in update.pending,
                      m_Id2DelayHandlerDict[id].type = "Interval",
                      m_Id2DelayHandlerDict[id].delay <= FloatExact
               PROVE  /\ Runs(id) => Waited(id) >= m_Id2DelayHandlerDict[id].delay
                      /\ Pass(id) => Waited(id) < m_Id2DelayHandlerDict[id].delay
    OBVIOUS
  <2> DEFINE h == m_Id2DelayHandlerDict[id]
  <2>1. /\ id \in DOMAIN m_Id2DelayHandlerDict /\ h \in Handler /\ id \in Ids
        /\ clock \in Int /\ m_LastTimestamp \in Int /\ history[id].since \in Int
    BY SchedulerBoundsAssumption DEF IndInv, SchedulerTypeOK, Times, Ids
  <2>2. h.total \in Int /\ h.delay \in Int
    BY <2>1 DEF Handler
  <2>3. h.total = m_LastTimestamp - history[id].since
    BY <2>1 DEF IndInv, IntervalInv, Visited
  <2>4. Counted(h).total = Float(h.total + clock - m_LastTimestamp)
    BY <2>1, NumbersAssumption, CountedType
  <2>5. h.total + clock - m_LastTimestamp = Waited(id)
    BY <2>1, <2>2, <2>3 DEF Waited
  <2>6. Counted(h).total >= h.delay <=> Waited(id) >= h.delay
    BY <2>1, <2>2, <2>4, <2>5, NumbersAssumption, FloatReaches
  <2>7. Waited(id) \in Int
    BY <2>1 DEF Waited
  <2>8. ShouldDoAction(h) <=> Counted(h).total >= h.delay
    BY DEF ShouldDoAction
  <2>9. /\ Runs(id) => ShouldDoAction(h)
        /\ Pass(id) => ~ShouldDoAction(h)
    BY DEF Runs, Run, Pass
  <2> HIDE DEF h
  <2>10. /\ Runs(id) => Waited(id) >= h.delay
         /\ Pass(id) => Waited(id) < h.delay
    BY <2>2, <2>6, <2>7, <2>8, <2>9
  <2> QED
    BY <2>10 DEF h
<1>2. IndInv /\ [SchedulerNext]_schedulerVars => [OnTime]_schedulerVars
  BY <1>1
<1> QED
  BY <1>2, Invariance, PTL DEF SchedulerSafety, IntervalRunsOnTime
=============================================================================
