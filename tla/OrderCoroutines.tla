--------------------------- MODULE OrderCoroutines ---------------------------
(***************************************************************************)
(* CoroutineManager and the coroutine it is used for: PlaceOrderAsync       *)
(* starts one for each order, OnUpdate moves each one on that waits for     *)
(* nothing any more, from the last to the first.  Callbacks and other       *)
(* threads start orders and remove coroutines between two visits of an      *)
(* OnUpdate too.  Nothing of the program calls OnUpdate yet: the model      *)
(* starts where it will be called.                                          *)
(*                                                                         *)
(* APIPlaceOrderAsync ends with an order's id or -1, or with an exception,  *)
(* which its Result throws again.                                           *)
(***************************************************************************)
EXTENDS Integers, Sequences, SequencesExt

CONSTANTS
  Orders,           (* The orders.                                           *)
  WithCallback,     (* Those placed with a callback that is not null.        *)
  AutoCancelled     (* Those with an autoCancelSeconds above zero.           *)

ASSUME OrdersAssumption == WithCallback \subseteq Orders /\ AutoCancelled \subseteq Orders

VARIABLES
  coroutines,       (* The list, of orders.                                  *)
  index,            (* i of the OnUpdate under way, 0 for none.              *)
  resumeAt,         (* Where each order's coroutine goes on.                 *)
  task,             (* What has become of the last task of each.             *)
  waited,           (* The orders whose WaitForSeconds is over.              *)
  placements,       (* History: how often each order was placed,             *)
  callbacks,        (* how often its callback was called,                    *)
  unvisited,        (* what this OnUpdate found and has still to visit,      *)
  shifts            (* and how often the list moved down under its index.    *)

orderVars ==
  <<coroutines, index, resumeAt, task, waited, placements, callbacks, unvisited, shifts>>

OrdersInit ==
  /\ coroutines = << >> /\ index = 0
  /\ resumeAt = [o \in Orders |-> "unstarted"] /\ task = [o \in Orders |-> "none"]
  /\ waited = {}
  /\ placements = [o \in Orders |-> 0] /\ callbacks = [o \in Orders |-> 0]
  /\ unvisited = {} /\ shifts = 0

(* Wrong variant: the latest coroutine comes first. *)
StartCoroutine_First(o) == coroutines' = <<o>> \o coroutines

StartCoroutine(o) == coroutines' = Append(coroutines, o)

PlaceOrderAsync(o) ==
  /\ resumeAt[o] = "unstarted" /\ resumeAt' = [resumeAt EXCEPT ![o] = "begin"]
  /\ StartCoroutine(o)
  /\ UNCHANGED <<index, task, waited, placements, callbacks, unvisited, shifts>>

(* At any time; the index of an OnUpdate under way stays, whatever moves under it. *)
RemoveCoroutine(o) ==
  /\ Contains(coroutines, o)
  /\ coroutines' = RemoveFirst(coroutines, o)
  /\ unvisited' = unvisited \ {o}
  /\ shifts' = IF \E k \in DOMAIN coroutines : k <= index /\ coroutines[k] = o
                 THEN shifts + 1 ELSE shifts
  /\ UNCHANGED <<index, resumeAt, task, waited, placements, callbacks>>

APIPlaceOrderAsync(o) ==
  /\ task' = [task EXCEPT ![o] = "running"]
  /\ placements' = [placements EXCEPT ![o] = @ + 1]

(* MoveNext of PlaceOrderAsyncPerc, up to its next yield; the three ways it can
   end a visit: the list keeps it, it is removed, or OnUpdate throws.  The result
   of the first placement is read only for the callback, which may throw itself:
   the program's callbacks log, and a log is broadcast. *)
Yields(o, next) ==
  /\ resumeAt' = [resumeAt EXCEPT ![o] = next]
  /\ index' = index - 1 /\ unvisited' = unvisited \ {o}
  /\ UNCHANGED coroutines
Ends(o) ==
  /\ resumeAt' = [resumeAt EXCEPT ![o] = "end"]
  /\ coroutines' = RemoveFirst(coroutines, o)
  /\ index' = index - 1 /\ unvisited' = unvisited \ {o}
  /\ UNCHANGED <<task, placements, callbacks>>
Throws(o) ==
  /\ resumeAt' = [resumeAt EXCEPT ![o] = "end"]
  /\ index' = 0 /\ unvisited' = {}
  /\ UNCHANGED <<coroutines, task, placements>>

MoveNext(o) ==
  \/ /\ resumeAt[o] = "begin"
     /\ APIPlaceOrderAsync(o) /\ Yields(o, "placed") /\ UNCHANGED callbacks
  \/ /\ resumeAt[o] = "placed" /\ o \in WithCallback /\ task[o] # "faulted"
     /\ callbacks' = [callbacks EXCEPT ![o] = @ + 1]
     /\ Throws(o) \/ (Yields(o, "waiting") /\ UNCHANGED <<task, placements>>)
  \/ /\ resumeAt[o] = "placed" /\ o \in WithCallback /\ task[o] = "faulted"
     /\ Throws(o) /\ UNCHANGED callbacks
  \/ /\ resumeAt[o] = "placed" /\ o \notin WithCallback
     /\ Yields(o, "waiting") /\ UNCHANGED <<task, placements, callbacks>>
  \/ /\ resumeAt[o] = "waiting" /\ o \in AutoCancelled
     /\ APIPlaceOrderAsync(o) /\ Yields(o, "placedAgain") /\ UNCHANGED callbacks
  \/ resumeAt[o] = "waiting" /\ o \notin AutoCancelled /\ Ends(o)
  \/ resumeAt[o] \in {"placedAgain", "end"} /\ Ends(o)

(* Wrong variant: an enumerator's MoveNext, true while it has more to come. *)
IsReady_More(o) ==
  CASE resumeAt[o] \in {"placed", "placedAgain"} -> task[o] = "running"
    [] resumeAt[o] = "waiting" -> o \notin waited /\ o \in AutoCancelled
    [] OTHER -> TRUE

(* What the coroutine waits for is over.  An ended one that threw still has the
   task it waited for; one without a time to wait has none to wait. *)
IsReady(o) ==
  CASE resumeAt[o] \in {"placed", "placedAgain"} -> task[o] # "running"
    [] resumeAt[o] = "waiting" -> o \in waited \/ o \notin AutoCancelled
    [] OTHER -> TRUE

BeginOnUpdate ==
  /\ index = 0 /\ coroutines # << >>
  /\ index' = Len(coroutines) /\ unvisited' = ToSet(coroutines) /\ shifts' = 0
  /\ UNCHANGED <<coroutines, resumeAt, task, waited, placements, callbacks>>

Visit ==
  /\ index \in DOMAIN coroutines /\ UNCHANGED <<waited, shifts>>
  /\ LET o == coroutines[index] IN
     \/ IsReady(o) /\ MoveNext(o)
     \/ /\ ~IsReady(o) /\ index' = index - 1 /\ unvisited' = unvisited \ {o}
        /\ UNCHANGED <<coroutines, resumeAt, task, placements, callbacks>>

(* The list has become shorter than the index: reading it throws. *)
VisitThrows ==
  /\ index > Len(coroutines)
  /\ index' = 0 /\ unvisited' = {}
  /\ UNCHANGED <<coroutines, resumeAt, task, waited, placements, callbacks, shifts>>

(* The exchange answers, or the task fails. *)
TaskEnds(o) ==
  /\ task[o] = "running"
  /\ \E outcome \in {"answered", "faulted"} : task' = [task EXCEPT ![o] = outcome]
  /\ UNCHANGED <<coroutines, index, resumeAt, waited, placements, callbacks, unvisited, shifts>>

WaitIsOver(o) ==
  /\ resumeAt[o] = "waiting" /\ o \in AutoCancelled \ waited
  /\ waited' = waited \union {o}
  /\ UNCHANGED <<coroutines, index, resumeAt, task, placements, callbacks, unvisited, shifts>>

OrdersNext ==
  \/ BeginOnUpdate \/ Visit \/ VisitThrows
  \/ \E o \in Orders : PlaceOrderAsync(o) \/ RemoveCoroutine(o) \/ TaskEnds(o) \/ WaitIsOver(o)

-----------------------------------------------------------------------------

OrdersTypeOK ==
  /\ ToSet(coroutines) \subseteq Orders /\ index \in Nat /\ shifts \in Nat
  /\ resumeAt \in [Orders -> {"unstarted", "begin", "placed", "waiting", "placedAgain", "end"}]
  /\ task \in [Orders -> {"none", "running", "answered", "faulted"}]
  /\ waited \subseteq Orders /\ unvisited \subseteq Orders
  /\ placements \in [Orders -> Nat] /\ callbacks \in [Orders -> Nat]

(* An OnUpdate that nothing is thrown out of skips no coroutine that it found and
   that stays in the list, whatever is started, ends or is removed on its way:
   those it has still to visit are at its index or below.  Each removal at or below
   the index, and nothing else, costs at most one visit too many: of a coroutine it
   has visited, of one started meanwhile, or beyond the end of the list, which
   throws.  Without one, each is visited once and none that was started meanwhile. *)
EachVisitedOnce ==
  /\ unvisited \subseteq {coroutines[i] : i \in {k \in DOMAIN coroutines : k <= index}}
  /\ index - shifts <= Len(coroutines)
  /\ \A i \in 1 .. index - shifts : coroutines[i] \in unvisited
  /\ \A i, j \in DOMAIN coroutines : coroutines[i] = coroutines[j] => i = j

(* Each order's callback, if it has one, is called once at most and with the answer
   to its first placement; a placement that throws ends such an order, and it is
   not placed again.  An order is placed twice at most, the second time only if it
   is to be cancelled and after its wait; without a callback also if the first
   placement threw, which nothing notices. *)
PlacementsAccounted ==
  \A o \in Orders :
    /\ callbacks[o] <= IF o \in WithCallback THEN 1 ELSE 0
    /\ callbacks[o] = 1 /\ placements[o] = 1 => task[o] = "answered"
    /\ o \in WithCallback => placements[o] <= 1 + callbacks[o]
    /\ placements[o] > 1 => placements[o] = 2 /\ o \in AutoCancelled /\ o \in waited
    /\ resumeAt[o] = "end" => placements[o] = IF o \in waited THEN 2 ELSE 1
=============================================================================
