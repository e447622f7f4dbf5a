--------------------------- MODULE BoundedHistory ---------------------------
(***************************************************************************)
(* What a CircularBuffer promises its users: it is the sequence of the     *)
(* last Capacity items pushed, oldest first, of which any may be amended   *)
(* in place.  Nothing is said of slots, heads or tails.                    *)
(***************************************************************************)
EXTENDS Naturals, Sequences

CONSTANTS
  Item,       (* What the buffer holds.                  *)
  Capacity    (* How many items it remembers.            *)

VARIABLE history

Init == history = <<>>

(* The newest item is appended; a full history forgets its oldest one. *)
Push(item) ==
  history' = IF Len(history) < Capacity
               THEN Append(history, item)
               ELSE Append(Tail(history), item)

Amend(i, item) ==
  /\ i \in DOMAIN history
  /\ history' = [history EXCEPT ![i] = item]

(* The item of a step is read off the history it leaves, so that checking this
   specification never enumerates Item. *)
Next ==
  \/ /\ Len(history') > 0
     /\ LET newest == history'[Len(history')] IN newest \in Item /\ Push(newest)
  \/ \E i \in DOMAIN history : history'[i] \in Item /\ Amend(i, history'[i])

Spec == Init /\ [][Next]_history

=============================================================================
