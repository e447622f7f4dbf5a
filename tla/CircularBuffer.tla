--------------------------- MODULE CircularBuffer ---------------------------
(***************************************************************************)
(* CircularBuffer<T> (Lampyris.CSharp.Common/Sources/Container): a fixed   *)
(* array, written at m_Tail, whose oldest item is at m_Head.  The state    *)
(* machine has one action per mutating member; a getter is an operator.    *)
(* The index -1 names the newest item, 0 the oldest.                       *)
(***************************************************************************)
EXTENDS Integers, Sequences

CONSTANTS
  Item,       (* The element type T.                                   *)
  Capacity,   (* m_Capacity; the constructor rejects values below one. *)
  Unused      (* default(T), which fills the array before it is used.  *)

VARIABLES
  slots,      (* m_Buffer *)
  head,       (* m_Head   *)
  tail,       (* m_Tail   *)
  count       (* m_Count  *)

bufferVars == <<slots, head, tail, count>>

Slot == 0 .. Capacity - 1

(* The constructor. *)
Init ==
  /\ slots = [i \in Slot |-> Unused]
  /\ head = 0
  /\ tail = 0
  /\ count = 0

-----------------------------------------------------------------------------
(* Reads.  An index outside [-count, count - 1] makes the code throw.      *)

InRange(index) == index \in -count .. count - 1

Position(index) == (head + (IF index < 0 THEN count + index ELSE index)) % Capacity

Get(index) == slots[Position(index)]

ToArray == [i \in 1 .. count |-> slots[(head + (i - 1)) % Capacity]]

-----------------------------------------------------------------------------
(* Writes. *)

(* Wrong variant: the tail does not wrap around. *)
Add_TailRunsOn(item) ==
  /\ slots' = [slots EXCEPT ![tail] = item]
  /\ tail' = tail + 1
  /\ count' = IF count < Capacity THEN count + 1 ELSE count
  /\ head' = IF count < Capacity THEN head ELSE (head + 1) % Capacity

(* Wrong variant: the head moves with every item, not only in a full buffer. *)
Add_HeadMoves(item) ==
  /\ slots' = [slots EXCEPT ![tail] = item]
  /\ tail' = (tail + 1) % Capacity
  /\ count' = IF count < Capacity THEN count + 1 ELSE count
  /\ head' = (head + 1) % Capacity

Add(item) ==
  /\ slots' = [slots EXCEPT ![tail] = item]
  /\ tail' = (tail + 1) % Capacity
  /\ \/ /\ count < Capacity
        /\ count' = count + 1
        /\ head' = head
     \/ /\ count = Capacity
        /\ head' = (head + 1) % Capacity
        /\ count' = count

(* Wrong variant: whatever the index, the oldest item is overwritten. *)
Set_Oldest(index, item) ==
  /\ InRange(index)
  /\ slots' = [slots EXCEPT ![head] = item]
  /\ UNCHANGED <<head, tail, count>>

Set(index, item) ==
  /\ InRange(index)
  /\ slots' = [slots EXCEPT ![Position(index)] = item]
  /\ UNCHANGED <<head, tail, count>>

Next ==
  \E item \in Item :
    \/ Add(item)
    \/ \E index \in -Capacity .. Capacity - 1 : Set(index, item)

Spec == Init /\ [][Next]_bufferVars

-----------------------------------------------------------------------------

(* The fields hold what their declarations allow. *)
TypeOK ==
  /\ slots \in [Slot -> Item \union {Unused}]
  /\ head \in Slot
  /\ tail \in Slot
  /\ count \in 0 .. Capacity

(* The head only moves once the array is full, and the tail is always count
   slots ahead of it: the relation between the three counters that the
   refinement below rests on. *)
Aligned ==
  /\ tail = (head + count) % Capacity
  /\ count < Capacity => head = 0

(* Every remembered item was stored by Add or Set: reading inside the range
   never returns default(T). *)
NoUnusedRead == \A i \in 1 .. count : ToArray[i] \in Item

(* The abstract history this buffer stands for. *)
History == INSTANCE BoundedHistory WITH history <- ToArray

=============================================================================
