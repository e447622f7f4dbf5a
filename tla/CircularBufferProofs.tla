------------------------ MODULE CircularBufferProofs ------------------------
(***************************************************************************)
(* What holds of a CircularBuffer for every capacity and every element     *)
(* type: its counters stay aligned, a read in range returns something that *)
(* was stored, and it implements the bounded history.                      *)
(***************************************************************************)
EXTENDS CircularBuffer, TLAPS

(* The slots in use are filled: the first count ones before the buffer is
   full, all of them afterwards. *)
Filled == \A i \in Slot : i < count => slots[i] \in Item

(* The inductive invariant. *)
IndInv == TypeOK /\ Aligned /\ Filled

-----------------------------------------------------------------------------

(* Two positions of a ring reached by different offsets are different. *)
LEMMA WrapInjective ==
  ASSUME NEW C \in Nat \ {0}, NEW h \in 0 .. C - 1,
         NEW x \in 0 .. C - 1, NEW y \in 0 .. C - 1, x # y
  PROVE  (h + x) % C # (h + y) % C
<1>1. (h + x) % C = IF h + x < C THEN h + x ELSE h + x - C
  OBVIOUS
<1>2. (h + y) % C = IF h + y < C THEN h + y ELSE h + y - C
  OBVIOUS
<1> QED
  BY <1>1, <1>2

(* The constructor establishes the invariant. *)
LEMMA InitInv ==
  ASSUME Capacity \in Nat \ {0}
  PROVE  Init => IndInv
<1>1. 0 % Capacity = 0
  OBVIOUS
<1> QED
  BY <1>1 DEF Init, IndInv, TypeOK, Aligned, Filled, Slot

(* A position read or written lies inside the array. *)
LEMMA PositionInSlot ==
  ASSUME Capacity \in Nat \ {0}, IndInv, NEW index, InRange(index)
  PROVE  /\ Position(index) \in Slot
         /\ Position(index) < Capacity
         /\ count < Capacity => Position(index) < count
<1> DEFINE k == IF index < 0 THEN count + index ELSE index
<1>1. k \in 0 .. count - 1 /\ count \in 0 .. Capacity /\ head \in 0 .. Capacity - 1
  BY DEF InRange, IndInv, TypeOK, Slot
<1>2. (head + k) % Capacity = IF head + k < Capacity THEN head + k ELSE head + k - Capacity
  <2> HIDE DEF k
  <2> QED
    BY <1>1
<1>3. count < Capacity => head = 0
  BY DEF IndInv, Aligned
<1> QED
  BY <1>1, <1>2, <1>3 DEF Position, Slot

(* Add preserves the invariant. *)
LEMMA AddInv ==
  ASSUME Capacity \in Nat \ {0}, IndInv, NEW item \in Item, Add(item)
  PROVE  IndInv'
<1> USE DEF Slot
<1>0. head \in 0 .. Capacity - 1 /\ tail \in 0 .. Capacity - 1 /\ count \in 0 .. Capacity
  BY DEF IndInv, TypeOK
<1>1. tail' = IF tail + 1 < Capacity THEN tail + 1 ELSE 0
  BY <1>0 DEF Add
<1>2. slots' \in [Slot -> Item \union {Unused}] /\ slots' = [slots EXCEPT ![tail] = item]
  BY <1>0 DEF Add, IndInv, TypeOK
<1>3. CASE count < Capacity
  <2>1. head' = 0 /\ head = 0 /\ count' = count + 1
    BY <1>0, <1>3 DEF Add, IndInv, Aligned
  <2>2. tail = count
    <3>1. (head + count) % Capacity = count
      BY <2>1, <1>0, <1>3
    <3> QED
      BY <3>1 DEF IndInv, Aligned
  <2>3. tail' = (head' + count') % Capacity
    BY <2>1, <2>2, <1>0 DEF Add
  <2>4. Filled'
    BY <2>1, <2>2, <1>2, <1>0 DEF IndInv, Filled, TypeOK
  <2>5. TypeOK'
    BY <2>1, <1>0, <1>1, <1>2, <1>3 DEF TypeOK
  <2> QED
    BY <2>1, <2>3, <2>4, <2>5, <1>0 DEF IndInv, Aligned
<1>4. CASE count = Capacity
  <2>1. count' = Capacity /\ head' = IF head + 1 < Capacity THEN head + 1 ELSE 0
    <3>1. count' = Capacity /\ head' = (head + 1) % Capacity
      BY <1>0, <1>4 DEF Add
    <3> QED
      BY <3>1, <1>0
  <2>2. tail = head
    <3>1. (head + count) % Capacity = head
      BY <1>0, <1>4
    <3> QED
      BY <3>1 DEF IndInv, Aligned
  <2>3. tail' = (head' + count') % Capacity
    <3>1. head' \in 0 .. Capacity - 1 /\ tail' = head'
      BY <2>1, <2>2, <1>1, <1>0
    <3> QED
      BY <3>1, <2>1
  <2>4. Filled'
    BY <2>1, <1>0, <1>2, <1>4 DEF IndInv, Filled, TypeOK
  <2>5. TypeOK'
    BY <2>1, <1>0, <1>1, <1>2, <1>4 DEF TypeOK
  <2> QED
    BY <2>1, <2>3, <2>4, <2>5 DEF IndInv, Aligned
<1> QED
  BY <1>0, <1>3, <1>4

(* Set preserves the invariant. *)
LEMMA SetInv ==
  ASSUME Capacity \in Nat \ {0}, IndInv, NEW item \in Item, NEW index, Set(index, item)
  PROVE  IndInv'
<1>1. Position(index) \in Slot
  BY PositionInSlot DEF Set
<1> QED
  BY <1>1 DEF Set, IndInv, TypeOK, Aligned, Filled

(* The counters and the slots stay well formed in every reachable state. *)
THEOREM BufferInvariant ==
  ASSUME Capacity \in Nat \ {0}
  PROVE  Spec => []IndInv
<1>1. Init => IndInv
  BY InitInv
<1>2. IndInv /\ [Next]_bufferVars => IndInv'
  <2> SUFFICES ASSUME IndInv, [Next]_bufferVars PROVE IndInv'
    OBVIOUS
  <2>1. CASE UNCHANGED bufferVars
    BY <2>1 DEF bufferVars, IndInv, TypeOK, Aligned, Filled
  <2>2. ASSUME NEW item \in Item, Add(item) PROVE IndInv'
    BY <2>2, AddInv
  <2>3. ASSUME NEW item \in Item, NEW index \in -Capacity .. Capacity - 1, Set(index, item)
        PROVE  IndInv'
    BY <2>3, SetInv
  <2> QED
    BY <2>1, <2>2, <2>3 DEF Next
<1> QED
  BY <1>1, <1>2, PTL DEF Spec

-----------------------------------------------------------------------------
(* The refinement. *)

(* The slot at offset i from the head, without the division. *)
At(h, i) == IF h + (i - 1) < Capacity THEN h + (i - 1) ELSE h + (i - 1) - Capacity

(* ToArray is the sequence of the count items from the head on. *)
ArrayInv ==
  /\ ToArray \in Seq(Item)
  /\ Len(ToArray) = count
  /\ DOMAIN ToArray = 1 .. count
  /\ \A i \in 1 .. count : ToArray[i] = slots[At(head, i)]

(* ToArray is a sequence, and its items are found without the division. *)
LEMMA ToArrayValue ==
  ASSUME Capacity \in Nat \ {0}
  PROVE  IndInv => ArrayInv
<1> SUFFICES ASSUME IndInv PROVE ArrayInv
  OBVIOUS
<1>0. /\ head \in 0 .. Capacity - 1
      /\ count \in 0 .. Capacity
      /\ count < Capacity => head = 0
  BY DEF IndInv, TypeOK, Aligned, Slot
<1>1. ASSUME NEW i \in 1 .. count
      PROVE  (head + (i - 1)) % Capacity = At(head, i)
  BY <1>0 DEF At
<1>2. ASSUME NEW i \in 1 .. count
      PROVE  /\ (head + (i - 1)) % Capacity \in Slot
             /\ (head + (i - 1)) % Capacity < count
  BY <1>0, <1>1 DEF Slot, At
<1>3. \A i \in 1 .. count : slots[(head + (i - 1)) % Capacity] \in Item
  BY <1>2 DEF IndInv, Filled
<1>4. ToArray \in [1 .. count -> Item]
  BY <1>3 DEF ToArray
<1>5. ToArray \in Seq(Item) /\ Len(ToArray) = count /\ DOMAIN ToArray = 1 .. count
  BY <1>0, <1>4
<1> QED
  BY <1>1, <1>5 DEF ToArray, ArrayInv

(* Add is a Push on the history. *)
LEMMA AddPushes ==
  ASSUME Capacity \in Nat \ {0}, IndInv, NEW item \in Item, Add(item)
  PROVE  /\ ToArray' = IF count < Capacity
                         THEN Append(ToArray, item)
                         ELSE Append(Tail(ToArray), item)
         /\ Len(ToArray') > 0
         /\ ToArray'[Len(ToArray')] = item
<1> USE DEF Slot
<1>0. /\ head \in 0 .. Capacity - 1 /\ tail \in 0 .. Capacity - 1 /\ count \in 0 .. Capacity
      /\ slots \in [0 .. Capacity - 1 -> Item \union {Unused}]
      /\ slots' = [slots EXCEPT ![tail] = item]
  BY DEF IndInv, TypeOK, Add
<1>1. IndInv'
  BY AddInv
<1>2. /\ ToArray \in Seq(Item) /\ Len(ToArray) = count /\ DOMAIN ToArray = 1 .. count
      /\ \A i \in 1 .. count : ToArray[i] = slots[At(head, i)]
  BY ToArrayValue DEF ArrayInv
<1>3. /\ ToArray' \in Seq(Item) /\ Len(ToArray') = count' /\ DOMAIN ToArray' = 1 .. count'
      /\ \A i \in 1 .. count' : ToArray'[i] = slots'[At(head', i)]
  <2>1. ArrayInv'
    BY <1>1, ToArrayValue, PTL
  <2> QED
    BY <2>1 DEF ArrayInv, At
<1>4. CASE count < Capacity
  <2>1. head = 0 /\ head' = 0 /\ count' = count + 1
    BY <1>0, <1>4 DEF Add, IndInv, Aligned
  <2>2. tail = count
    <3>1. (head + count) % Capacity = count
      BY <2>1, <1>0, <1>4
    <3> QED
      BY <3>1 DEF IndInv, Aligned
  <2>3. \A i \in 1 .. count + 1 :
          ToArray'[i] = IF i <= count THEN ToArray[i] ELSE item
    BY <2>1, <2>2, <1>0, <1>2, <1>3, <1>4 DEF At
  <2>4. ToArray' = Append(ToArray, item)
    BY <2>1, <2>3, <1>2, <1>3
  <2> QED
    BY <2>1, <2>3, <2>4, <1>0, <1>3, <1>4
<1>5. CASE count = Capacity
  <2>1. count' = Capacity /\ head' = IF head + 1 < Capacity THEN head + 1 ELSE 0
    <3>1. count' = Capacity /\ head' = (head + 1) % Capacity
      BY <1>0, <1>5 DEF Add
    <3> QED
      BY <3>1, <1>0
  <2>2. tail = head
    <3>1. (head + count) % Capacity = head
      BY <1>0, <1>5
    <3> QED
      BY <3>1 DEF IndInv, Aligned
  <2>3. ASSUME NEW i \in 1 .. Capacity
        PROVE  ToArray'[i] = IF i < Capacity THEN ToArray[i + 1] ELSE item
    <3>1. ToArray'[i] = slots'[At(head', i)]
      BY <2>1, <1>3
    <3>2. CASE i < Capacity
      <4>1. At(head', i) = At(head, i + 1)
        BY <2>1, <1>0, <3>2 DEF At
      <4>2. At(head', i) # tail /\ At(head', i) \in 0 .. Capacity - 1
        BY <2>1, <2>2, <1>0, <3>2 DEF At
      <4>3. ToArray[i + 1] = slots[At(head, i + 1)]
        BY <1>2, <1>5, <3>2
      <4> QED
        BY <3>1, <3>2, <4>1, <4>2, <4>3, <1>0
    <3>3. CASE i = Capacity
      <4>1. At(head', i) = tail
        BY <2>1, <2>2, <1>0, <3>3 DEF At
      <4> QED
        BY <3>1, <3>3, <4>1, <1>0
    <3> QED
      BY <3>2, <3>3
  <2>4. Append(Tail(ToArray), item) \in Seq(Item)
    BY <1>2, <1>5
  <2>5. /\ Len(Append(Tail(ToArray), item)) = Capacity
        /\ \A i \in 1 .. Capacity :
             Append(Tail(ToArray), item)[i] = IF i < Capacity THEN ToArray[i + 1] ELSE item
    BY <1>2, <1>5
  <2>6. ToArray' = Append(Tail(ToArray), item)
    BY <2>1, <2>3, <2>4, <2>5, <1>3
  <2> QED
    BY <2>1, <2>3, <2>6, <1>0, <1>3, <1>5
<1> QED
  BY <1>0, <1>4, <1>5

(* Set amends the item its index names. *)
LEMMA SetAmends ==
  ASSUME Capacity \in Nat \ {0}, IndInv, NEW item \in Item, NEW index, Set(index, item)
  PROVE  \E i \in DOMAIN ToArray :
           /\ ToArray' = [ToArray EXCEPT ![i] = item]
           /\ ToArray'[i] = item
<1> USE DEF Slot
<1> DEFINE k == IF index < 0 THEN count + index ELSE index
<1>0. /\ head \in 0 .. Capacity - 1 /\ count \in 0 .. Capacity
      /\ slots \in [0 .. Capacity - 1 -> Item \union {Unused}]
      /\ slots' = [slots EXCEPT ![(head + k) % Capacity] = item]
      /\ head' = head /\ count' = count
      /\ k \in 0 .. count - 1
  BY DEF IndInv, TypeOK, Set, Position, InRange
<1>1. DOMAIN ToArray = 1 .. count /\ k + 1 \in DOMAIN ToArray
  BY <1>0, ToArrayValue DEF ArrayInv
<1> HIDE DEF k
<1>2. ASSUME NEW i \in 1 .. count
      PROVE  /\ (head + (i - 1)) % Capacity \in 0 .. Capacity - 1
             /\ i # k + 1 => (head + (i - 1)) % Capacity # (head + k) % Capacity
             /\ i = k + 1 => (head + (i - 1)) % Capacity = (head + k) % Capacity
  <2>1. (head + (i - 1)) % Capacity \in 0 .. Capacity - 1
    BY <1>0
  <2>2. ASSUME i # k + 1 PROVE (head + (i - 1)) % Capacity # (head + k) % Capacity
    <3>1. i - 1 \in 0 .. Capacity - 1 /\ k \in 0 .. Capacity - 1 /\ i - 1 # k
      BY <1>0, <2>2
    <3> QED
      BY <3>1, <1>0, WrapInjective
  <2>3. ASSUME i = k + 1 PROVE (head + (i - 1)) % Capacity = (head + k) % Capacity
    <3>1. i - 1 = k
      BY <2>3, <1>0
    <3> QED
      BY <3>1
  <2> QED
    BY <2>1, <2>2, <2>3
<1>3. ToArray' = [ToArray EXCEPT ![k + 1] = item]
  BY <1>0, <1>1, <1>2 DEF ToArray
<1> QED
  BY <1>1, <1>3 DEF ToArray

(* The circular buffer implements the bounded history of its last Capacity
   items, whatever the capacity. *)
THEOREM ImplementsHistory ==
  ASSUME Capacity \in Nat \ {0}
  PROVE  Spec => History!Spec
<1>1. Init => History!Init
  BY DEF Init, History!Init, ToArray
<1>2. IndInv /\ [Next]_bufferVars => [History!Next]_ToArray
  <2> SUFFICES ASSUME IndInv, [Next]_bufferVars PROVE [History!Next]_ToArray
    OBVIOUS
  <2>1. CASE UNCHANGED bufferVars
    BY <2>1 DEF bufferVars, ToArray
  <2>2. ASSUME NEW item \in Item, Add(item) PROVE History!Next
    <3>1. Len(ToArray) = count
      BY ToArrayValue DEF ArrayInv
    <3> QED
      BY <2>2, <3>1, AddPushes DEF History!Next, History!Push
  <2>3. ASSUME NEW item \in Item, NEW index \in -Capacity .. Capacity - 1, Set(index, item)
        PROVE  History!Next
    <3>1. PICK i \in DOMAIN ToArray :
            ToArray' = [ToArray EXCEPT ![i] = item] /\ ToArray'[i] = item
      BY <2>3, SetAmends
    <3> QED
      BY <3>1 DEF History!Next, History!Amend
  <2> QED
    BY <2>1, <2>2, <2>3 DEF Next
<1> QED
  BY <1>1, <1>2, BufferInvariant, PTL DEF Spec, History!Spec

=============================================================================
