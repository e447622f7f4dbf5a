----------------------------- MODULE ScrollView -----------------------------
(***************************************************************************)
(* The client's scroll view: a scroll bar, and a content widget with one    *)
(* row widget for each line of the viewport.  A dragged bar is followed     *)
(* when a timer fires, with the last value it had; the wheel moves both at  *)
(* once and lets a timer that runs fire later, with the value of before.    *)
(***************************************************************************)
EXTENDS Integers, Sequences

CONSTANTS
  ItemHeight,  (* m_itemHeight.                                              *)
  Viewports,   (* Heights the view may have.                                 *)
  Sizes,       (* Lengths of the data lists.                                 *)
  Deltas,      (* Steps of the wheel.                                        *)
  Garbage,     (* What m_scrollValue and m_contentHeight may hold at first.  *)
  MaxLists     (* Bound: calls of updateView.                                *)

ASSUME ScrollAssumption ==
  /\ ItemHeight \in Nat \ {0} /\ Viewports \subseteq Nat \ {0} /\ Viewports # {}
  /\ Sizes \subseteq Nat /\ Garbage \subseteq Nat /\ Deltas \subseteq Nat \ {0}
  /\ MaxLists \in Nat

VARIABLES
  viewportHeight,   (* The height of the view.                               *)
  scrollBar,        (* m_scrollBar: its value and its maximum.               *)
  m_pendingScrollValue,
  updateTimer,      (* m_updateTimer is running.                             *)
  m_scrollValue,    (* What the content widget follows.                      *)
  m_contentHeight,
  dataList,         (* m_dataList: which one it is and its length.           *)
  rows,             (* m_itemPool: the list and the place each row shows.    *)
  overtaken,        (* History: the wheel moved while the timer ran, and the
                       bar has not been followed since.                      *)
  initialised       (* History: m_scrollValue has been set.                  *)

scrollVars == <<viewportHeight, scrollBar, m_pendingScrollValue, updateTimer, m_scrollValue,
                m_contentHeight, dataList, rows, overtaken, initialised>>

Larger(a, b)  == IF a > b THEN a ELSE b
Smaller(a, b) == IF a < b THEN a ELSE b
Ceiling(a, b) == (a + b - 1) \div b

ScrollInit ==
  /\ viewportHeight \in Viewports
  /\ scrollBar = [value |-> 0, max |-> 0]
  /\ m_pendingScrollValue = 0 /\ updateTimer = FALSE
  /\ m_scrollValue \in Garbage /\ m_contentHeight \in Garbage
  /\ dataList = [no |-> 0, size |-> 0]
  /\ rows = << >>
  /\ overtaken = FALSE /\ initialised = FALSE

(* updateVisibleItems: one row more than fit; a row without data for it keeps
   what it showed. *)
Visible(height) == height \div ItemHeight + 1
updateVisibleItems(value, list, height) ==
  LET start == Ceiling(value, ItemHeight)
      pool  == Larger(Len(rows), Visible(height))
  IN rows' = [i \in 1 .. pool |->
                IF i <= Visible(height) /\ start + i <= list.size
                THEN [list |-> list.no, place |-> start + i]
                ELSE IF i <= Len(rows) THEN rows[i] ELSE [list |-> 0, place |-> 0]]

(* setScrollValue of the content widget. *)
setScrollValue(value) ==
  /\ m_scrollValue' = value /\ initialised' = TRUE
  /\ updateVisibleItems(value, dataList, viewportHeight)

(* Wrong variant: a list shorter than the view is not considered. *)
Maximum_Negative(contentHeight, height) == contentHeight - height - ItemHeight

(* Wrong variant: the last item's line is not taken off. *)
Maximum_WholeList(contentHeight, height) == Larger(0, contentHeight - height)

Maximum(contentHeight, height) == Larger(0, contentHeight - height - ItemHeight)

(* The bar's new value is signalled, and followed when the timer fires. *)
valueChanged(value) == m_pendingScrollValue' = value /\ updateTimer' = TRUE

(* setRange: the value is kept inside the range. *)
setRange(max) ==
  LET value == Smaller(scrollBar.value, max) IN
  /\ scrollBar' = [value |-> value, max |-> max]
  /\ IF value # scrollBar.value THEN valueChanged(value)
     ELSE UNCHANGED <<m_pendingScrollValue, updateTimer>>

updateView ==
  /\ dataList.no < MaxLists
  /\ \E size \in Sizes :
       LET list == [no |-> dataList.no + 1, size |-> size] IN
       /\ dataList' = list
       /\ m_contentHeight' = size * ItemHeight
       /\ updateVisibleItems(m_scrollValue, list, viewportHeight)
       /\ setRange(Maximum(size * ItemHeight, viewportHeight))
  /\ UNCHANGED <<viewportHeight, m_scrollValue, overtaken, initialised>>

(* The resize events of the view and of its content. *)
resizeEvent ==
  /\ \E height \in Viewports \ {viewportHeight} :
       /\ viewportHeight' = height
       /\ setRange(Maximum(m_contentHeight, height))
       /\ updateVisibleItems(m_scrollValue, dataList, height)
  /\ UNCHANGED <<m_scrollValue, m_contentHeight, dataList, overtaken, initialised>>

(* The user drags the bar. *)
Drag ==
  /\ \E value \in 0 .. scrollBar.max \ {scrollBar.value} :
       scrollBar' = [scrollBar EXCEPT !.value = value] /\ valueChanged(value)
  /\ UNCHANGED <<viewportHeight, m_scrollValue, m_contentHeight, dataList, rows, overtaken,
                 initialised>>

(* The wheel moves by a line at least, with the bar's signals blocked. *)
wheelEvent ==
  /\ \E delta \in Deltas, up \in BOOLEAN :
       LET step  == Larger(delta, ItemHeight)
           value == IF up THEN Larger(0, scrollBar.value - step)
                          ELSE Smaller(scrollBar.max, scrollBar.value + step)
       IN /\ scrollBar' = [scrollBar EXCEPT !.value = value]
          /\ setScrollValue(value)
  /\ overtaken' = updateTimer
  /\ UNCHANGED <<viewportHeight, m_pendingScrollValue, updateTimer, m_contentHeight, dataList>>

timeout ==
  /\ updateTimer /\ updateTimer' = FALSE
  /\ setScrollValue(m_pendingScrollValue)
  /\ overtaken' = (m_pendingScrollValue # scrollBar.value)
  /\ UNCHANGED <<viewportHeight, scrollBar, m_pendingScrollValue, m_contentHeight, dataList>>

ScrollNext == updateView \/ resizeEvent \/ Drag \/ wheelEvent \/ timeout

-----------------------------------------------------------------------------

ScrollTypeOK ==
  /\ viewportHeight \in Viewports
  /\ scrollBar \in [value : Nat, max : Nat] /\ scrollBar.value <= scrollBar.max
  /\ {m_pendingScrollValue, m_scrollValue, m_contentHeight} \subseteq Nat
  /\ {updateTimer, overtaken, initialised} \subseteq BOOLEAN
  /\ dataList \in [no : 0 .. MaxLists, size : Nat]
  /\ \A i \in 1 .. Len(rows) : rows[i] \in [list : 0 .. MaxLists, place : Nat]

(* Whenever no timer runs, and no wheel has overtaken one, the rows show the
   list's lines from the bar's place on, without a gap, all of them of the
   latest list, and at the end of the bar the last row is the last line: if
   the list fills the view. *)
SettledRowsAreRight ==
  LET n == Visible(viewportHeight) IN
  ~updateTimer /\ ~overtaken /\ initialised /\ dataList.size >= n =>
    /\ \A i \in 1 .. n :
         rows[i] = [list |-> dataList.no, place |-> Ceiling(scrollBar.value, ItemHeight) + i]
    /\ scrollBar.value = scrollBar.max => rows[n].place = dataList.size
=============================================================================
