--------------------------- MODULE LcdMenu_proofs ---------------------------
(***************************************************************************)
(* Proofs about the menu window, for every display height and every number *)
(* of lines.                                                               *)
(***************************************************************************)
EXTENDS LcdMenu, TLAPS

(***************************************************************************)
(* Type correctness: no sequence of clear, add, sort, UP and DOWN leaves   *)
(* handle->tsc or handle->curl on a line the menu does not have.           *)
(***************************************************************************)
THEOREM TypeCorrect ==
    ASSUME MaxRows \in Nat
    PROVE  Spec => []TypeOK
<1>1. Init => TypeOK
  <2>1. Init => open \in BOOLEAN /\ (open => numrows = 2)
    BY DEF Init
  <2>2. QED
    BY <2>1 DEF Init, TypeOK, NoLine
<1>2. TypeOK /\ [Next]_vars => TypeOK'
  <2> SUFFICES ASSUME TypeOK, [Next]_vars
               PROVE  TypeOK'
    OBVIOUS
  <2> USE DEF TypeOK, Lines, NoLine
  <2>1. CASE MenuClear
    <3>1. open' \in BOOLEAN /\ (open' => numrows' = 2)
      BY <2>1 DEF MenuClear
    <3>2. QED
      BY <2>1, <3>1 DEF MenuClear
  <2>2. ASSUME NEW selected \in BOOLEAN, MenuAddEntry(selected)
        PROVE  TypeOK'
    <3>1. open' \in BOOLEAN /\ (open' => numrows' = 2)
      BY <2>2 DEF MenuAddEntry
    <3>2. QED
      BY <2>2, <3>1 DEF MenuAddEntry
  <2>3. CASE MenuSort
    <3>1. open' \in BOOLEAN /\ (open' => numrows' = 2)
      BY <2>3 DEF MenuSort
    <3>2. QED
      BY <2>3, <3>1 DEF MenuSort
  <2>4. CASE MenuUp
    BY <2>4 DEF MenuUp, PrevLine
  <2>5. CASE MenuDown
    BY <2>5 DEF MenuDown, NextLine
  <2>6. CASE UNCHANGED vars
    BY <2>6 DEF vars
  <2>7. QED
    BY <2>1, <2>2, <2>3, <2>4, <2>5, <2>6 DEF Next
<1>3. QED
  BY <1>1, <1>2, PTL DEF Spec

(***************************************************************************)
(* The inductive invariant: the selected line is counted among the Height  *)
(* lines from tsc on, in an open circle too.  UP and DOWN change           *)
(* RowOf(curl) by one and scroll exactly at the edges of the window.       *)
(***************************************************************************)
Counted == numrows > 0 /\ lateAdds = 0 => RowOf(curl) < Height

(***************************************************************************)
(* The selected line is always drawn (SelectionVisible) by lcd_refresh,    *)
(* unless a line was appended inside a wrapped window or the circle is     *)
(* open.                                                                   *)
(***************************************************************************)
THEOREM SelectionStaysVisible ==
    ASSUME Height \in Nat \ {0}, MaxRows \in Nat
    PROVE  Spec => []SelectionVisible
<1>1. Init => Counted
  BY DEF Init, Counted
<1>2. TypeOK /\ Counted /\ [Next]_vars => Counted'
  <2> SUFFICES ASSUME TypeOK, Counted, [Next]_vars
               PROVE  Counted'
    OBVIOUS
  <2> USE DEF TypeOK, Counted, RowOf, Lines, NoLine
  <2>1. CASE MenuClear
    BY <2>1 DEF MenuClear
  <2>2. ASSUME NEW selected \in BOOLEAN, MenuAddEntry(selected)
        PROVE  Counted'
    BY <2>2 DEF MenuAddEntry
  <2>3. CASE MenuSort
    <3>1. PICK p \in Lines : curl' = p /\ tsc' = p /\ numrows' = numrows
      BY <2>3 DEF MenuSort
    <3>2. p \in Int /\ p - p = 0 /\ p >= p
      BY <3>1
    <3>3. QED
      BY <3>1, <3>2
  <2>4. CASE MenuUp
    BY <2>4 DEF MenuUp, PrevLine
  <2>5. CASE MenuDown
    <3> SUFFICES ASSUME numrows > 0, lateAdds = 0
                 PROVE  RowOf(curl)' < Height
      BY <2>5 DEF MenuDown
    <3>1. /\ numrows' = numrows /\ numrows \in Nat
          /\ tsc \in 0 .. numrows - 1 /\ curl \in 0 .. numrows - 1
          /\ RowOf(curl) < Height /\ RowOf(curl) < numrows
          /\ curl' = NextLine(curl)
      BY <2>5 DEF MenuDown
    <3>2. CASE numrows > Height /\ curl = BottomLine
      <4>1. tsc' = NextLine(tsc)
        BY <2>5, <3>2 DEF MenuDown
      <4>2. QED
        BY <3>1, <3>2, <4>1 DEF NextLine, BottomLine
    <3>3. CASE ~(numrows > Height /\ curl = BottomLine)
      <4>1. tsc' = tsc
        BY <2>5, <3>3 DEF MenuDown
      <4>2. numrows <= Height \/ RowOf(curl) < Height - 1
        BY <3>1, <3>3 DEF BottomLine
      <4>3. QED
        BY <3>1, <4>1, <4>2 DEF NextLine
    <3>4. QED
      BY <3>2, <3>3
  <2>6. CASE UNCHANGED vars
    BY <2>6 DEF vars
  <2>7. QED
    BY <2>1, <2>2, <2>3, <2>4, <2>5, <2>6 DEF Next
<1>3. Counted => SelectionVisible
  BY DEF Counted, SelectionVisible
<1>4. QED
  BY <1>1, <1>2, <1>3, TypeCorrect, PTL DEF Spec
============================================================================
