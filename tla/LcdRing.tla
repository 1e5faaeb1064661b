------------------------------ MODULE LcdRing ------------------------------
(***************************************************************************)
(* The linked list behind an SLCD_MENU screen of libreciva: the rows of a  *)
(* menu are cells of the heap linked into a circle by next and prev, and   *)
(* the handle points at the first and the last row (top, end), at the row  *)
(* at the top of the screen (tsc) and at the selected row (curl).          *)
(*                                                                         *)
(* Every row is freed at once, by lcd_menuclear, so the k-th row allocated *)
(* since then is cell k and cells 1 .. numrows are the live ones.  A row's *)
(* text is its rank under strcmp; the texts in LongStrs do not fit the     *)
(* display width and scroll.  A failed malloc is not modelled: logf(LG_FTL)*)
(* ends the process there.                                                 *)
(***************************************************************************)
EXTENDS Integers, SequencesExt

CONSTANTS
    Height,       \* lcd_height()
    MaxRows,      \* bound: rows of a menu
    Strs,         \* texts, ordered like strcmp orders them
    LongStrs,     \* the texts longer than lcd_width()
    LongLen       \* bound: characters of a long text

ASSUME RingHeight == Height \in Nat \ {0}
ASSUME RingRows == MaxRows \in Nat
ASSUME RingStrs == Strs \subseteq Int /\ LongStrs \subseteq Strs
ASSUME RingLong == LongLen \in Nat \ {0, 1}

VARIABLES
    next, prev,   \* row->next, row->prev
    str,          \* row->str
    scrollpos,    \* row->scrollpos
    top, end,     \* handle->top, handle->end
    tsc, curl,    \* handle->tsc, handle->curl
    numrows       \* handle->numrows

links == <<next, prev, top, end>>
vars == <<next, prev, str, scrollpos, top, end, tsc, curl, numrows>>

NULL == 0
Cells == 1 .. MaxRows
Live == 1 .. numrows
Blank == [r \in Cells |-> 0]

Min2(a, b) == IF a <= b THEN a ELSE b

\* The row k pointers after r, by the pointers nx or by next.
Follow(nx, r, k) ==
    LET w[i \in 0 .. k] == IF i = 0 THEN r ELSE nx[w[i - 1]] IN w[k]
Walk(r, k) == Follow(next, r, k)

Init == /\ next = Blank /\ prev = Blank /\ str = Blank /\ scrollpos = Blank
        /\ top = NULL /\ end = NULL /\ tsc = NULL /\ curl = NULL
        /\ numrows = 0

(***************************************************************************)
(* lcd_menuclear (and lcd_delete, which begins with it): the handle        *)
(* forgets the rows and they are freed.                                    *)
(***************************************************************************)
MenuClear == /\ next' = Blank /\ prev' = Blank /\ str' = Blank /\ scrollpos' = Blank
             /\ top' = NULL /\ end' = NULL /\ tsc' = NULL /\ curl' = NULL
             /\ numrows' = 0

(***************************************************************************)
(* lcd_menuaddentry.                                                       *)
(***************************************************************************)
MenuAddEntry(s, selected) ==
    LET row == numrows + 1 IN
    /\ numrows < MaxRows
    /\ str' = [str EXCEPT ![row] = s]
    /\ scrollpos' = [scrollpos EXCEPT ![row] = 0]
    /\ IF top = NULL
       THEN /\ next' = [next EXCEPT ![row] = row]
            /\ prev' = [prev EXCEPT ![row] = row]
            /\ top' = row
       ELSE /\ next' = [next EXCEPT ![row] = top, ![end] = row]
            /\ prev' = [prev EXCEPT ![row] = end, ![top] = row]
            /\ top' = top
    /\ end' = row
    /\ IF top = NULL \/ selected THEN tsc' = row /\ curl' = row
                                 ELSE UNCHANGED <<tsc, curl>>
    /\ numrows' = numrows + 1

\* A slip: the row after the exchanged pair keeps its prev pointer.
SortStepOneWay(l) ==
    LET t1 == l.prev[l.p]
        t2 == l.p
        t3 == l.next[l.p]
        t4 == l.next[t3]
    IN IF str[t1] > str[t2]
       THEN [next |-> [[[l.next EXCEPT ![t1] = t3] EXCEPT ![t3] = t2] EXCEPT ![t2] = t4],
             prev |-> [[l.prev EXCEPT ![t2] = t3] EXCEPT ![t3] = t1],
             top |-> IF l.top = t2 THEN t3 ELSE l.top,
             end |-> IF l.end = t3 THEN t2 ELSE l.end,
             p |-> t2]
       ELSE [l EXCEPT !.p = t3]

(***************************************************************************)
(* lcd_menusort.  One turn of the inner loop compares the row p with the   *)
(* one before it and, when they are out of order, exchanges p with the row *)
(* AFTER it, assigning the six pointers one after the other: the rows t1   *)
(* to t4 need not be distinct.                                             *)
(***************************************************************************)
SortStep(l) ==
    LET t1 == l.prev[l.p]
        t2 == l.p
        t3 == l.next[l.p]
        t4 == l.next[t3]
    IN IF str[t1] > str[t2]
       THEN [next |-> [[[l.next EXCEPT ![t1] = t3] EXCEPT ![t3] = t2]
                                                   EXCEPT ![t2] = t4],
             prev |-> [[[l.prev EXCEPT ![t4] = t2] EXCEPT ![t2] = t3]
                                                   EXCEPT ![t3] = t1],
             top |-> IF l.top = t2 THEN t3 ELSE l.top,
             end |-> IF l.end = t3 THEN t2 ELSE l.end,
             p |-> t2]
       ELSE [l EXCEPT !.p = t3]

\* The inner loop for the outer index i, which starts at the first row: the
\* list after each turn, and at last.
SortPass(l, i) ==
    LET turn[j \in 0 .. numrows - 1 - i] ==
            IF j = 0 THEN [l EXCEPT !.p = l.top] ELSE SortStep(turn[j - 1])
    IN  turn[numrows - 1 - i]

\* The outer loop.
Sorted ==
    LET pass[i \in 0 .. numrows - 1] ==
            IF i = 0 THEN [next |-> next, prev |-> prev, top |-> top, end |-> end, p |-> top]
                     ELSE SortPass(pass[i - 1], i - 1)
    IN  pass[numrows - 1]

MenuSort ==
    /\ numrows >= 2
    /\ next' = Sorted.next /\ prev' = Sorted.prev
    /\ top' = Sorted.top /\ end' = Sorted.end
    /\ tsc' = curl
    /\ UNCHANGED <<str, scrollpos, curl, numrows>>

(***************************************************************************)
(* lcd_menucontrol.  The line left behind starts from its first character  *)
(* when it is selected again.                                              *)
(***************************************************************************)
Leave == scrollpos' = [scrollpos EXCEPT ![curl] = 0]

MenuUp ==
    /\ curl # NULL
    /\ Leave
    /\ tsc' = IF numrows > Height /\ curl = tsc THEN prev[tsc] ELSE tsc
    /\ curl' = prev[curl]
    /\ UNCHANGED <<links, str, numrows>>

\* A slip: the row below the window is taken for its last one.
MenuDownLate ==
    /\ curl # NULL
    /\ Leave
    /\ tsc' = IF numrows > Height /\ curl = Walk(tsc, Height)
              THEN next[tsc] ELSE tsc
    /\ curl' = next[curl]
    /\ UNCHANGED <<links, str, numrows>>

MenuDown ==
    /\ curl # NULL
    /\ Leave
    /\ tsc' = IF numrows > Height /\ curl = Walk(tsc, Height - 1)
              THEN next[tsc] ELSE tsc
    /\ curl' = next[curl]
    /\ UNCHANGED <<links, str, numrows>>

(***************************************************************************)
(* lcd_refresh of the menu, which is also what lcd_tick does while the     *)
(* menu is the current screen: of the rows drawn, the selected one goes    *)
(* through lcd_textbuildscrollingline, which moves a long text on by one   *)
(* character.                                                              *)
(***************************************************************************)
DrawnRows == [r \in 1 .. Min2(numrows, Height) |-> Walk(tsc, r - 1)]

NextCharacterPos(r, pos) == IF pos + 1 = LongLen THEN 0 ELSE pos + 1

Refresh ==
    /\ tsc # NULL
    /\ scrollpos' = [scrollpos EXCEPT ![curl] =
           IF str[curl] \in LongStrs
           THEN FoldLeft(LAMBDA pos, r : IF r = curl THEN NextCharacterPos(r, pos) ELSE pos,
                         @, DrawnRows)
           ELSE @]
    /\ UNCHANGED <<links, str, tsc, curl, numrows>>

Next == \/ MenuClear
        \/ \E s \in Strs, selected \in BOOLEAN : MenuAddEntry(s, selected)
        \/ MenuSort
        \/ MenuUp
        \/ MenuDown
        \/ Refresh

Spec == Init /\ [][Next]_vars
----------------------------------------------------------------------------
(***************************************************************************)
(* "the linked list is designed to be circular" (lcd_menuaddentry): from   *)
(* top, next visits every row once and comes back, prev is its inverse,    *)
(* and end is the row before top.                                          *)
(***************************************************************************)
Circular ==
    numrows > 0 =>
        /\ {Walk(top, k) : k \in 0 .. numrows - 1} = Live
        /\ Walk(top, numrows - 1) = end
        /\ next[end] = top
        /\ \A r \in Live : prev[next[r]] = r

\* Two rows, after lcd_menusort exchanged them: next ends at end, prev at top.
OpenPair == /\ numrows = 2 /\ top # end
            /\ {top, end} = Live
            /\ \A r \in Live : next[r] = end /\ prev[r] = top

(***************************************************************************)
(* Sorting re-links rows in place.  The rows stay one circle through every *)
(* sequence of additions and sorts, but for the sort of two rows in order, *)
(* and the next addition makes a circle of those again; no row is lost.    *)
(***************************************************************************)
Linked == Circular \/ OpenPair

(***************************************************************************)
(* lcd.h: "This function sorts the menu into alphabetical order."  After   *)
(* lcd_menusort the rows are a circle and, from the top on, in the order   *)
(* of strcmp.                                                              *)
(***************************************************************************)
InOrder == \A k \in 1 .. numrows - 1 : str[Walk(top, k - 1)] <= str[Walk(top, k)]
MenuSorts == [][MenuSort => Circular' /\ InOrder']_vars
============================================================================
