------------------------------ MODULE LcdMenu ------------------------------
(***************************************************************************)
(* The scrolling window of an SLCD_MENU screen of libreciva, as its user   *)
(* sees it: numrows lines in a circle, a selected line (handle->curl) and  *)
(* the line shown at the top of the screen (handle->tsc).  A line is named *)
(* by its distance from handle->top, so next and prev are arithmetic; the  *)
(* linked list that realises it is module LcdRing, which implements this   *)
(* specification.                                                          *)
(***************************************************************************)
EXTENDS Integers

CONSTANTS
    Height,     \* lcd_height(): rows of the display
    MaxRows     \* bound: lines a menu may have

VARIABLES
    numrows,    \* handle->numrows
    tsc,        \* position of handle->tsc, NoLine when NULL
    curl,       \* position of handle->curl, NoLine when NULL
    open,       \* whether the circle is open: next and prev stop at its ends
    lateAdds    \* history: lines appended inside the window (see MenuAddEntry)

vars == <<numrows, tsc, curl, open, lateAdds>>

NoLine == -1

Lines == 0 .. numrows - 1

\* row->next and row->prev.
NextLine(p) == IF p < numrows - 1 THEN p + 1 ELSE IF open THEN p ELSE 0
PrevLine(p) == IF p > 0 THEN p - 1 ELSE IF open THEN p ELSE numrows - 1

\* How many next pointers lead from the top of the screen to the line p, when
\* the circle is closed.
RowOf(p) == IF p >= tsc THEN p - tsc ELSE p - tsc + numrows

\* The loop of SLCD_DOWN: the line Height - 1 next pointers below tsc.
BottomLine == IF tsc + Height - 1 < numrows THEN tsc + Height - 1
                                            ELSE tsc + Height - 1 - numrows

Init == /\ numrows = 0
        /\ tsc = NoLine
        /\ curl = NoLine
        /\ open = FALSE
        /\ lateAdds = 0

(***************************************************************************)
(* lcd_menuclear: back to the state of lcd_menucreate.                     *)
(***************************************************************************)
MenuClear == /\ numrows' = 0
             /\ tsc' = NoLine
             /\ curl' = NoLine
             /\ open' = FALSE
             /\ lateAdds' = 0

(***************************************************************************)
(* lcd_menuaddentry: the new line goes between the last and the first and  *)
(* closes the circle.                                                      *)
(* The first line is always selected; a later one is when SLCD_SELECTED    *)
(* is given, and then it is also put at the top of the screen.  lateAdds   *)
(* counts the lines put between the top of the screen and the selected     *)
(* line, which happens when the window has wrapped around.                 *)
(***************************************************************************)
MenuAddEntry(selected) ==
    /\ numrows < MaxRows
    /\ numrows' = numrows + 1
    /\ open' = FALSE
    /\ IF numrows = 0 \/ selected
       THEN /\ tsc' = numrows
            /\ curl' = numrows
            /\ lateAdds' = 0
       ELSE /\ lateAdds' = IF curl < tsc THEN lateAdds + 1 ELSE lateAdds
            /\ UNCHANGED <<tsc, curl>>

(***************************************************************************)
(* lcd_menusort permutes the lines, wherever that puts the selected one,   *)
(* and scrolls it to the top of the screen.  Of two lines it may leave the *)
(* circle open: the exchange of a row with the one after it writes through *)
(* four pointers, which then name two rows only.                           *)
(***************************************************************************)
MenuSort == /\ numrows >= 2
            /\ curl' \in Lines
            /\ tsc' = curl'
            /\ open' \in {open, numrows = 2}
            /\ lateAdds' = 0
            /\ UNCHANGED numrows

(***************************************************************************)
(* lcd_menucontrol, SLCD_UP and SLCD_DOWN.                                 *)
(***************************************************************************)
MenuUp ==
    /\ curl # NoLine
    /\ tsc' = IF numrows > Height /\ curl = tsc THEN PrevLine(tsc) ELSE tsc
    /\ curl' = PrevLine(curl)
    /\ UNCHANGED <<numrows, open, lateAdds>>

MenuDown ==
    /\ curl # NoLine
    /\ tsc' = IF numrows > Height /\ curl = BottomLine THEN NextLine(tsc) ELSE tsc
    /\ curl' = NextLine(curl)
    /\ UNCHANGED <<numrows, open, lateAdds>>

Next == \/ MenuClear
        \/ \E selected \in BOOLEAN : MenuAddEntry(selected)
        \/ MenuSort
        \/ MenuUp
        \/ MenuDown

Spec == Init /\ [][Next]_vars
----------------------------------------------------------------------------
\* The window is either empty or lies on lines the menu has; only a circle of
\* two lines is ever open.
TypeOK == /\ numrows \in 0 .. MaxRows
          /\ lateAdds \in 0 .. numrows
          /\ open \in BOOLEAN /\ (open => numrows = 2)
          /\ IF numrows = 0 THEN tsc = NoLine /\ curl = NoLine
                            ELSE tsc \in Lines /\ curl \in Lines

(***************************************************************************)
(* The selected line is one of the Height lines lcd_refresh draws from tsc *)
(* on, however the menu is built, sorted and walked through: the window is *)
(* kept over the selection although lcd_menucontrol compares the selection *)
(* with its two edges only.  There are two exceptions: a line appended     *)
(* while the window wraps past the end of the list, which pushes the       *)
(* selection down, and an open circle, in which the line before the top of *)
(* the screen is not reached from it.                                      *)
(***************************************************************************)
SelectionVisible == numrows > 0 /\ lateAdds = 0 /\ ~open => RowOf(curl) < Height
============================================================================
