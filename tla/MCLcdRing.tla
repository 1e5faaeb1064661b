----------------------------- MODULE MCLcdRing -----------------------------
(***************************************************************************)
(* The linked list of LcdRing implements the menu window of LcdMenu.  The  *)
(* history variable of LcdMenu is added here, action by action.            *)
(***************************************************************************)
EXTENDS LcdRing

VARIABLE lateAdds

\* The position LcdMenu gives a row: its distance from top.
Position(r) == IF r = NULL THEN -1
               ELSE CHOOSE k \in 0 .. numrows - 1 : Walk(top, k) = r

MCInit == Init /\ lateAdds = 0

MCNext ==
    \/ (MenuClear \/ MenuSort) /\ lateAdds' = 0
    \/ \E s \in Strs, selected \in BOOLEAN :
          /\ MenuAddEntry(s, selected)
          /\ lateAdds' = IF top = NULL \/ selected THEN 0
                         ELSE IF Position(curl) < Position(tsc) THEN lateAdds + 1
                         ELSE lateAdds
    \/ (MenuUp \/ MenuDown \/ Refresh) /\ UNCHANGED lateAdds

MCSpec == MCInit /\ [][MCNext]_<<vars, lateAdds>>

Menu == INSTANCE LcdMenu WITH tsc <- Position(tsc), curl <- Position(curl), open <- OpenPair

(***************************************************************************)
(* Every step of the linked list is a step of the menu window: the rows    *)
(* lcd_menuaddentry, lcd_menusort and lcd_menucontrol reach by following   *)
(* pointers are the lines LcdMenu computes by counting.                    *)
(***************************************************************************)
ImplementsMenu == Menu!Spec

(***************************************************************************)
(* lcd_refresh draws the selected row: it is one of those that following   *)
(* next from tsc leads to, unless a row was added inside a wrapped window  *)
(* or two rows are no circle (see LcdMenu).                                *)
(***************************************************************************)
SelectionDrawn ==
    numrows > 0 /\ lateAdds = 0 /\ ~OpenPair =>
        \E k \in 1 .. Min2(numrows, Height) : DrawnRows[k] = curl
============================================================================
