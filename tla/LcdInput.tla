------------------------------ MODULE LcdInput ------------------------------
(***************************************************************************)
(* An SLCD_INPUT screen of libreciva: a line of text edited with a rotary  *)
(* knob.  The upper line is a circular chooser (characters to insert, then *)
(* DEL, <-, ->, END); the lower line shows the text from inputbolpos on,   *)
(* with the hardware cursor under the character left of inputcursorpos.    *)
(* The chooser's string is a sequence of (UTF-8) characters; the text is a *)
(* sequence of characters, its terminating NUL left out.                   *)
(***************************************************************************)
EXTENDS Integers, Sequences

CONSTANTS
    Width,        \* lcd_width()
    MaxLen,       \* maxlen: bytes of the caller's buffer
    TextBuf,      \* SLCD_TEXTBUF_MAXLEN
    Chars,        \* characters, the Special ones below among them
    Selection,    \* the characters offered by the caller
    Presets       \* contents the caller's buffer may have at lcd_inputcreate

Special == {"DEL1", "DEL2", "DEL3", "LEFT", "RIGHT", "END1", "END2", "END3"}

\* SLCD_USTR_INPUTMENU: "DEL" and "END" take three characters each.
InputMenu == <<"DEL1", "DEL2", "DEL3", "LEFT", "RIGHT", "END1", "END2", "END3">>

selectopts == Selection \o InputMenu
NumOpts == Len(selectopts)

ASSUME WidthAssumption == Width \in Nat \ {0}
ASSUME MaxLenAssumption == MaxLen \in Nat \ {0} /\ TextBuf \in Nat
ASSUME CharsAssumption == Special \subseteq Chars
ASSUME SelectionAssumption == Selection \in Seq(Chars) /\ Presets \subseteq Seq(Chars)
\* The preset is a C string in a buffer of MaxLen bytes.
ASSUME PresetAssumption == \A s \in Presets : Len(s) < MaxLen

VARIABLES
    result,       \* the caller's buffer
    selected,     \* inputselectedopt, as a position in selectopts
    cursor,       \* inputcursorpos
    bol,          \* inputbolpos
    hwcursor,     \* column of the hardware cursor, NoCursor before it is on
    drawn         \* whether lcd_refresh was called since the last control

edit == <<result, selected, cursor, bol>>
inputvars == <<result, selected, cursor, bol, hwcursor, drawn>>

NoCursor == -1
----------------------------------------------------------------------------
\* Positions where the chooser stops: not on the tail of "DEL" and "END".
Stop(p) == selectopts[p] \notin {"END2", "END3", "DEL2", "DEL3"}

\* lcd_getprevcharacterpos and lcd_getnextcharacterpos, applied k times.
Back(p, k) == IF p - k >= 1 THEN p - k ELSE p - k + NumOpts
Forth(p, k) == IF p + k <= NumOpts THEN p + k ELSE p + k - NumOpts

\* A slip: the chooser stops at every character.
ChooseLeftOnce(p) == Back(p, 1)

\* The chooser moves on until it reaches a position where it stops.
ChooseLeft(p) ==
    Back(p, CHOOSE k \in 1 .. NumOpts :
               Stop(Back(p, k)) /\ \A j \in 1 .. k - 1 : ~Stop(Back(p, j)))
ChooseRight(p) ==
    Forth(p, CHOOSE k \in 1 .. NumOpts :
               Stop(Forth(p, k)) /\ \A j \in 1 .. k - 1 : ~Stop(Forth(p, j)))

\* A slip: the character right of the cursor is deleted.
DeleteAfter(s, pos) == [i \in 1 .. Len(s) - 1 |-> IF i > pos THEN s[i + 1] ELSE s[i]]

\* lcd_insertchar: the two loops that move the characters right of pos.
InsertChar(s, pos, ch) == [i \in 1 .. Len(s) + 1 |->
                              IF i > pos + 1 THEN s[i - 1]
                              ELSE IF i = pos + 1 THEN ch ELSE s[i]]
DeleteBefore(s, pos) == [i \in 1 .. Len(s) - 1 |-> IF i >= pos THEN s[i + 1] ELSE s[i]]

\* A slip: no room is kept for the terminating NUL.
FitsWithoutNul(newlen) == newlen < TextBuf /\ newlen <= MaxLen

\* The length check of lcd_insertchar, made for insertion and deletion.
Fits(newlen) == newlen < TextBuf /\ newlen < MaxLen

\* A slip: the window does not follow the cursor to the right.
AdjustBolLeftOnly(c, b) == IF c < b THEN c ELSE b

\* "Adjust the beginning of line": the end of lcd_inputcontrol.
AdjustBol(c, b) == IF c < b THEN c
                   ELSE IF c > b + Width THEN c - Width + 1 ELSE b
----------------------------------------------------------------------------
(***************************************************************************)
(* lcd_inputcreate: the cursor goes behind the preset, the window shows    *)
(* the end of it, and the chooser is turned left once, onto END.           *)
(***************************************************************************)
StartBol(len) == IF len < Width THEN 0 ELSE len - Width + 1

Create(preset) ==
    /\ result' = preset
    /\ cursor' = Len(preset)
    /\ bol' = StartBol(Len(preset))
    /\ selected' = ChooseLeft(1)
    /\ drawn' = FALSE
    /\ UNCHANGED hwcursor

InputInit == /\ result \in Presets
             /\ cursor = Len(result)
             /\ bol = StartBol(Len(result))
             /\ selected = ChooseLeft(1)
             /\ hwcursor = NoCursor
             /\ drawn = FALSE

(***************************************************************************)
(* lcd_inputcontrol with SLCD_LEFT and SLCD_RIGHT.                         *)
(***************************************************************************)
Turn == /\ selected' \in {ChooseLeft(selected), ChooseRight(selected)}
        /\ bol' = AdjustBol(cursor, bol)
        /\ drawn' = FALSE
        /\ UNCHANGED <<result, cursor, hwcursor>>

(***************************************************************************)
(* lcd_inputcontrol with SLCD_ENTER, by what the chooser is on.  On END1   *)
(* it returns at once, with nothing changed.                               *)
(***************************************************************************)
Enter(opt) == selectopts[selected] = opt /\ drawn' = FALSE /\ UNCHANGED <<selected, hwcursor>>

EnterDel ==
    /\ Enter("DEL1")
    /\ IF cursor >= 1 /\ Fits(Len(result) - 1)
       THEN result' = DeleteBefore(result, cursor) /\ cursor' = cursor - 1
       ELSE UNCHANGED <<result, cursor>>
    /\ bol' = AdjustBol(cursor', bol)

\* A slip: the cursor is moved left of the text.
EnterLeftUnguarded ==
    /\ Enter("LEFT")
    /\ cursor' = cursor - 1
    /\ bol' = AdjustBol(cursor', IF cursor' < bol THEN cursor' ELSE bol)
    /\ UNCHANGED result

EnterLeft ==
    /\ Enter("LEFT")
    /\ cursor' = IF cursor > 0 THEN cursor - 1 ELSE cursor
    /\ bol' = AdjustBol(cursor', IF cursor' < bol THEN cursor' ELSE bol)
    /\ UNCHANGED result

EnterRight ==
    /\ Enter("RIGHT")
    /\ cursor' = IF cursor < Len(result) THEN cursor + 1 ELSE cursor
    /\ bol' = AdjustBol(cursor', IF cursor' - bol > Width THEN cursor' - Width ELSE bol)
    /\ UNCHANGED result

EnterEnd == /\ selectopts[selected] = "END1"
            /\ UNCHANGED inputvars

EnterChar ==
    /\ selectopts[selected] \notin Special
    /\ Enter(selectopts[selected])
    /\ IF Fits(Len(result) + 1)
       THEN /\ result' = InsertChar(result, cursor, selectopts[selected])
            /\ cursor' = cursor + 1
       ELSE UNCHANGED <<result, cursor>>
    /\ bol' = AdjustBol(cursor', bol)

\* A slip: the cursor is put under the character right of its position.
InputRefreshRight == /\ hwcursor' = IF cursor - bol \in 0 .. Width - 1
                                    THEN cursor - bol ELSE hwcursor
                     /\ drawn' = TRUE
                     /\ UNCHANGED edit

(***************************************************************************)
(* lcd_refresh of the screen.  lcd_hwcursor refuses a column that is not   *)
(* on the display and then leaves the cursor where it was.                 *)
(***************************************************************************)
InputRefresh == /\ hwcursor' = IF cursor - bol - 1 \in 0 .. Width - 1
                               THEN cursor - bol - 1 ELSE hwcursor
                /\ drawn' = TRUE
                /\ UNCHANGED edit

InputNext == \/ \E preset \in Presets \cup {result} : Create(preset)
             \/ Turn
             \/ EnterDel \/ EnterLeft \/ EnterRight \/ EnterEnd \/ EnterChar
             \/ InputRefresh

InputSpec == InputInit /\ [][InputNext]_inputvars
----------------------------------------------------------------------------
TypeOK == /\ result \in Seq(Chars)
          /\ selected \in 1 .. NumOpts
          /\ cursor \in Nat /\ bol \in Nat
          /\ hwcursor \in -1 .. Width - 1
          /\ drawn \in BOOLEAN

(***************************************************************************)
(* lcd_insertchar never writes past the caller's buffer: the text and its  *)
(* NUL fit MaxLen bytes after any sequence of edits and re-creations.      *)
(***************************************************************************)
FitsBuffer == Len(result) < MaxLen

(***************************************************************************)
(* The window follows the cursor: the cursor is in the text, and the line  *)
(* &result[inputbolpos] that lcd_refresh draws begins in the text, at most *)
(* Width characters left of the cursor.  Four places move bol, each with   *)
(* its own off-by-one.                                                     *)
(***************************************************************************)
WindowOnCursor == /\ cursor <= Len(result)
                  /\ bol <= cursor
                  /\ cursor <= bol + Width

(***************************************************************************)
(* The chooser never rests on the second or third character of DEL or END, *)
(* and turning it back undoes a turn, at the wrap-around too.              *)
(***************************************************************************)
ChooserReversible == /\ Stop(selected)
                     /\ ChooseRight(ChooseLeft(selected)) = selected
                     /\ ChooseLeft(ChooseRight(selected)) = selected

(***************************************************************************)
(* An edit happens at the cursor and nowhere else: what is right of the    *)
(* cursor, and what is left of the leftmost cursor position of the step,   *)
(* is kept, and the cursor moves with the edit.                            *)
(***************************************************************************)
EditAtCursor ==
    LET right(s, c) == SubSeq(s, c + 1, Len(s))
        kept == IF cursor' < cursor THEN cursor' ELSE cursor
    IN right(result', cursor') = right(result, cursor)
       /\ SubSeq(result', 1, kept) = SubSeq(result, 1, kept)
EditsAtCursor == [][EnterDel \/ EnterChar => EditAtCursor]_inputvars

(***************************************************************************)
(* On a drawn screen the hardware cursor is under the character left of    *)
(* the cursor whenever that character is on the display, although          *)
(* lcd_hwcursor ignores columns that are not.                              *)
(***************************************************************************)
CursorUnderCharacter == drawn /\ cursor > bol => hwcursor = cursor - bol - 1
=============================================================================
