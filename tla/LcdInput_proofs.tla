-------------------------- MODULE LcdInput_proofs ---------------------------
(***************************************************************************)
(* Proofs about the input screen, for every display width, buffer size,    *)
(* chooser and preset.                                                     *)
(***************************************************************************)
EXTENDS LcdInput, WellFoundedInduction, SequenceTheorems, TLAPS

\* Every non-empty set of natural numbers has a least element.
LEMMA LeastNat ==
    ASSUME NEW X, X \subseteq Nat, X # {}
    PROVE  \E m \in X : \A y \in X : m <= y
<1>1. \E m \in X : \A y \in X : ~(<<y, m>> \in OpToRel(<, Nat))
  BY NatLessThanWellFounded, WFMin
<1>2. PICK m \in X : \A y \in X : ~(<<y, m>> \in OpToRel(<, Nat))
  BY <1>1
<1>3. ASSUME NEW y \in X PROVE m <= y
  <2>1. ~(y < m)
    BY <1>2, <1>3 DEF OpToRel
  <2>2. QED
    BY <2>1
<1>4. QED
  BY <1>3

\* The chooser's string: the caller's characters, then DEL, <-, -> and END.
LEMMA Chooser ==
    /\ NumOpts \in Nat /\ NumOpts = Len(Selection) + 8
    /\ selectopts \in Seq(Chars)
    /\ Stop(Len(Selection) + 6)
<1>1. InputMenu \in Seq(Chars)
  <2>1. ASSUME NEW S, NEW a \in S, NEW b \in S, NEW c \in S, NEW d \in S,
               NEW e \in S, NEW f \in S, NEW g \in S, NEW h \in S
        PROVE  <<a, b, c, d, e, f, g, h>> \in Seq(S)
    OBVIOUS
  <2>2. QED
    BY <2>1, CharsAssumption DEF InputMenu, Special
<1>2. Len(InputMenu) = 8 /\ InputMenu[6] = "END1"
  <2>1. Len(InputMenu) = 8
    BY DEF InputMenu
  <2>2. InputMenu[6] = "END1"
    BY DEF InputMenu
  <2>3. QED
    BY <2>1, <2>2
<1>3. Selection \in Seq(Chars) /\ Len(Selection) \in Nat
  BY SelectionAssumption
<1>4. /\ selectopts \in Seq(Chars) /\ Len(selectopts) = Len(Selection) + 8
      /\ selectopts[Len(Selection) + 6] = "END1"
  <2>1. /\ selectopts \in Seq(Chars) /\ Len(selectopts) = Len(Selection) + Len(InputMenu)
        /\ \A i \in 1 .. Len(Selection) + Len(InputMenu) : selectopts[i] =
              IF i <= Len(Selection) THEN Selection[i] ELSE InputMenu[i - Len(Selection)]
    BY <1>1, <1>3, ConcatProperties DEF selectopts
  <2>2. selectopts[Len(Selection) + 6] = InputMenu[6]
    BY <1>2, <1>3, <2>1
  <2>3. QED
    BY <1>2, <2>1, <2>2
<1>5. QED
  BY <1>3, <1>4 DEF NumOpts, Stop

\* The k-th position to the left, or right, of p is the nearest stop.
NearLeft(p, k) == Stop(Back(p, k)) /\ \A j \in 1 .. k - 1 : ~Stop(Back(p, j))
NearRight(p, k) == Stop(Forth(p, k)) /\ \A j \in 1 .. k - 1 : ~Stop(Forth(p, j))

\* A turn of the chooser to the left reaches the nearest stop: there is one.
LEMMA NearestLeft ==
    ASSUME NEW p \in 1 .. NumOpts
    PROVE  \E k \in 1 .. NumOpts : NearLeft(p, k) /\ ChooseLeft(p) = Back(p, k)
<1> DEFINE Stops == {k \in 1 .. NumOpts : Stop(Back(p, k))}
           n == Len(Selection) + 6
           d == IF p > n THEN p - n ELSE p - n + NumOpts
<1>1. n \in 1 .. NumOpts /\ NumOpts \in Nat
  BY Chooser, SelectionAssumption
<1>2. d \in 1 .. NumOpts /\ Back(p, d) = n
  <2>1. CASE p > n
    BY <1>1, <2>1 DEF Back
  <2>2. CASE ~(p > n)
    BY <1>1, <2>2 DEF Back
  <2>3. QED
    BY <2>1, <2>2
<1>3. Stops \subseteq Nat /\ Stops # {}
  <2>1. d \in Stops
    BY <1>2, Chooser
  <2>2. QED
    BY <2>1, <1>1
<1> HIDE DEF d, n
<1>4. PICK m \in Stops : \A y \in Stops : m <= y
  <2> HIDE DEF Stops
  <2>1. QED
    BY <1>3, LeastNat
<1>5. \A j \in 1 .. m - 1 : ~Stop(Back(p, j))
  BY <1>4, <1>1
<1>6. \E k \in 1 .. NumOpts : NearLeft(p, k)
  BY <1>4, <1>5 DEF NearLeft
<1> DEFINE c == CHOOSE k \in 1 .. NumOpts : NearLeft(p, k)
<1>7. c \in 1 .. NumOpts /\ NearLeft(p, c)
  BY <1>6
<1>8. ChooseLeft(p) = Back(p, c)
  BY DEF ChooseLeft, NearLeft
<1> HIDE DEF c
<1>9. QED
  BY <1>7, <1>8

\* The same to the right.
LEMMA NearestRight ==
    ASSUME NEW p \in 1 .. NumOpts
    PROVE  \E k \in 1 .. NumOpts : NearRight(p, k) /\ ChooseRight(p) = Forth(p, k)
<1> DEFINE Stops == {k \in 1 .. NumOpts : Stop(Forth(p, k))}
           n == Len(Selection) + 6
           d == IF n > p THEN n - p ELSE n - p + NumOpts
<1>1. n \in 1 .. NumOpts /\ NumOpts \in Nat
  BY Chooser, SelectionAssumption
<1>2. d \in 1 .. NumOpts /\ Forth(p, d) = n
  BY <1>1 DEF Forth
<1>3. Stops \subseteq Nat /\ Stops # {}
  <2>1. d \in Stops
    BY <1>2, Chooser
  <2>2. QED
    BY <2>1, <1>1
<1> HIDE DEF d, n
<1>4. PICK m \in Stops : \A y \in Stops : m <= y
  <2> HIDE DEF Stops
  <2>1. QED
    BY <1>3, LeastNat
<1>5. \A j \in 1 .. m - 1 : ~Stop(Forth(p, j))
  BY <1>4, <1>1
<1>6. \E k \in 1 .. NumOpts : NearRight(p, k)
  BY <1>4, <1>5 DEF NearRight
<1> DEFINE c == CHOOSE k \in 1 .. NumOpts : NearRight(p, k)
<1>7. c \in 1 .. NumOpts /\ NearRight(p, c)
  BY <1>6
<1>8. ChooseRight(p) = Forth(p, c)
  BY DEF ChooseRight, NearRight
<1> HIDE DEF c
<1>9. QED
  BY <1>7, <1>8

\* One turn of the chooser to the left ends on a position where it stops.
LEMMA TurnLeft ==
    ASSUME NEW p \in 1 .. NumOpts
    PROVE  ChooseLeft(p) \in 1 .. NumOpts /\ Stop(ChooseLeft(p))
<1>1. PICK k \in 1 .. NumOpts : NearLeft(p, k) /\ ChooseLeft(p) = Back(p, k)
  BY NearestLeft
<1>2. Back(p, k) \in 1 .. NumOpts
  BY <1>1, Chooser DEF Back
<1>3. QED
  BY <1>1, <1>2 DEF NearLeft

\* The same to the right.
LEMMA TurnRight ==
    ASSUME NEW p \in 1 .. NumOpts
    PROVE  ChooseRight(p) \in 1 .. NumOpts /\ Stop(ChooseRight(p))
<1>1. PICK k \in 1 .. NumOpts : NearRight(p, k) /\ ChooseRight(p) = Forth(p, k)
  BY NearestRight
<1>2. Forth(p, k) \in 1 .. NumOpts
  BY <1>1, Chooser DEF Forth
<1>3. QED
  BY <1>1, <1>2 DEF NearRight

\* There is only one nearest stop.
LEMMA OneNearest ==
    ASSUME NEW p \in 1 .. NumOpts, NEW k \in 1 .. NumOpts, NEW m \in 1 .. NumOpts
    PROVE  /\ NearLeft(p, k) /\ NearLeft(p, m) => k = m
           /\ NearRight(p, k) /\ NearRight(p, m) => k = m
<1>1. NumOpts \in Nat
  BY Chooser
<1>2. k < m \/ k = m \/ m < k
  BY <1>1
<1>3. k < m => k \in 1 .. m - 1
  BY <1>1
<1>4. m < k => m \in 1 .. k - 1
  BY <1>1
<1>5. QED
  BY <1>2, <1>3, <1>4, Zenon DEF NearLeft, NearRight

\* Turning back undoes a turn that began on a stop, past either end too.
LEMMA TurnBack ==
    ASSUME NEW p \in 1 .. NumOpts, Stop(p)
    PROVE  ChooseRight(ChooseLeft(p)) = p /\ ChooseLeft(ChooseRight(p)) = p
<1>0. NumOpts \in Nat
  BY Chooser
<1>1. ChooseRight(ChooseLeft(p)) = p
  <2>1. PICK k \in 1 .. NumOpts : NearLeft(p, k) /\ ChooseLeft(p) = Back(p, k)
    BY NearestLeft
  <2>2. PICK q \in 1 .. NumOpts : q = Back(p, k)
    BY <1>0 DEF Back
  <2>3. Forth(q, k) = p
    BY <1>0, <2>2 DEF Back, Forth
  <2>4. \A j \in 1 .. k - 1 : k - j \in 1 .. k - 1 /\ Forth(q, j) = Back(p, k - j)
    BY <1>0, <2>2 DEF Back, Forth
  <2>5. NearRight(q, k)
    BY <2>1, <2>3, <2>4 DEF NearLeft, NearRight
  <2>6. PICK m \in 1 .. NumOpts : NearRight(q, m) /\ ChooseRight(q) = Forth(q, m)
    BY NearestRight
  <2>7. m = k
    BY <2>5, <2>6, OneNearest
  <2>8. QED
    BY <2>1, <2>2, <2>3, <2>6, <2>7
<1>2. ChooseLeft(ChooseRight(p)) = p
  <2>1. PICK k \in 1 .. NumOpts : NearRight(p, k) /\ ChooseRight(p) = Forth(p, k)
    BY NearestRight
  <2>2. PICK q \in 1 .. NumOpts : q = Forth(p, k)
    <3>1. Forth(p, k) \in 1 .. NumOpts
      BY <1>0, <2>1 DEF Forth
    <3>2. QED
      BY <3>1
  <2>3. Back(q, k) = p
    BY <1>0, <2>2 DEF Back, Forth
  <2>4. \A j \in 1 .. k - 1 : k - j \in 1 .. k - 1 /\ Back(q, j) = Forth(p, k - j)
    BY <1>0, <2>2 DEF Back, Forth
  <2>5. NearLeft(q, k)
    BY <2>1, <2>3, <2>4 DEF NearLeft, NearRight
  <2>6. PICK m \in 1 .. NumOpts : NearLeft(q, m) /\ ChooseLeft(q) = Back(q, m)
    BY NearestLeft
  <2>7. m = k
    BY <2>5, <2>6, OneNearest
  <2>8. QED
    BY <2>1, <2>2, <2>3, <2>6, <2>7
<1>3. QED
  BY <1>1, <1>2

\* What the two loops of lcd_insertchar do to the length of the text.
LEMMA Inserting ==
    ASSUME NEW S, NEW s \in Seq(S), NEW pos \in 0 .. Len(s), NEW ch \in S
    PROVE  InsertChar(s, pos, ch) \in Seq(S) /\ Len(InsertChar(s, pos, ch)) = Len(s) + 1
<1>1. \A i \in 1 .. Len(s) + 1 :
          (IF i > pos + 1 THEN s[i - 1] ELSE IF i = pos + 1 THEN ch ELSE s[i]) \in S
  OBVIOUS
<1>2. QED
  BY <1>1, LenProperties DEF InsertChar

\* What DEL leaves of a text is a text, one character shorter.
LEMMA Deleting ==
    ASSUME NEW S, NEW s \in Seq(S), NEW pos \in 1 .. Len(s)
    PROVE  DeleteBefore(s, pos) \in Seq(S) /\ Len(DeleteBefore(s, pos)) = Len(s) - 1
<1>1. \A i \in 1 .. Len(s) - 1 : (IF i >= pos THEN s[i + 1] ELSE s[i]) \in S
  OBVIOUS
<1>2. QED
  BY <1>1, LenProperties DEF DeleteBefore

(***************************************************************************)
(* The inductive invariant: the types, the chooser's stop, the buffer and  *)
(* the window.  The window needs the types, the buffer needs the cursor to *)
(* be inside the text, and the text's type needs the chooser to be on one  *)
(* of its characters.                                                      *)
(***************************************************************************)
Inv == /\ result \in Seq(Chars)
       /\ selected \in 1 .. NumOpts
       /\ Stop(selected)
       /\ cursor \in Nat /\ bol \in Nat
       /\ hwcursor \in -1 .. Width - 1
       /\ FitsBuffer
       /\ WindowOnCursor

\* An input screen starts with its preset.
LEMMA InitInv == InputInit => Inv
<1> SUFFICES ASSUME InputInit PROVE Inv
  OBVIOUS
<1>1. result \in Seq(Chars) /\ Len(result) \in Nat /\ Len(result) < MaxLen
  BY SelectionAssumption, PresetAssumption DEF InputInit
<1>2. selected \in 1 .. NumOpts /\ Stop(selected)
  <2>1. 1 \in 1 .. NumOpts
    BY Chooser, SelectionAssumption
  <2>2. QED
    BY <2>1, TurnLeft DEF InputInit
<1>3. QED
  BY <1>1, <1>2, WidthAssumption
  DEF InputInit, Inv, FitsBuffer, WindowOnCursor, StartBol, NoCursor

\* Every turn and every press keeps the invariant.
LEMMA NextInv == Inv /\ [InputNext]_inputvars => Inv'
<1> SUFFICES ASSUME Inv, [InputNext]_inputvars PROVE Inv'
  OBVIOUS
<1> USE WidthAssumption, MaxLenAssumption
<1>0. Len(result) \in Nat
  BY DEF Inv
<1>1. ASSUME NEW preset \in Presets \cup {result}, Create(preset) PROVE Inv'
  <2>1. preset \in Seq(Chars) /\ Len(preset) \in Nat /\ Len(preset) < MaxLen
    BY SelectionAssumption, PresetAssumption DEF Inv, FitsBuffer
  <2>2. selected' \in 1 .. NumOpts /\ Stop(selected')
    <3>1. 1 \in 1 .. NumOpts
      BY Chooser, SelectionAssumption
    <3>2. QED
      BY <1>1, <3>1, TurnLeft DEF Create
  <2>3. QED
    BY <1>1, <2>1, <2>2 DEF Create, Inv, FitsBuffer, WindowOnCursor, StartBol, Stop
<1>2. CASE Turn
  <2>1. selected' \in 1 .. NumOpts /\ Stop(selected')
    BY <1>2, TurnLeft, TurnRight DEF Turn, Inv
  <2>2. QED
    BY <1>0, <1>2, <2>1 DEF Turn, Inv, FitsBuffer, WindowOnCursor, AdjustBol, Stop
<1>3. CASE EnterDel
  <2>1. CASE cursor >= 1 /\ Fits(Len(result) - 1)
    <3>1. cursor \in 1 .. Len(result)
      BY <1>0, <2>1 DEF Inv, WindowOnCursor
    <3>2. result' \in Seq(Chars) /\ Len(result') = Len(result) - 1 /\ cursor' = cursor - 1
      BY <1>3, <2>1, <3>1, Deleting DEF EnterDel, Inv
    <3>3. bol' = AdjustBol(cursor', bol) /\ selected' = selected /\ hwcursor' = hwcursor
      BY <1>3 DEF EnterDel, Enter
    <3>4. QED
      BY <1>0, <3>1, <3>2, <3>3 DEF Inv, FitsBuffer, WindowOnCursor, AdjustBol, Stop
  <2>2. CASE ~(cursor >= 1 /\ Fits(Len(result) - 1))
    BY <1>0, <1>3, <2>2
    DEF EnterDel, Enter, Inv, FitsBuffer, WindowOnCursor, AdjustBol, Stop
  <2>3. QED
    BY <2>1, <2>2
<1>4. CASE EnterLeft
  BY <1>0, <1>4 DEF EnterLeft, Enter, Inv, FitsBuffer, WindowOnCursor, AdjustBol, Stop
<1>5. CASE EnterRight
  BY <1>0, <1>5 DEF EnterRight, Enter, Inv, FitsBuffer, WindowOnCursor, AdjustBol, Stop
<1>6. CASE EnterEnd
  BY <1>6 DEF EnterEnd, inputvars, Inv, FitsBuffer, WindowOnCursor, Stop
<1>7. CASE EnterChar
  <2>1. CASE Fits(Len(result) + 1)
    <3>1. cursor \in 0 .. Len(result) /\ Len(result) + 1 < MaxLen
      BY <1>0, <2>1 DEF Inv, WindowOnCursor, Fits
    <3>2. selectopts[selected] \in Chars
      BY Chooser DEF Inv, NumOpts
    <3>3. result' \in Seq(Chars) /\ Len(result') = Len(result) + 1 /\ cursor' = cursor + 1
      BY <1>7, <2>1, <3>1, <3>2, Inserting DEF EnterChar, Inv
    <3>4. bol' = AdjustBol(cursor', bol) /\ selected' = selected /\ hwcursor' = hwcursor
      BY <1>7 DEF EnterChar, Enter
    <3>5. QED
      BY <1>0, <3>1, <3>3, <3>4 DEF Inv, FitsBuffer, WindowOnCursor, AdjustBol, Stop
  <2>2. CASE ~Fits(Len(result) + 1)
    BY <1>0, <1>7, <2>2
    DEF EnterChar, Enter, Inv, FitsBuffer, WindowOnCursor, AdjustBol, Stop
  <2>3. QED
    BY <2>1, <2>2
<1>8. CASE InputRefresh
  BY <1>8 DEF InputRefresh, edit, Inv, FitsBuffer, WindowOnCursor, Stop
<1>9. CASE UNCHANGED inputvars
  BY <1>9 DEF inputvars, Inv, FitsBuffer, WindowOnCursor, Stop
<1>10. QED
  BY <1>1, <1>2, <1>3, <1>4, <1>5, <1>6, <1>7, <1>8, <1>9 DEF InputNext

\* The invariant always holds.
LEMMA Invariance == InputSpec => []Inv
  BY InitInv, NextInv, PTL DEF InputSpec

(***************************************************************************)
(* lcd_insertchar never overruns the caller's buffer, for every maxlen.    *)
(***************************************************************************)
THEOREM BufferNeverOverrun == InputSpec => []FitsBuffer
<1>1. Inv => FitsBuffer
  BY DEF Inv
<1>2. QED
  BY <1>1, Invariance, PTL

(***************************************************************************)
(* The drawn window always contains the cursor, for every display width.   *)
(***************************************************************************)
THEOREM WindowFollowsCursor == InputSpec => []WindowOnCursor
<1>1. Inv => WindowOnCursor
  BY DEF Inv
<1>2. QED
  BY <1>1, Invariance, PTL

(***************************************************************************)
(* Type correctness; it holds only together with the rest of Inv.          *)
(***************************************************************************)
THEOREM TypeCorrect == InputSpec => []TypeOK
<1>1. InputInit => drawn \in BOOLEAN
  BY DEF InputInit
<1>2. drawn \in BOOLEAN /\ [InputNext]_inputvars => (drawn \in BOOLEAN)'
  BY Zenon DEF InputNext, inputvars, Create, Turn, EnterDel, EnterLeft, EnterRight, EnterEnd,
     EnterChar, Enter, InputRefresh
<1>3. InputSpec => [](drawn \in BOOLEAN)
  BY <1>1, <1>2, PTL DEF InputSpec
<1>4. Inv /\ drawn \in BOOLEAN => TypeOK
  BY DEF Inv, TypeOK
<1>5. QED
  BY <1>3, <1>4, Invariance, PTL

(***************************************************************************)
(* For every caller's choice of characters: the chooser rests only where   *)
(* it may stop, and a turn back undoes a turn.                             *)
(***************************************************************************)
THEOREM ChooserTurnsBack == InputSpec => []ChooserReversible
<1>1. Inv => ChooserReversible
  BY TurnBack DEF Inv, ChooserReversible
<1>2. QED
  BY <1>1, Invariance, PTL

(***************************************************************************)
(* For every display width: after lcd_refresh the hardware cursor is under *)
(* the character left of the cursor, since a cursor behind the beginning   *)
(* of the line is never a column that lcd_hwcursor refuses.                *)
(***************************************************************************)
THEOREM CursorIsUnderCharacter == InputSpec => []CursorUnderCharacter
<1>1. InputInit => CursorUnderCharacter
  BY DEF InputInit, CursorUnderCharacter
<1>2. Inv /\ CursorUnderCharacter /\ [InputNext]_inputvars => CursorUnderCharacter'
  <2> SUFFICES ASSUME Inv, CursorUnderCharacter, [InputNext]_inputvars PROVE CursorUnderCharacter'
    OBVIOUS
  <2>1. CASE InputRefresh
    <3>1. /\ cursor \in Nat /\ bol \in Nat /\ cursor <= bol + Width /\ Width \in Nat
          /\ cursor' = cursor /\ bol' = bol
          /\ hwcursor' = IF cursor - bol - 1 \in 0 .. Width - 1
                         THEN cursor - bol - 1 ELSE hwcursor
      BY <2>1, WidthAssumption DEF InputRefresh, edit, Inv, WindowOnCursor
    <3>2. cursor > bol => hwcursor' = cursor - bol - 1
      <4>1. cursor > bol => cursor - bol - 1 \in 0 .. Width - 1
        BY <3>1
      <4>2. QED
        BY <3>1, <4>1, Zenon
    <3>3. QED
      BY <3>1, <3>2 DEF CursorUnderCharacter
  <2>2. CASE drawn' = FALSE
    BY <2>2 DEF CursorUnderCharacter
  <2>3. CASE EnterEnd \/ UNCHANGED inputvars
    BY <2>3 DEF EnterEnd, inputvars, CursorUnderCharacter
  <2>4. QED
    BY <2>1, <2>2, <2>3
    DEF InputNext, Create, Turn, EnterDel, EnterLeft, EnterRight, EnterChar, Enter
<1>3. QED
  BY <1>1, <1>2, Invariance, PTL DEF InputSpec

\* Texts that agree from two positions on have the same rest.
LEMMA SameRest ==
    ASSUME NEW S, NEW s \in Seq(S), NEW t \in Seq(S),
           NEW a \in 0 .. Len(s), NEW b \in 0 .. Len(t), Len(s) - a = Len(t) - b,
           \A i \in 1 .. Len(s) - a : s[a + i] = t[b + i]
    PROVE  SubSeq(s, a + 1, Len(s)) = SubSeq(t, b + 1, Len(t))
<1> DEFINE u == SubSeq(s, a + 1, Len(s))
           v == SubSeq(t, b + 1, Len(t))
<1>1. /\ Len(s) \in Nat /\ Len(t) \in Nat
      /\ \A i \in a + 1 .. Len(s) : s[i] \in S
      /\ \A i \in b + 1 .. Len(t) : t[i] \in S
  OBVIOUS
<1>2. u \in Seq(S) /\ Len(u) = Len(s) - a /\ \A i \in 1 .. Len(s) - a : u[i] = s[a + i]
  BY <1>1, SubSeqProperties
<1>3. v \in Seq(S) /\ Len(v) = Len(t) - b /\ \A i \in 1 .. Len(t) - b : v[i] = t[b + i]
  BY <1>1, SubSeqProperties
<1>4. \A i \in 1 .. Len(u) : u[i] = v[i]
  BY <1>2, <1>3
<1> HIDE DEF u, v
<1>5. u = v
  BY <1>2, <1>3, <1>4, SeqEqual
<1>6. QED
  BY <1>5 DEF u, v

\* Texts that agree up to a position have the same beginning.
LEMMA SameBeginning ==
    ASSUME NEW S, NEW s \in Seq(S), NEW t \in Seq(S),
           NEW n \in 0 .. Len(s), n <= Len(t), \A i \in 1 .. n : s[i] = t[i]
    PROVE  SubSeq(s, 1, n) = SubSeq(t, 1, n)
<1> DEFINE u == SubSeq(s, 1, n)
           v == SubSeq(t, 1, n)
<1>1. /\ n \in Nat
      /\ \A i \in 1 .. n : s[i] \in S
      /\ \A i \in 1 .. n : t[i] \in S
  OBVIOUS
<1>2. u \in Seq(S) /\ Len(u) = n /\ \A i \in 1 .. n : u[i] = s[i]
  BY <1>1, SubSeqProperties
<1>3. v \in Seq(S) /\ Len(v) = n /\ \A i \in 1 .. n : v[i] = t[i]
  BY <1>1, SubSeqProperties
<1> HIDE DEF u, v
<1>4. u = v
  BY <1>2, <1>3, SeqEqual
<1>5. QED
  BY <1>4 DEF u, v

(***************************************************************************)
(* For every text, buffer and cursor: an insertion or a deletion keeps     *)
(* what is right of the cursor and what is left of the edit.               *)
(***************************************************************************)
LEMMA EditStep == ASSUME Inv, EnterDel \/ EnterChar PROVE EditAtCursor
<1>0. result \in Seq(Chars) /\ Len(result) \in Nat /\ cursor \in 0 .. Len(result)
  BY DEF Inv, WindowOnCursor
<1>1. CASE result' = result /\ cursor' = cursor
  BY <1>1 DEF EditAtCursor
<1>2. ASSUME EnterChar, result' = InsertChar(result, cursor, selectopts[selected]),
             cursor' = cursor + 1
      PROVE  EditAtCursor
  <2>1. selectopts[selected] \in Chars
    BY Chooser DEF Inv, NumOpts
  <2>2. PICK t \in Seq(Chars) : t = result' /\ Len(t) = Len(result) + 1
    BY <1>0, <1>2, <2>1, Inserting
  <2>3. \A i \in 1 .. Len(result) - cursor : result[cursor + i] = t[(cursor + 1) + i]
    BY <1>0, <1>2, <2>2 DEF InsertChar
  <2>4. \A i \in 1 .. cursor : result[i] = t[i]
    BY <1>0, <1>2, <2>2 DEF InsertChar
  <2>5. SubSeq(result, cursor + 1, Len(result)) = SubSeq(t, (cursor + 1) + 1, Len(t))
    <3>1. cursor + 1 \in 0 .. Len(t) /\ Len(result) - cursor = Len(t) - (cursor + 1)
      BY <1>0, <2>2
    <3>2. QED
      BY <1>0, <2>2, <2>3, <3>1, SameRest
  <2>6. SubSeq(result, 1, cursor) = SubSeq(t, 1, cursor)
    BY <1>0, <2>2, <2>4, SameBeginning
  <2>7. ~(cursor + 1 < cursor)
    BY <1>0
  <2>8. QED
    BY <1>2, <2>2, <2>5, <2>6, <2>7, Zenon DEF EditAtCursor
<1>3. ASSUME EnterDel, cursor >= 1, result' = DeleteBefore(result, cursor),
             cursor' = cursor - 1
      PROVE  EditAtCursor
  <2>1. cursor \in 1 .. Len(result)
    BY <1>0, <1>3
  <2>2. PICK t \in Seq(Chars) : t = result' /\ Len(t) = Len(result) - 1
    BY <1>0, <1>3, <2>1, Deleting
  <2>3. \A i \in 1 .. Len(result) - cursor : result[cursor + i] = t[(cursor - 1) + i]
    BY <1>0, <1>3, <2>1, <2>2 DEF DeleteBefore
  <2>4. \A i \in 1 .. cursor - 1 : result[i] = t[i]
    BY <1>0, <1>3, <2>1, <2>2 DEF DeleteBefore
  <2>5. SubSeq(result, cursor + 1, Len(result)) = SubSeq(t, (cursor - 1) + 1, Len(t))
    <3>1. cursor - 1 \in 0 .. Len(t) /\ Len(result) - cursor = Len(t) - (cursor - 1)
      BY <1>0, <2>1, <2>2
    <3>2. QED
      BY <1>0, <2>2, <2>3, <3>1, SameRest
  <2>6. SubSeq(result, 1, cursor - 1) = SubSeq(t, 1, cursor - 1)
    <3>1. cursor - 1 \in 0 .. Len(result) /\ cursor - 1 <= Len(t)
      BY <1>0, <2>1, <2>2
    <3>2. QED
      BY <1>0, <2>2, <2>4, <3>1, SameBeginning
  <2>7. cursor - 1 < cursor
    BY <1>0
  <2>8. QED
    BY <1>3, <2>2, <2>5, <2>6, <2>7, Zenon DEF EditAtCursor
<1>4. QED
  BY <1>1, <1>2, <1>3 DEF EnterDel, EnterChar

(***************************************************************************)
(* Every edit of every behaviour happens at the cursor and nowhere else.   *)
(***************************************************************************)
THEOREM EditsStayAtCursor == InputSpec => EditsAtCursor
<1>1. Inv /\ [InputNext]_inputvars => [EnterDel \/ EnterChar => EditAtCursor]_inputvars
  BY EditStep
<1>2. QED
  BY <1>1, Invariance, PTL DEF InputSpec, EditsAtCursor
=============================================================================
