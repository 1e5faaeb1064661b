------------------------- MODULE LcdScreens_proofs -------------------------
(***************************************************************************)
(* What the LCD shows, for any number of screens and hours of any length.  *)
(* Screens are deleted at any time, the registered one too: lcd_tick then  *)
(* does what the freed memory has it do, until another screen is drawn.    *)
(***************************************************************************)
EXTENDS LcdScreens, TLAPS

\* What the remainder is, within one modulus of the interval it maps to.
LEMMA Modulo ==
    ASSUME NEW m \in Nat \ {0}, NEW a \in Int
    PROVE  /\ 0 <= a /\ a < m => a % m = a
           /\ -m <= a /\ a < 0 => a % m = a + m
           /\ m <= a /\ a < 2 * m => a % m = a - m
  <1>1. 0 <= a /\ a < m => a % m = a
    OBVIOUS
  <1>2. -m <= a /\ a < 0 => a % m = a + m
    OBVIOUS
  <1>3. m <= a /\ a < 2 * m => a % m = a - m
    OBVIOUS
  <1> QED BY <1>1, <1>2, <1>3

Minutes == 0 .. 2 * Hour - 1

\* How late a clock that shows t is, and the minute of the hour, a minute on.
LEMMA MinutePasses ==
    ASSUME NEW n \in Minutes, NEW t \in Minutes, NEW n1, n1 = (n + 1) % (2 * Hour)
    PROVE  /\ n1 \in Minutes
           /\ (n - n) % (2 * Hour) = 0
           /\ (n - t) % (2 * Hour) = 0 => (n1 - t) % (2 * Hour) = 1
           /\ (n - t) % (2 * Hour) = 1 => (n1 - t) % (2 * Hour) = 2
           /\ n1 % Hour # n % Hour
  <1>0. Hour \in Nat /\ Hour > 1 /\ Hour \in Nat \ {0}
    BY HourAssumption
  <1>1. PICK m \in Nat \ {0} : m = 2 * Hour
    BY <1>0
  <1>2. n \in 0 .. m - 1 /\ t \in 0 .. m - 1 /\ m >= 4
    BY <1>0, <1>1 DEF Minutes
  <1>3. n1 = IF n + 1 = m THEN 0 ELSE n + 1
    <2>1. n + 1 \in Int /\ 0 <= n + 1 /\ (n + 1 < m \/ n + 1 = m)
      BY <1>2
    <2>2. n + 1 < m => (n + 1) % m = n + 1
      BY <1>1, <2>1, Modulo
    <2>3. n + 1 = m => (n + 1) % m = 0
      <3>1. m \in Int /\ m <= m /\ m < 2 * m /\ m - m = 0
        BY <1>1, <1>2
      <3>2. m % m = m - m
        BY <1>1, <3>1, Modulo
      <3> QED BY <3>1, <3>2
    <2> QED BY <1>1, <1>2, <2>1, <2>2, <2>3
  <1>4. n1 \in 0 .. m - 1
    BY <1>2, <1>3
  <1>5. ASSUME NEW x \in 0 .. m - 1
        PROVE  (x - t) % m = IF t <= x THEN x - t ELSE x - t + m
    <2>1. x - t \in Int /\ x - t < m /\ -m <= x - t
      BY <1>2
    <2>2. CASE t <= x
      BY <1>1, <1>2, <2>1, <2>2, Modulo
    <2>3. CASE ~(t <= x)
      BY <1>1, <1>2, <2>1, <2>3, Modulo
    <2> QED BY <2>2, <2>3
  <1>6. (n - n) % m = 0
    <2>1. n - n = 0 /\ 0 \in Int
      BY <1>2
    <2>2. 0 % m = 0
      BY <1>1, <2>1, Modulo
    <2> QED BY <2>1, <2>2
  <1>7. (n - t) % m = 0 => (n1 - t) % m = 1
    BY <1>1, <1>2, <1>3, <1>4, <1>5
  <1>8. (n - t) % m = 1 => (n1 - t) % m = 2
    BY <1>1, <1>2, <1>3, <1>4, <1>5
  <1>9. n1 % Hour # n % Hour
    <2>1. ASSUME NEW x \in 0 .. m - 1
          PROVE  x % Hour = IF x < Hour THEN x ELSE x - Hour
      <3>1. x \in Int /\ 0 <= x /\ x < 2 * Hour
        BY <1>1
      <3>2. CASE x < Hour
        BY <1>0, <3>1, <3>2, Modulo
      <3>3. CASE ~(x < Hour)
        BY <1>0, <3>1, <3>3, Modulo
      <3> QED BY <3>2, <3>3
    <2> QED BY <1>0, <1>1, <1>2, <1>3, <1>4, <2>1
  <1> QED BY <1>1, <1>4, <1>6, <1>7, <1>8, <1>9 DEF Minutes
----------------------------------------------------------------------------
Types == /\ kind \in [Handles -> Kinds \cup {"FREED"}]
         /\ empty \in [Handles -> BOOLEAN]
         /\ text \in [Handles -> [Rows -> 0 .. TimeText]]
         /\ current \in Handles \cup {NoScreen}
         /\ now \in Minutes
         /\ since \in {"drawn", "edited", "cleared", "deleted"}

\* Only a menu can be without lines: lcd_refresh always shows a clock.
ClocksHaveLines == \A h \in Handles : kind[h] = "CLOCK" => ~empty[h]

\* The registered screen exists as long as it was not deleted.
Held == since # "deleted" => TickSafe

ClockOn == current # NoScreen /\ since # "deleted" /\ kind[current] = "CLOCK" /\ ~driverclock

(***************************************************************************)
(* How late the clock on the LCD can be.  The static lastmins may hold, by *)
(* chance, the minute that has just begun, and lcd_tick then skips it; but *)
(* then it holds the present minute and differs from the next one, so that *)
(* two minutes are never skipped in a row.                                 *)
(***************************************************************************)
ClockLate ==
    ClockOn => /\ lcd["upper"].time \in Minutes
               /\ \/ Late = 0
                  \/ Late = 1 /\ (ticked => lastmins = Mins)
                  \/ Late = 2 /\ ~ticked /\ lastmins # Mins

OnDisplay == Held /\ ShowsCurrent /\ ClockLate
Inv == Types /\ ClocksHaveLines /\ OnDisplay

\* No screen is made and none is on display at first.
LEMMA InitInv == ScreensInit => Inv
  <1> SUFFICES ASSUME ScreensInit PROVE Inv
    OBVIOUS
  <1>1. 0 \in Minutes
    BY HourAssumption DEF Minutes
  <1>2. Types
    BY <1>1 DEF ScreensInit, Types, TimeText
  <1>3. ClocksHaveLines /\ Held /\ ShowsCurrent /\ ClockLate
    BY DEF ScreensInit, Held, TickSafe, ClocksHaveLines, ClockLate, ClockOn, ShowsCurrent
  <1> QED BY <1>2, <1>3 DEF Inv, OnDisplay

\* What the history keeps of one more event.
LEMMA HappensType ==
    ASSUME Types, NEW what \in {"edited", "cleared", "deleted"}, Happens(what)
    PROVE  /\ since' \in {"edited", "cleared", "deleted"}
           /\ what = "cleared" => since' \in {"cleared", "deleted"}
           /\ what = "deleted" => since' = "deleted"
           /\ since = "deleted" => since' = "deleted"
           /\ since = "cleared" => since' # "edited"
  BY DEF Happens, Types

\* A step that leaves the LCD and the kind of the registered screen alone, and
\* its text too unless the history records that.
LEMMA Unseen ==
    ASSUME Types, OnDisplay,
           UNCHANGED <<current, lastmins, lcd, now, ticked, driverclock>>,
           current # NoScreen /\ since' # "deleted" =>
              /\ since # "deleted" /\ kind'[current] = kind[current]
              /\ since = "cleared" => since' # "edited"
              /\ since' = "drawn" => since = "drawn" /\ text'[current] = text[current],
           since' \in {"drawn", "edited", "cleared", "deleted"}
    PROVE  OnDisplay'
  <1>1. Held'
    BY DEF OnDisplay, Held, TickSafe, Alive
  <1>2. ShowsCurrent'
    <2> SUFFICES ASSUME current # NoScreen, since' \in {"drawn", "edited"},
                        NEW r \in WrittenRows(current)
                 PROVE  /\ lcd[r].of = current
                        /\ since' = "drawn" => lcd[r].text = text'[current][r]
      BY DEF ShowsCurrent, WrittenRows
    <2>1. since \in {"drawn", "edited"}
      BY DEF Types
    <2> QED BY <2>1 DEF OnDisplay, ShowsCurrent
  <1>3. ClockLate'
    BY DEF OnDisplay, ClockLate, ClockOn, Late, Mins
  <1> QED BY <1>1, <1>2, <1>3 DEF OnDisplay

\* lcd_refresh of a screen that has lines puts the rows it writes on the LCD.
LEMMA Shown ==
    ASSUME NEW h \in Handles, kind[h] # "FREED", Types,
           Show(h), UNCHANGED <<kind, now, driverclock>>
    PROVE  OnDisplay' /\ text' \in [Handles -> [Rows -> 0 .. TimeText]]
  <1>0. current' = h /\ h # NoScreen /\ since' = "drawn"
    BY HandlesAssumption DEF Show
  <1>1. ASSUME NEW r \in WrittenRows(h)
        PROVE  lcd'[r] = Picture(h, r) /\ r \in Rows
    <2>1. r \in Rows
      BY <1>1 DEF WrittenRows, Rows
    <2> QED BY <1>1, <2>1 DEF Show
  <1>2. Held'
    BY <1>0 DEF Held, TickSafe, Alive
  <1>3. text'[h] = [r \in Rows |-> IF IsStatus(h, r) THEN TimeText ELSE text[h][r]]
    BY DEF Show, Types
  <1>4. ShowsCurrent'
    <2> SUFFICES ASSUME NEW r \in WrittenRows(h)
                 PROVE  lcd'[r].of = h /\ lcd'[r].text = text'[h][r]
      BY <1>0 DEF ShowsCurrent, WrittenRows
    <2>1. lcd'[r] = Picture(h, r) /\ r \in Rows
      BY <1>1
    <2>2. /\ Picture(h, r).of = h
          /\ Picture(h, r).text = IF IsStatus(h, r) THEN TimeText ELSE text[h][r]
      BY DEF Picture
    <2>3. text'[h][r] = IF IsStatus(h, r) THEN TimeText ELSE text[h][r]
      BY <1>3, <2>1
    <2> QED BY <2>1, <2>2, <2>3
  <1>5. ClockLate'
    <2> SUFFICES ASSUME ClockOn'
                 PROVE  lcd'["upper"].time \in Minutes /\ Late' = 0
      BY DEF ClockLate
    <2>1. kind[h] = "CLOCK" /\ ~driverclock
      BY <1>0 DEF ClockOn
    <2>2. "upper" \in WrittenRows(h)
      BY <2>1 DEF WrittenRows, Rows
    <2>3. lcd'["upper"].time = now
      <3>1. lcd'["upper"] = Picture(h, "upper")
        BY <1>1, <2>2
      <3>2. Picture(h, "upper").time = now
        BY <2>1, Zenon DEF Picture
      <3> QED BY <3>1, <3>2
    <2>4. now \in Minutes /\ (now - now) % (2 * Hour) = 0
      BY MinutePasses DEF Types
    <2> QED BY <2>3, <2>4 DEF Late
  <1>6. text' \in [Handles -> [Rows -> 0 .. TimeText]]
    BY DEF Show, Types, TimeText
  <1> QED BY <1>2, <1>4, <1>5, <1>6 DEF OnDisplay

\* lcd_refresh without lines.
LEMMA NotShown ==
    ASSUME Types, OnDisplay, ClearBuffer, UNCHANGED <<kind, empty, lastmins, now, ticked, driverclock>>
    PROVE  OnDisplay' /\ Types'
  <1>1. since' \in {"cleared", "deleted"} /\ (since = "deleted" => since' = "deleted")
    BY HappensType DEF ClearBuffer
  <1>2. OnDisplay'
    BY <1>1, Unseen DEF ClearBuffer
  <1> QED BY <1>1, <1>2 DEF ClearBuffer, Types

\* Every call, tick and minute keeps the invariant.
LEMMA NextInv == ASSUME Inv, [ScreensNext]_screenvars PROVE Inv'
  <1> USE DEF screens, display, clock
  <1>0. Types /\ ClocksHaveLines /\ OnDisplay
    BY DEF Inv
  <1>1. ASSUME NEW h \in Handles, NEW k \in Kinds, NEW nolines \in BOOLEAN,
               k = "CLOCK" => ~nolines, Construct(h, k, nolines)
        PROVE  Inv'
    <2>1. h = current => since = "deleted"
      BY <1>0, <1>1, HandlesAssumption DEF Construct, OnDisplay, Held, TickSafe, Alive
    <2>2. OnDisplay'
      <3>1. current # NoScreen /\ h # current =>
               kind'[current] = kind[current] /\ text'[current] = text[current]
        BY <1>0, <1>1 DEF Construct, Types
      <3> QED BY <1>0, <1>1, <2>1, <3>1, Unseen DEF Construct, Types
    <2>3. Types'
      BY <1>0, <1>1 DEF Construct, Types, TimeText
    <2>4. ClocksHaveLines'
      BY <1>0, <1>1, Zenon DEF Construct, Types, ClocksHaveLines
    <2> QED BY <2>2, <2>3, <2>4 DEF Inv
  <1>2. ASSUME NEW h \in Handles, lcd_delete(h)
        PROVE  Inv'
    <2>1. /\ h = current => since' = "deleted"
          /\ h # current => since' = since
      BY <1>0, <1>2, HappensType DEF lcd_delete
    <2>2. OnDisplay'
      <3>1. current # NoScreen /\ h # current =>
               kind'[current] = kind[current] /\ text'[current] = text[current]
        BY <1>0, <1>2 DEF lcd_delete, Types
      <3> QED BY <1>0, <1>2, <2>1, <3>1, Unseen DEF lcd_delete, Types
    <2>3. Types'
      BY <1>0, <1>2, <2>1 DEF lcd_delete, Types, TimeText
    <2>4. ClocksHaveLines'
      BY <1>0, <1>2 DEF lcd_delete, Types, ClocksHaveLines
    <2> QED BY <2>2, <2>3, <2>4 DEF Inv
  <1>3. ASSUME NEW h \in Handles,
               \/ lcd_menuaddentry(h) \/ lcd_menucontrol(h) \/ lcd_menuclear(h)
               \/ \E r \in Rows : lcd_framesetline(h, r)
               \/ \E r \in StatusRows \cup {"none"} : lcd_framestatus(h, r)
               \/ lcd_inputcontrol(h) \/ lcd_yesnocontrol(h) \/ lcd_clocksetalarm(h)
        PROVE  Inv'
    <2>1. /\ UNCHANGED <<kind, current, lastmins, lcd, now, ticked, driverclock>>
          /\ IF h = current THEN Happens("edited") ELSE UNCHANGED since
      BY <1>3 DEF lcd_menuaddentry, lcd_menucontrol, lcd_menuclear, lcd_framesetline,
                  lcd_framestatus, lcd_inputcontrol, lcd_yesnocontrol, lcd_clocksetalarm, Edit
    <2>2. \/ text' = text
          \/ \E t \in [Rows -> 0 .. TimeText] : text' = [text EXCEPT ![h] = t]
      <3>1. ASSUME NEW R, Edit(h, R)
            PROVE  \E t \in [Rows -> 0 .. TimeText] : text' = [text EXCEPT ![h] = t]
        <4>1. text[h] \in [Rows -> 0 .. TimeText]
          BY <1>0 DEF Types
        <4> DEFINE t == [r \in Rows |-> IF r \in R THEN NewText(text[h][r]) ELSE text[h][r]]
        <4>2. t \in [Rows -> 0 .. TimeText]
          BY <4>1 DEF NewText, TimeText
        <4>3. text' = [text EXCEPT ![h] = t]
          BY <3>1 DEF Edit
        <4> QED BY <4>2, <4>3
      <3>2. [r \in Rows |-> 0] \in [Rows -> 0 .. TimeText]
        BY DEF TimeText
      <3> QED
        BY <1>3, <3>1, <3>2
           DEF lcd_menuaddentry, lcd_menucontrol, lcd_menuclear, lcd_framesetline,
               lcd_framestatus, lcd_inputcontrol, lcd_yesnocontrol, lcd_clocksetalarm
    <2>3. \/ empty' = empty
          \/ empty' = [empty EXCEPT ![h] = FALSE]
          \/ kind[h] = "MENU" /\ empty' = [empty EXCEPT ![h] = TRUE]
      BY <1>3 DEF lcd_menuaddentry, lcd_menucontrol, lcd_menuclear, lcd_framesetline,
                  lcd_framestatus, lcd_inputcontrol, lcd_yesnocontrol, lcd_clocksetalarm
    <2>4. /\ h = current => /\ since' \in {"edited", "cleared", "deleted"}
                            /\ since = "deleted" => since' = "deleted"
                            /\ since = "cleared" => since' # "edited"
          /\ h # current => since' = since
      BY <1>0, <2>1, HappensType
    <2>5. OnDisplay'
      <3>1. current # NoScreen /\ h # current => text'[current] = text[current]
        BY <1>0, <2>2 DEF Types
      <3> QED BY <1>0, <2>1, <2>4, <3>1, Unseen DEF Types
    <2>6. Types'
      BY <1>0, <2>1, <2>2, <2>3, <2>4 DEF Types
    <2>7. ClocksHaveLines'
      BY <1>0, <2>1, <2>3 DEF Types, ClocksHaveLines
    <2> QED BY <2>5, <2>6, <2>7 DEF Inv
  <1>4. ASSUME NEW h \in Handles \cup {NoScreen}, CallRefresh(h)
        PROVE  Inv'
    <2>1. UNCHANGED <<kind, empty, lastmins, now, ticked, driverclock>>
      BY <1>4 DEF CallRefresh
    <2>2. CASE ClearBuffer
      BY <1>0, <2>1, <2>2, NotShown DEF Inv, ClocksHaveLines
    <2>3. CASE h # NoScreen /\ Show(h)
      <3>1. OnDisplay' /\ text' \in [Handles -> [Rows -> 0 .. TimeText]]
        BY <1>0, <1>4, <2>1, <2>3, Shown DEF CallRefresh, Alive
      <3>2. current' = h /\ since' = "drawn"
        BY <2>3 DEF Show
      <3> QED BY <1>0, <2>1, <2>3, <3>1, <3>2 DEF Inv, Types, ClocksHaveLines
    <2> QED BY <1>4, <2>2, <2>3 DEF CallRefresh, lcd_refresh
  <1>5. CASE lcd_tick
    <2>1. UNCHANGED <<kind, empty, now, driverclock>> /\ ticked'
      BY <1>5 DEF lcd_tick
    <2>2. current' = current
      BY <1>5 DEF lcd_tick, lcd_refresh, ClearBuffer, Show, Idle, TickFreed
    <2>3. CASE current = NoScreen /\ Idle
      BY <1>0, <2>1, <2>2, <2>3 DEF Idle, Inv, Types, OnDisplay, Held, TickSafe,
             ClocksHaveLines, ShowsCurrent, ClockLate, ClockOn
    <2>4. CASE current # NoScreen /\ ~Alive(current) /\ TickFreed
      <3>1. since = "deleted" /\ since' = since /\ text' = text
        BY <1>0, <2>4 DEF OnDisplay, Held, TickSafe, TickFreed
      <3>2. OnDisplay'
        BY <3>1 DEF OnDisplay, Held, ShowsCurrent, ClockLate, ClockOn
      <3> QED BY <1>0, <2>1, <2>2, <3>1, <3>2 DEF Inv, Types, ClocksHaveLines
    <2>5. CASE Alive(current) /\ Show(current)
      <3>1. OnDisplay' /\ text' \in [Handles -> [Rows -> 0 .. TimeText]]
        BY <1>0, <2>1, <2>5, Shown DEF Types, Alive
      <3>2. since' = "drawn"
        BY <2>5 DEF Show
      <3> QED BY <1>0, <2>1, <2>2, <3>1, <3>2 DEF Inv, Types, ClocksHaveLines
    <2>6. CASE Alive(current) /\ ClearBuffer /\ empty[current]
      <3>1. kind[current] # "CLOCK"
        BY <1>0, <2>6 DEF Types, Alive, ClocksHaveLines
      <3>2. since' \in {"cleared", "deleted"} /\ text' = text
        BY <1>0, <2>6, HappensType DEF ClearBuffer
      <3>3. OnDisplay'
        BY <2>1, <2>2, <2>6, <3>1, <3>2 DEF OnDisplay, Held, TickSafe, Alive, ShowsCurrent,
               ClockLate, ClockOn
      <3> QED BY <1>0, <2>1, <2>2, <3>2, <3>3 DEF Inv, Types, ClocksHaveLines
    <2>7. CASE Alive(current) /\ Idle /\ (kind[current] = "CLOCK" => lastmins = Mins)
      <3>1. Held' /\ ShowsCurrent'
        BY <1>0, <2>1, <2>7 DEF Idle, OnDisplay, Held, TickSafe, Alive, ShowsCurrent, WrittenRows
      <3>2. ClockLate'
        BY <1>0, <2>1, <2>7 DEF Idle, OnDisplay, ClockLate, ClockOn, Late, Mins
      <3>3. OnDisplay'
        BY <3>1, <3>2 DEF OnDisplay
      <3> QED BY <1>0, <2>1, <2>7, <3>3 DEF Idle, Inv, Types, ClocksHaveLines
    <2>8. Alive(current) => current # NoScreen
      BY DEF Alive
    <2> QED BY <1>5, <2>3, <2>4, <2>5, <2>6, <2>7, <2>8 DEF lcd_tick, lcd_refresh, AnimatedKinds
  <1>6. CASE Minute
    <2>1. UNCHANGED <<kind, empty, text, current, lcd, lastmins, since, driverclock>>
      BY <1>6 DEF Minute
    <2>2. Held' /\ ShowsCurrent' /\ ClocksHaveLines'
      BY <1>0, <2>1 DEF OnDisplay, Held, TickSafe, Alive, ShowsCurrent, WrittenRows,
             ClocksHaveLines
    <2>3. now \in Minutes /\ now' = (now + 1) % (2 * Hour)
      BY <1>0, <1>6 DEF Minute, Types
    <2>4. now' \in Minutes
      BY <2>3, MinutePasses
    <2>5. ASSUME ClockOn
          PROVE  \/ Late' = 1
                 \/ Late' = 2 /\ lastmins # Mins'
      <3>1. ticked /\ lcd["upper"].time \in Minutes
        BY <1>0, <1>6, <2>5 DEF Minute, ClockLate, OnDisplay
      <3>2. PICK t \in Minutes : t = lcd["upper"].time
        BY <3>1
      <3>3. /\ (now - t) % (2 * Hour) = 0 => (now' - t) % (2 * Hour) = 1
            /\ (now - t) % (2 * Hour) = 1 => (now' - t) % (2 * Hour) = 2
            /\ now' % Hour # now % Hour
        BY <2>3, MinutePasses
      <3>4. Late = 0 \/ (Late = 1 /\ lastmins = Mins)
        BY <1>0, <2>5, <3>1, Zenon DEF ClockLate, OnDisplay
      <3>5. /\ Late = 0 => Late' = 1
            /\ Late = 1 => Late' = 2
        BY <2>1, <3>2, <3>3 DEF Late
      <3>6. Mins' # Mins
        BY <3>3 DEF Mins
      <3> QED BY <3>4, <3>5, <3>6, Zenon
    <2>6. ClockLate'
      <3>1. ~ticked'
        BY <1>6 DEF Minute
      <3>2. ClockOn => lcd["upper"].time \in Minutes
        BY <1>0 DEF ClockLate, OnDisplay
      <3> QED BY <2>1, <2>5, <3>1, <3>2 DEF ClockLate, ClockOn
    <2> QED BY <1>0, <2>1, <2>2, <2>4, <2>6 DEF Inv, OnDisplay, Types
  <1>7. CASE UNCHANGED screenvars
    <2>1. OnDisplay'
      BY <1>0, <1>7, Unseen DEF screenvars, Types
    <2> QED BY <1>0, <1>7, <2>1 DEF screenvars, Inv, Types, ClocksHaveLines
  <1> QED
    BY <1>1, <1>2, <1>3, <1>4, <1>5, <1>6, <1>7
       DEF ScreensNext, lcd_menucreate, lcd_framecreate, lcd_inputcreate, lcd_yesnocreate,
           lcd_clockcreate, Kinds

\* The invariant always holds, whatever the application deletes.
LEMMA Invariance == ScreensSpec => []Inv
  <1>1. Inv /\ [ScreensNext]_screenvars => Inv'
    BY NextInv
  <1> QED BY <1>1, InitInv, PTL DEF ScreensSpec

(***************************************************************************)
(* For any number of screens: what lcd_refresh writes of the screen that   *)
(* lcd_tick animates is on the LCD, with its present text until it is      *)
(* changed, until that screen is deleted or an empty one refreshed.        *)
(***************************************************************************)
THEOREM LcdShowsCurrent == ScreensSpec => []ShowsCurrent
  <1>1. Inv => ShowsCurrent
    BY DEF Inv, OnDisplay
  <1> QED BY <1>1, Invariance, PTL

(***************************************************************************)
(* For any number of screens and hours of any length: in a minute in which *)
(* lcd_tick has run, the clock on the LCD is at most one minute late.      *)
(***************************************************************************)
THEOREM ClockIsNearlyRight == ScreensSpec => []ClockNearlyRight
  <1>1. Inv => ClockNearlyRight
    <2> SUFFICES ASSUME Inv, ClockOn, ticked
                 PROVE  Late <= 1
      BY DEF ClockNearlyRight, ClockOn
    <2>1. Late = 0 \/ Late = 1
      BY DEF Inv, OnDisplay, ClockLate
    <2> QED BY <2>1
  <1> QED BY <1>1, Invariance, PTL
=============================================================================
