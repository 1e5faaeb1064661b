----------------------------- MODULE LcdScreens -----------------------------
(***************************************************************************)
(* The screens of libreciva and the display they share: applications       *)
(* create, fill and delete screens of five kinds, lcd_refresh puts one on  *)
(* the LCD and registers it in lcd_currentscreen, and lcd_tick, called     *)
(* from the application's main loop, animates the registered screen.       *)
(*                                                                         *)
(* The display has two rows here: the upper one stands for the two lines   *)
(* that an input screen writes, the lower one for those below them.  A     *)
(* text is a number, changed by every operation on it, or the time of day. *)
(* The LCD shows what IOC_LCD_DRAW_SCREEN last copied from the working     *)
(* buffer lcd.scr, or what IOC_LCD_DRAW_CLOCK drew, whichever came last.   *)
(***************************************************************************)
EXTENDS Integers

CONSTANTS
    Handles,        \* addresses malloc hands out for lcd_handle structures
    NoScreen,       \* the null pointer
    Hour,           \* minutes of an hour
    KindsAt,        \* bound: the kinds of screen made at each address
    StatusRows      \* bound: rows that are made the status row of a frame

ASSUME HandlesAssumption == NoScreen \notin Handles
ASSUME HourAssumption == Hour \in Nat \ {0, 1}

Kinds == {"MENU", "FRAME", "INPUT", "CLOCK", "YESNO"}
Rows == {"upper", "lower"}

ASSUME BoundsAssumption == KindsAt \in [Handles -> SUBSET Kinds] /\ StatusRows \subseteq Rows

VARIABLES
    kind,           \* handle->type, "FREED" when the address is not allocated
    empty,          \* handle->tsc == NULL: a menu without lines
    text,           \* the rows of the screen
    statusrow,      \* handle->statusrow
    current,        \* lcd_currentscreen
    lastmins,       \* lcd_tick's static
    buffer,         \* lcd.scr: the text to draw
    lcd,            \* what the LCD shows
    now,            \* minutes, modulo two hours
    ticked,         \* history: lcd_tick was called in this minute
    since,          \* history: what became of current since it was drawn
    driverclock     \* lcd.cap & SLCD_HAS_DRIVERCLOCK

screens == <<kind, empty, text, statusrow>>
display == <<buffer, lcd>>
clock == <<now, ticked>>
screenvars == <<screens, current, lastmins, display, clock, since, driverclock>>

Alive(h) == h # NoScreen /\ kind[h] # "FREED"

NoTime == -1
Nothing == [of |-> NoScreen, text |-> 0, time |-> NoTime]
Cleared == [r \in Rows |-> Nothing]

\* The text of a row that lcd_refresh has overwritten with the time; which
\* time an earlier refresh left there is not kept.
TimeText == 2
NewText(t) == IF t = 0 THEN 1 ELSE 0

\* A slip: the hour is compared.
HourOfDay == now \div Hour

\* local.tm_min
Mins == now % Hour

\* A slip: frames are not animated.
AnimatedMenus == {"MENU"}

\* The kinds lcd_tick refreshes whatever the time.
AnimatedKinds == {"MENU", "FRAME"}

ScreensInit ==
    /\ kind = [h \in Handles |-> "FREED"]
    /\ empty = [h \in Handles |-> FALSE]
    /\ text = [h \in Handles |-> [r \in Rows |-> 0]]
    /\ statusrow = [h \in Handles |-> "none"]
    /\ current = NoScreen
    /\ lastmins = -1
    /\ buffer = Cleared /\ lcd = Cleared
    /\ now = 0 /\ ticked = FALSE
    /\ since = "drawn"
    /\ driverclock \in BOOLEAN

\* What the history keeps: the gravest of what happened since current was drawn.
Happens(what) ==
    since' = IF "deleted" \in {what, since} THEN "deleted"
             ELSE IF "cleared" \in {what, since} THEN "cleared" ELSE what

(***************************************************************************)
(* The five constructors.  lcd_framecreate fills a new menu with blank     *)
(* lines, and the three after it start from a frame: only a menu has none. *)
(***************************************************************************)
Construct(h, k, nolines) ==
    /\ ~Alive(h) /\ k \in KindsAt[h]
    /\ kind' = [kind EXCEPT ![h] = k]
    /\ empty' = [empty EXCEPT ![h] = nolines]
    /\ text' = [text EXCEPT ![h] = [r \in Rows |-> 0]]
    /\ statusrow' = [statusrow EXCEPT ![h] = "none"]
    /\ UNCHANGED <<current, lastmins, display, clock, since, driverclock>>

lcd_menucreate(h) == Construct(h, "MENU", TRUE)
lcd_framecreate(h) == Construct(h, "FRAME", FALSE)
lcd_inputcreate(h) == Construct(h, "INPUT", FALSE)
lcd_yesnocreate(h) == Construct(h, "YESNO", FALSE)
lcd_clockcreate(h) == Construct(h, "CLOCK", FALSE)

(***************************************************************************)
(* Operations that change rows R of a screen and not the display.          *)
(***************************************************************************)
Edit(h, R) ==
    /\ text' = [text EXCEPT ![h] = [r \in Rows |-> IF r \in R THEN NewText(@[r]) ELSE @[r]]]
    /\ IF h = current THEN Happens("edited") ELSE UNCHANGED since
    /\ UNCHANGED <<kind, statusrow, current, lastmins, display, clock, driverclock>>

lcd_menuaddentry(h) ==
    kind[h] = "MENU" /\ Edit(h, Rows) /\ empty' = [empty EXCEPT ![h] = FALSE]

\* lcd_menucontrol, and lcd_menusort: nothing to do without lines.
lcd_menucontrol(h) == kind[h] = "MENU" /\ ~empty[h] /\ Edit(h, Rows) /\ UNCHANGED empty

\* lcd_framesetline, under lcd_frameprintf and lcd_framebar too.
lcd_framesetline(h, r) == kind[h] = "FRAME" /\ Edit(h, {r}) /\ UNCHANGED empty

\* What lcd_inputsetline puts below the upper row is never drawn, and not kept.
lcd_inputcontrol(h) == kind[h] = "INPUT" /\ Edit(h, {"upper"}) /\ UNCHANGED empty

lcd_yesnocontrol(h) == kind[h] = "YESNO" /\ Edit(h, {"upper"}) /\ UNCHANGED empty

lcd_clocksetalarm(h) == kind[h] = "CLOCK" /\ Edit(h, {"lower"}) /\ UNCHANGED empty

\* Only the refresh of a frame looks at statusrow.  A line that the frame
\* does not have is as good as none: lcd_frameprintf does not find it.
lcd_framestatus(h, r) ==
    /\ kind[h] = "FRAME"
    /\ statusrow' = [statusrow EXCEPT ![h] = r]
    /\ IF h = current THEN Happens("edited") ELSE UNCHANGED since
    /\ UNCHANGED <<kind, empty, text, current, lastmins, display, clock, driverclock>>

lcd_menuclear(h) ==
    /\ kind[h] = "MENU"
    /\ empty' = [empty EXCEPT ![h] = TRUE]
    /\ text' = [text EXCEPT ![h] = [r \in Rows |-> 0]]
    /\ IF h = current THEN Happens("edited") ELSE UNCHANGED since
    /\ UNCHANGED <<kind, statusrow, current, lastmins, display, clock, driverclock>>

(***************************************************************************)
(* lcd_delete frees the structure; lcd_currentscreen is not touched, and   *)
(* the address may be handed out again.                                    *)
(***************************************************************************)
lcd_delete(h) ==
    /\ Alive(h)
    /\ kind' = [kind EXCEPT ![h] = "FREED"]
    /\ empty' = [empty EXCEPT ![h] = FALSE]
    /\ text' = [text EXCEPT ![h] = [r \in Rows |-> 0]]
    /\ statusrow' = [statusrow EXCEPT ![h] = "none"]
    /\ IF h = current THEN Happens("deleted") ELSE UNCHANGED since
    /\ UNCHANGED <<current, lastmins, display, clock, driverclock>>

(***************************************************************************)
(* lcd_refresh.  Of a null handle or an empty menu only the working buffer *)
(* is cleared.  Every other screen is written to the buffer, which is then *)
(* drawn: of an input screen two rows are written, and of a clock that the *)
(* driver draws none, since IOC_LCD_DRAW_CLOCK goes to the LCD directly    *)
(* and the buffer is drawn over it.  The status row of a frame is first    *)
(* overwritten with the time, in the frame itself.                         *)
(***************************************************************************)
ClearBuffer == /\ buffer' = Cleared
               /\ Happens("cleared")
               /\ UNCHANGED <<text, current, lcd>>

IsStatus(h, r) == kind[h] = "FRAME" /\ statusrow[h] = r

\* What row r of h looks like when it is drawn now.
Picture(h, r) ==
    [of |-> h,
     text |-> IF IsStatus(h, r) THEN TimeText ELSE text[h][r],
     time |-> IF IsStatus(h, r) \/ (kind[h] = "CLOCK" /\ r = "upper") THEN now ELSE NoTime]

\* A slip: the buffer is written and not drawn.
ShowUndrawn(h) == /\ buffer' = [r \in Rows |-> Picture(h, r)]
                  /\ current' = h /\ since' = "drawn"
                  /\ UNCHANGED <<text, lcd>>

WrittenRows(h) == IF kind[h] = "INPUT" THEN {"upper"}
                  ELSE IF kind[h] = "CLOCK" /\ driverclock THEN {} ELSE Rows

Show(h) ==
    /\ text' = [text EXCEPT ![h] = [r \in Rows |-> IF IsStatus(h, r) THEN TimeText ELSE @[r]]]
    /\ buffer' = [r \in Rows |-> IF r \in WrittenRows(h) THEN Picture(h, r) ELSE buffer[r]]
    /\ lcd' = buffer'
    /\ current' = h
    /\ since' = "drawn"

lcd_refresh(h) == IF h = NoScreen \/ empty[h] THEN ClearBuffer ELSE Show(h)

\* The application calls lcd_refresh.
CallRefresh(h) == /\ h = NoScreen \/ Alive(h)
                  /\ lcd_refresh(h)
                  /\ UNCHANGED <<kind, empty, statusrow, lastmins, clock, driverclock>>

(***************************************************************************)
(* lcd_tick.  What it does with a deleted screen depends on what is in the *)
(* freed memory: the buffer is left, cleared (lcd_delete sets tsc to NULL) *)
(* or overwritten, drawn or not, and lastmins left or set.  (It may also   *)
(* end the application, and nothing is said of that.)                      *)
(***************************************************************************)
Idle == UNCHANGED <<text, current, lastmins, display, since>>

Garbage == [r \in Rows |-> [of |-> NoScreen, text |-> 1, time |-> NoTime]]

TickFreed == /\ lastmins' \in {lastmins, -1, Mins}
             /\ buffer' \in {buffer, Cleared, Garbage}
             /\ lcd' = buffer' \/ (buffer' = Cleared /\ lcd' = lcd)
             /\ UNCHANGED <<text, current, since>>

lcd_tick ==
    /\ ticked' = TRUE
    /\ UNCHANGED <<kind, empty, statusrow, now, driverclock>>
    /\ \/ current = NoScreen /\ Idle
       \/ current # NoScreen /\ ~Alive(current) /\ TickFreed
       \/ /\ Alive(current) /\ kind[current] \in AnimatedKinds
          /\ lcd_refresh(current)
          /\ lastmins' = -1
       \/ /\ Alive(current) /\ kind[current] = "CLOCK"
          /\ \/ lastmins # Mins /\ lastmins' = Mins /\ lcd_refresh(current)
             \/ lastmins = Mins /\ Idle
       \/ /\ Alive(current) /\ kind[current] \notin AnimatedKinds \cup {"CLOCK"}
          /\ Idle

\* A minute passes; the main loop ticks more often than that.
Minute == /\ ticked
          /\ now' = (now + 1) % (2 * Hour)
          /\ ticked' = FALSE
          /\ UNCHANGED <<screens, current, lastmins, display, since, driverclock>>

ScreensNext ==
    \/ \E h \in Handles :
          \/ lcd_menucreate(h) \/ lcd_framecreate(h) \/ lcd_inputcreate(h)
          \/ lcd_yesnocreate(h) \/ lcd_clockcreate(h)
          \/ lcd_menuaddentry(h) \/ lcd_menucontrol(h) \/ lcd_menuclear(h)
          \/ \E r \in Rows : lcd_framesetline(h, r)
          \/ \E r \in StatusRows \cup {"none"} : lcd_framestatus(h, r)
          \/ lcd_inputcontrol(h) \/ lcd_yesnocontrol(h) \/ lcd_clocksetalarm(h)
          \/ lcd_delete(h)
    \/ \E h \in Handles \cup {NoScreen} : CallRefresh(h)
    \/ lcd_tick
    \/ Minute

ScreensSpec == ScreensInit /\ [][ScreensNext]_screenvars

\* The application's main loop keeps calling lcd_tick.
ScreensFairSpec == ScreensSpec /\ WF_screenvars(lcd_tick)
----------------------------------------------------------------------------
(***************************************************************************)
(* lcd_tick never follows lcd_currentscreen into freed memory.             *)
(* lcdtest.c: "There's no harm in lcd_tick() being called after            *)
(* lcd_delete(h) as delete de-registers handle".                           *)
(***************************************************************************)
TickSafe == current = NoScreen \/ Alive(current)

(***************************************************************************)
(* As long as the screen lcd_tick animates is not deleted and no empty     *)
(* screen is refreshed, every row of it that lcd_refresh writes is its own *)
(* on the LCD, whatever other screens were made, changed and deleted       *)
(* meanwhile; and as long as it is not changed either, with the text it    *)
(* now has.  The clock of a radio with SLCD_HAS_DRIVERCLOCK has no such    *)
(* row: the buffer is drawn over it.                                       *)
(*                                                                         *)
(* A refresh without lines is left out because code and comment disagree:  *)
(* lcd.c:1008 says "clear the screen and leave", and lcd_hwclearscr clears *)
(* the working buffer only, so that the LCD keeps the screen it had.       *)
(***************************************************************************)
ShowsCurrent ==
    current # NoScreen /\ since \in {"drawn", "edited"} =>
        \A r \in WrittenRows(current) :
            /\ lcd[r].of = current
            /\ since = "drawn" => lcd[r].text = text[current][r]

(***************************************************************************)
(* A clock on the LCD is at most one minute late once lcd_tick has run in  *)
(* the present minute, although lastmins is shared by all screens and is   *)
(* not reset by input and yes/no screens.                                  *)
(***************************************************************************)
Late == (now - lcd["upper"].time) % (2 * Hour)
ClockNearlyRight ==
    /\ current # NoScreen /\ since # "deleted"
    /\ kind[current] = "CLOCK" /\ ~driverclock /\ ticked
    => Late <= 1

(***************************************************************************)
(* As long as lcd_tick is called, the menu or frame on display is again    *)
(* and again shown with its present contents, and the status row of a      *)
(* frame with the present time ("automatically be re-generated and updated *)
(* on an lcd_tick call", lcd.c:558).  What an application writes to the    *)
(* status row itself is not among the contents: lcd_refresh overwrites it. *)
(* (lcd.h:179 and 203 say that "lcd_refresh() is required" after a change; *)
(* lcd_tick makes that call.)                                              *)
(***************************************************************************)
Animated == Alive(current) /\ kind[current] \in {"MENU", "FRAME"} /\ ~empty[current]
EditsReachLcd == []<>(Animated => \A r \in Rows : lcd[r] = Picture(current, r))
=============================================================================
