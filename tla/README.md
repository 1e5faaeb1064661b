# A verification of the Sharpfin project

Sharpfin is free software for internet radios built around a Reciva module: a
library (`libreciva`) that drives the radio's display, keys, watchdog and
mute, small programs on top of it, an FTP server and packages for the radio,
and tools for the developer's PC, among them a flash programmer (`sharpflash`)
and a server that takes part in the radio's upgrade (`patchserver`).

This directory holds TLA+ models of the parts with logic of their own, TLC
configurations that check them on small instances, and TLAPS proofs of the
main properties for instances of every size. `PROJECT.json` lists the runs,
the source lines behind every definition, the hazards the properties are aimed
at, the places where code and documentation disagree, and the theorems.

## Inventory

| Part | State | Operations | What is hard | Modelled by |
|---|---|---|---|---|
| menu screens (`lcd.c`) | rows in a circular doubly linked list; `top`, `end`, `tsc` (top of screen), `curl` (selected), `scrollpos` per row | clear, add, sort, up, down, draw | pointer surgery, a window that wraps round the list | `LcdMenu`, `LcdRing` |
| input screens (`lcd.c`) | the caller's text buffer, cursor, start of the window, position of the chooser | create, turn left or right, enter, draw | offsets that must agree, buffer limits | `LcdInput` |
| screens and display (`lcd.c`, `lcd_reciva.c`) | screens of five kinds, `lcd_currentscreen`, `lastmins`, the working buffer, the LCD | create, edit, delete, refresh, tick | stale pointers and stale time, two ways to draw, asynchronous ticks | `LcdScreens` |
| NAND programming (`k9fxx08.c`, `sharpflash.c`) | pages and bad block marks of the flash, block and file positions | write, read, check | failing erases and programs, interruption, wrap-around | `NandFlash` |
| ECC, `getpart` (`nand_ecc.c`, `getpart.c`) | none | compute, correct | bit-level algorithm | planned |
| JTAG, parallel port (`jtag.c`, `ppt.c`, `pin2410.c`) | pins | shift registers | none: straight sequences of port writes | not planned |
| `ftpd` | main process: descriptors, children, signals; session: login state, rename source, listener and data connection, working directory | accept, fork, reap; one per FTP command | control and data connections in one select loop, fork per client, merged signals, timeouts, clients that stall | `FtpdMain`, `Ftpd` |
| `patchserver` | sockets, pending DNS relay, file served | DNS query, HTTP request, timeout | one thread for everything, lost and late answers, the order of the radio's requests, a file that changes | `PatchServer` |
| keys (`key_reciva.c`, `key_devel.c`) | a queue per input device; the queue of events made of a keystroke | init, poll | order across devices, devices that fail, releases that must follow | `KeyReciva`, `KeyDevel` |
| watchdog, mute | one stored flag each | enable, disable, kick, set | the flag is kept when the driver refuses | not planned |
| `xmlparse` | command table, position in script and page, last thing read | one per instruction | jumps, missing labels, the end of the page | `XmlParse` |
| log | level | write an entry | a fatal entry ends the process | used as a fact |
| desktop simulation (`lcd_devel.c`, `scr_devel.c`), test programs | | | callers of the library | not planned |
| busybox, lirc, the maker's kernel drivers, packaging, Windows front end | | | not this project's logic | not planned |

Components interact as follows. An application makes screens, fills them and
calls `lcd_refresh`; `lcd_refresh` writes lines into the working buffer of the
hardware layer, has the driver draw it, and registers the screen for
`lcd_tick`, which the application's main loop calls every few hundred
milliseconds. All of it runs in one thread: what interleaves is the
application's calls, its ticks, and time. `sharpflash` runs alone on a PC, for
hours, against a chip that can fail and that keeps its contents when the
program is interrupted. `ftpd` runs beside them on the radio, a process per
client; what interleaves is the session with its client's two connections, and
the main process with the ends of its sessions. `patchserver` is one thread on
the developer's PC that is both name server and web server to the radio: the
radio's next step depends on the answer to the last one, over a network that
loses and delays datagrams. Applications poll the keys from their main loop.
`xmlparse` runs alone over two files.

## Modules

**`LcdMenu`** is what a menu promises its user: `numrows` lines, the line at
the top of the display and the selected line, as positions. `MenuClear`,
`MenuAddEntry`, `MenuSort`, `MenuUp`, `MenuDown` are `lcd_menuclear` to
`lcd_menucontrol`; sorting may put the selected line anywhere, and of two lines
it may leave the circle `open`, so that `next` and `prev` stop at its ends. In
two cases the selection can leave the display: in an open circle, and when a
line is appended inside a window that has wrapped past the end, which
`lateAdds` counts.

**`LcdRing`** is the code of the same operations with its pointers: `next` and
`prev` are functions over heap cells, and `MenuSort` runs the two nested loops
(`SortPass`, `Sorted`) with their six assignments in order (rows may coincide).
`OpenPair` is what that makes of two rows that were in order. Texts are ranks
under `strcmp`; long texts scroll by one character when drawn as the selected
line.

**`MCLcdRing`** adds `LcdMenu`'s history variable and states the refinement:
`tsc` and `curl` map to their distances from `top`, `OpenPair` to `open`, and
every step of the list is a step of the menu window (`ImplementsMenu`).
`SelectionDrawn` says of the rows `lcd_refresh` reaches what `LcdMenu` says of
positions.

**`LcdInput`** is the input screen: `Turn` is the knob, `EnterDel` to
`EnterChar` are the branches of SLCD_ENTER, and every action ends with the
adjustment of the window that ends `lcd_inputcontrol`. Characters are atomic. A
preset is a C string that fits the caller's buffer (`PresetAssumption`).

**`LcdScreens`** has the screens as addresses that `malloc` hands out and
`lcd_delete` returns, and the display as two rows: the upper one stands for the
two lines an input screen writes, the lower one for the rest. A text is a
number that every edit changes, or the time, which `lcd_refresh` writes into
the status row of a frame. `since` remembers the worst that has happened to the
current screen since it was drawn: it was edited, an empty screen was
refreshed, or it was deleted. A tick on a deleted screen (`TickFreed`) does
whatever freed memory may lead to. Whether the driver draws the clock itself is
found out by `lcd_init`, so `driverclock` is free in the initial state.
`KindsAt` and `StatusRows` bound what TLC makes at which address; the proofs
are for all of them.

**`MCLcd`** puts the three parts of the library together for TLC. They share no
step and no variable, so each is explored by itself (`part`) in one run.

**`NandFlash`** is `K9Fxx08_write`, `_read` and `_badcheck` on a chip of
`DeviceBlocks` blocks of which the address cycles tell `AddrBlocks` apart. A
step is one erase or one page, so that `Interrupt` can fall between any two;
another command may then be started on the flash as it is. Erases and programs
may fail, and so may the program that marks the block after such a failure
(`MarkBadBlock`), which nobody notices; `unmarked` remembers those blocks. `-r`
and `-b` are modelled because they go over the same flash and counters: the
marks must survive them too.

**`FtpdMain`** is the main process: `MainAccept`, `Fork`, and `zombie_reaper` as
the actions of a handler (`Signal`, `Reap`, `ReapEnds`) that may run between
any two steps. SIGCHLD is a flag and not a queue. `keptfds` are the descriptors
the main process does not close.

**`Ftpd`** is one session, started by `Accept`: the select loop
(`AcceptData`, `StartLine`, `Elapse`, `TimesOut`, `SelectFails`), an action per
command or group of commands with the same control, and the loops of
`ftpd_retr` and `ftpd_stor`. `Client` is the other side: it waits for a reply
before it sends the next line, and may stall in a line or a file, make data
connections and close what it likes. `tv` counts down over the whole session
as it does on Linux. `old` is the length of the file a STOR replaces, `last`
what the last read of it took, and `silent` says why a client is left without
a reply: there was no data connection, or its session ended without a word
while the main process holds the connection open.

**`PatchServer`** is the loop of `mainloop` with the two handlers it calls:
`pc` says how far they are, since each blocks the loop (`accept`, `scan`,
`open` and `send` are places in `webserver_command`, `dns` and `relay` in
`dnsserver_command`). The environment is the radio with its four steps
(`ask1` to `conn2`), browsers, and a network that loses, delays and repeats.
A relay socket has a port, which the kernel may give to the next one again:
an answer that comes too late can then be read as that of the next query.
Everything that goes wrong is counted by `faults`.

**`KeyReciva`** is `key_poll` on the radio: `Selected` is the first ready
device, `Poll` reads one event of it, `PollGone` is a read that fails, after
which an event that was never written is translated. **`KeyDevel`** is
`key_poll` on a keyboard: an action per kind of keystroke, which fills the
queue, and `PollQueue`, which empties it; the application follows which keys
are down and which digit that makes. A program is linked with one of the two;
**`MCKeys`** explores either (`build`).

**`XmlParse`** is `readcfg`, as the table it makes of a script (`Table`), and
an action per command. The four commands that read up to something take a step
per thing, and `from` remembers where they began, so that what they did can be
compared with what the manual says of the script's own line (`Told`; the table
may hold one line more). A page is the sequence of things `getthing` returns.
`After` is where a line of the table leads, and `LoopsRead` that no set of
lines closed under it can be gone round without reading.

**`LcdMenu_proofs`, `LcdRing_proofs`, `LcdInput_proofs`, `LcdScreens_proofs`,
`NandFlash_proofs`, `Ftpd_proofs`, `PatchServer_proofs`, `Keys_proofs`** hold
the proofs. `Ftpd_proofs` is about `Ftpd` and `FtpdMain`, `Keys_proofs` about
`KeyDevel` and `KeyReciva`; the two modules of each pair share no names, so that
one module can extend both.

Operators introduced as a slip (`BottomLineLate`, `EraseSkipsReads`, ...) are
variants of the definition below them with a plausible mistake. They are used
by no specification; putting one in place of its original makes the property
it is listed with in `PROJECT.json` fail.

## Runs that pass

| Run | Bounds | Shows |
|---|---|---|
| `lcd` | menu: display of 2 rows, up to 5 rows, three texts of which one is long; input: display 3 wide, buffer of 6 bytes, presets of 0 to 5 characters; screens: a frame or clock at one address, a menu, input or yes/no screen at the other, the status row the lower one, hours of two minutes, either kind of clock | the rows stay linked (`Linked`), implement `LcdMenu` (`ImplementsMenu`) and the selected one is drawn (`SelectionDrawn`); buffer limit, window, hardware cursor, chooser and edits of the input screen; the LCD shows the rows and text of the screen that is animated (`ShowsCurrent`), a clock is at most a minute late (`ClockNearlyRight`), edits and the time of a status row reach the LCD (`EditsReachLcd`) |
| `keys` | keyboard: two keys besides digits and shift, keystrokes without bound; radio: three devices of which any may be missing, four events, two stray keys counted | keys come up again, digits are read as typed, and are read; order per device, each key once, no device starved |
| `nand` | a chip of 4 blocks of 3 pages, 3 blocks of them addressable, every pattern of factory marks, a file of one block and two pages, one failure with or without a failing mark, up to two blocks to write | nothing is lost, order is kept but for blocks that could not be marked, marks stay, writing ends |
| `ftpd_main` | four clients, three descriptors | merged signals leave no zombie (`NoZombieForgotten`, `AllReaped`); a client is taken while there are descriptors (`ClientTaken`) |
| `ftpd` | timeout of 2, two ports, one queued data connection, two clients in turn, files of up to 3 bytes on a flash with up to 2 bytes free, a longer file there before or none | one final reply per command and per transfer (`OneReply`), no socket forgotten, the connection of the last PASV, no hole in a confirmed file (`StoredWhole`), login; no client of a session that lives, or ends in words, is left waiting (`ClientNotStuck`) |
| `patch` | one relay port, so that it is always reused, two waiting queries and two connections, files of up to 2 blocks, two faults | the radio goes where it should (`RadioDirected`), gets whole files (`ImageWhole`), the loop never blocks on a missing query (`QueryIsThere`), the upgrade completes (`UpgradeCompletes`) |
| `xmlparse` | every script of up to 3 lines on every page of up to 2 things and an end, 5 of both together, and every script of up to 5 jumps and reads, 6 of both together; with and without a final newline; a table of 6 lines | searchfortag, printuntiltag and printuntilstring stop and print as the manual says (`CommandsAsDocumented`); scripts that cannot go round without reading end (`Terminates`) |

Type invariants are checked for `LcdInput` (in `lcd`), `NandFlash`, `Ftpd` and
`PatchServer`, where they also bound counters and positions, and are proved for
`LcdMenu`, `FtpdMain` and `KeyDevel`, whose proofs rest on them. The types of
`LcdRing`, `LcdScreens` and `KeyReciva` are parts of the inductive invariants
of their proofs. `LcdMenu` has no run of its own: its steps are those
`ImplementsMenu` compares the list with, and its two theorems are proved.

The bounds are small and still reach the interesting cases: the menu is longer
and shorter than the display, the window wraps, and two rows are sorted in
either order and walked through; texts are longer and shorter than the display
and fill the buffer; one screen is on display while another is edited, deleted
and its address reused, or is deleted itself; an hour passes; the counter of
blocks wraps, the file ends in the middle of a block, behind the two pages in
which a mark is looked for, and a run is interrupted, restarted and meets a
failure; a data connection arrives before, between and after the commands it is
for, and a file is larger than the room; there are more clients than
descriptors; an answer is late and meets the next query on its port; a query
waits while a file is sent, and the file is replaced between being counted and
being sent; two devices have keys at once and one of them fails; a script
reaches the end of the table, misses a label, or loops. Five lines are what two
loops around a reading command take, one jumping over it and one jumping back:
the shortest script with a read inside a loop that never reaches it.

Fairness. `lcd` assumes weak fairness of `lcd_tick` only: the main loops of the
applications call it for ever. Nothing is assumed of the application's other
calls. `nand` assumes that a command that is not interrupted goes on, as a
sequential program does; `Interrupt` has no fairness. `WriteEnds` is about
writes for which the chip has room, because the code's loop has no bound of its
own. `ftpd` assumes that the session goes on when it can (`Server`); nothing is
assumed of the client, and failures of calls are never forced. `ClientNotStuck`
excepts the places where the code waits for the client without a timeout, and
sessions that were killed. `ftpd_main` assumes that the main process and its
handler go on and that the listener's queue is served in some fair order;
nobody has to connect and no session has to end. `patch` assumes that the
server goes on unless it waits for a browser's request, that the radio goes on,
asks again as long as it has no answer and hears what is not lost; nothing that
goes wrong is forced, and at most `MaxFaults` things do: with losses for ever
nobody could promise an upgrade. `keys` assumes that the application polls, as
the main loops do; on the radio the keys are slower than the polls, which the
bound on events stands for. `xmlparse` is a sequential program that goes on.

## Runs that show a disagreement

* `screens_delete` checks `TickSafe`, what `lcdtest.c:339` says: "There's no
  harm in lcd_tick() being called after lcd_delete(h) as delete de-registers
  handle". `lcd_delete` leaves `lcd_currentscreen` pointing at freed memory
  (`lcd.c:990`), and the next `lcd_tick` reads it.
* `menu_sort` checks `MenuSorts`, what `lcd.h:191` says of `lcd_menusort`, that
  it "sorts the menu into alphabetical order", and `lcd.c:197`, that the list
  "is designed to be circular". A row is compared with the one before it and
  exchanged with the one after it (`lcd.c:252`), so that menus stay out of
  order; of two rows in order the exchange makes a pair whose ends point at
  themselves (`lcd.c:258`), after which SLCD_UP can select a row that
  `lcd_refresh` does not draw.
* `ftpd_store` checks `StoredExactly`, what the replies in `ftpd.h` say: "226
  Transfer OK" (line 60), and "524 Download interrupted, created file may be
  incomplete" (line 82) for the other case. `ftpd_stor` sends 226 when the last
  write was short (`ftpd.c:128`), and when the end of an older, longer file is
  still behind the new one, which is opened without O_TRUNC (`ftpd.c:121`).
* `xmlparse_search` checks `SearchAsDocumented`, what `readme.txt:28` says of
  `searchforstring`, that it "searches for the specified string". It goes on
  while the string is found and stops at anything else (`xmlparse.c:170`).
* `nand_fill` checks `FilledAsDocumented`, what `sharpflash.c:58` says: "if file
  is too short, NAND will be filled with 0xFF". The buffer is cleared with zeros
  (`k9fxx08.c:123`), the bad block byte included, so that blocks behind the end
  of the file are marked bad; the block in which the file ends stays good when
  at least two pages of the file are in it, so that `FileInOrder` allows zeros
  behind the end of the file.

The models also follow the code in the following, which have no run of their
own.

The LCD library. A line appended while a menu's window wraps round the list
pushes the selected line off the display (`lcd.c:205`). When the cursor is
moved left off the window, the hardware cursor is asked for column -1 and stays
where it was (`lcd.c:1089`), so `CursorUnderCharacter` is about characters on
the display. DEL has no effect on a text longer than 128 characters
(`lcd.c:1387`). A clock shown again in the same minute of another hour misses
an update (`lcd.c:1168`), which is why `ClockNearlyRight` allows a minute.
Refreshing an empty menu is to "clear the screen and leave" (`lcd.c:1008`) and
clears the working buffer only, so that the LCD keeps what it had;
`ShowsCurrent` says nothing until the next drawing. Of an input screen only the
first two rows are drawn (`lcd.c:1087`), so that what `lcd_inputsetline` writes
below them is never seen. The clock that the driver draws is drawn over with
the old buffer (`lcd.c:1139`). What an application writes to the status row of
a frame is overwritten in the frame itself (`lcd.c:1061`). `lcd.h:179`,
`lcd.h:203` and `lcd_reciva.c:31` say that `lcd_refresh()` is required after a
change; for menus and frames `lcd_tick` makes that call.

The flash programmer. When a page of the flash cannot be programmed the block
is given up but the file has been read past it, and the next good block gets
the next part of the file (`k9fxx08.c:139`; `NothingLost` is about writes
without such a failure). `NF_MarkBadBlock` reads the status of its own program
and does nothing with it (`k9fxx08.c:313`): a failed block that could not be
marked is later taken for good, and `FileInOrder` leaves such blocks out.
Reading steps `block` twice per turn (`k9fxx08.c:194` and `220`) and so skips
every second block. The bad block check of the larger chip looks at its first
half twice (`k9fxx08.c:294`).

The FTP server. The timeout of a session is what select left of it, so the
waiting of the whole session adds up to 30 seconds (`ftpd.c:550`). The main
process keeps every client's connection open (`ftpd.c:624`): `ClientTaken`
excepts clients that come when its descriptors are used up, and a client whose
session was killed by a broken pipe, or ended because select failed
(`ftpd.c:562`), sees neither a reply nor the end of the connection and waits
for ever, which `ClientNotStuck` excepts. RETR and STOR without a data
connection get no reply (`ftpd.c:108`).

The patch server ends when a client hangs up in the middle of a transfer, for
it does not catch SIGPIPE (`webserver.cpp:151`). The comment at
`commandline.cpp:33` says that it "returns the local machine's ip address in
response to all lookup queries"; it relays those it does not answer itself. Its
relay sends on the first datagram that comes, although the comment at
`dnsserver.cpp:169` says "If response is valid", and takes the address it came
from for that of the name server from then on (`dnsserver.cpp:286`);
`RadioDirected` holds all the same, because the radio compares the identifier.
A client that connects and sends nothing stops both servers
(`webserver.cpp:105`), which `UpgradeCompletes` excepts.

Keys. On the developer's keyboard F1 to F10 press a key that is never
released (`key_devel.c:181`: the queue is filled and its size stays 0). On the
radio a failed read is not noticed, since -1 is compared as a `size_t`
(`key_reciva.c:98`).

`xmlparse`. The last line of a script is run twice when a newline ends it, the
second time without its argument (`xmlparse.c:293`). What follows a
`loopuntileof` is never run, because the program ends with the page
(`xmlparse.c:189`). The sample output at `readme.txt:61-86` lacks "data on the
next line", which the code prints, as the manual's words on `printuntiltag`
say it should.

## What is proved

For every value of the constants that satisfies the named assumptions
(heights, widths and sizes are positive; presets fit the buffer; a block has
at least two pages; there are finitely many FTP clients; further keys are no
digits):

* `LcdMenu_proofs`: `TypeCorrect`, and `SelectionStaysVisible`. `TypeOK` is
  inductive by itself. For visibility, `RowOf(curl) < Height` has to be shown
  through a window that wraps round the list; the proof has a case per action
  and, for up and down, per position of the selection in the window. It is
  inductive as a count of positions (`Counted`), in an open circle too, where
  it does not mean that the line is reached. What the theorems need of the
  constants is their hypothesis, so that `LcdRing_proofs` can use them.
* `LcdRing_proofs`: `RingStaysLinked`, `RingImplementsMenu`, the refinement of
  `LcdMenu` by the linked list, and `SelectionStaysDrawn`, for every caller. The
  inductive invariant `RingInv` says that there is a list `c` of the rows from
  top to end, each once, along which `next` and `prev` lead round (`IsRing`), or
  an open pair (`Listed`), and that `tsc` and `curl` are among them.
  `Exchange` shows that the six assignments of `lcd_menusort` exchange two
  neighbours of `c` when there are at least three rows and the first of the two
  is not the end; that this is so rests on `p` being the j-th row after j turns
  of the inner loop (`StepKeeps`). Two rows, whose loops make one turn
  (`OneTurn`), are a lemma of their own (`SortPair`), and so is that the next
  addition closes an open pair (`ListCloses`). `FollowRing` turns following
  pointers into counting, which gives the positions of the refinement, and with
  it `SelectionStaysDrawn` follows from `SelectionStaysVisible` about the menu
  the list implements. The loops and `Walk` are recursive functions: that they
  are defined (`WayExists`, `TurnsExist`, `PassesExist`) and what they keep is
  shown by induction over a set of numbers of turns (`Induction`), from the
  least number for which it were not so.
* `LcdInput_proofs`: `TypeCorrect`, `BufferNeverOverrun`,
  `WindowFollowsCursor`, `CursorIsUnderCharacter`, from one inductive invariant:
  the type, the buffer limit, `bol <= cursor <= bol + Width` and
  `cursor <= Len(result)`. That the chooser's loops end on a position of the
  string is a lemma about the least number with a property; `ChooserTurnsBack`
  adds that the nearest stop on one side has the old one as its nearest on the
  other (`TurnBack`). `EditsStayAtCursor` is an action property, from what
  insertion and deletion keep of a text.
* `LcdScreens_proofs`: `LcdShowsCurrent` and `ClockIsNearlyRight`, for any
  number of screens, hours of any length, and callers that delete and refresh
  in any order. `Held` says that the current screen is there unless it was
  deleted since it was drawn, which a screen made at its address does not undo.
  `ClockNearlyRight` is about minutes with a tick only; the strengthening
  `ClockLate` says what is true in between: two minutes late only when no tick
  has run and `lastmins` will let the next one draw. That a tick never reads a
  freed screen is not a theorem: it is false, as `screens_delete` shows.
* `NandFlash_proofs`: `TypeCorrect`, `WriteLosesNothing`, `WriteKeepsOrder` and
  the action property `MarksAreKept`. `NothingLost` says nothing of the block
  in hand; the strengthening `Programming` says what the page loop has done to
  it so far, that it is not marked, and that the file is one block ahead. A
  step of `-w` touches only the current block (`Others`), so what was counted
  before is kept (`Counted`). For the order, `Ordered` says of every good block
  behind the current one, but those that could not be marked, which block of the
  file it is a copy of, and `Marking` why a block that is no copy will be taken
  for bad or is one that could not be marked (`Spoilt`). The proof showed that
  `FileInOrder` had to allow zeros behind the end of the file, which blocks of
  two pages do not show; the run has blocks of three since then.
* `Ftpd_proofs`: `TypeCorrect`, `SocketsAccounted`, `TransfersUseCurrent`,
  `CommandsAnsweredOnce`, `ConfirmedFilesWhole`, `LoginStaysConsistent`. The
  inductive invariant `Base` adds to the types the sums that bound the clock
  and the file, and `Turns`: no command is under way during a transfer, none
  has been answered before it is read, and a transfer has begun with 150. The
  last three theorems are each inductive relative to it. `ConfirmedFilesWhole`
  is that a confirmed file has no hole: before the last read nothing was
  missing, because a short write leaves no room for the next one and that one
  fails; that the end of the last block may be missing is what `ftpd_store`
  shows. About the main process, `MainTypeCorrect`, and `ZombiesRemembered`,
  for any clients: a zombie is there only while the handler runs or its signal
  is pending. It is inductive with the type.
* `PatchServer_proofs`: `TypeCorrect`, `AnnouncedQueriesStay`,
  `RadioAlwaysDirected`, `DownloadsWhole`, for any number of ports, queries,
  connections, blocks and faults. The queue of queries only grows between
  select and the read, whatever the web server does meanwhile. That the radio
  is directed needs that no relayed query carries a forged name and that every
  answer in flight has the address its name is to have; that a download is
  whole needs what the radio has to be a part of what was counted.
* `Keys_proofs`: `TypeCorrect`, `DigitsAsTyped`, `KeysComeUp` for the keyboard
  with any further keys. The invariant says what each form of the queue (one
  event, or three of which some are delivered) means for the keys that are
  down. `RadioKeysInOrder` and `RadioKeysOnce` for the radio with any number of
  devices (at least one) and events: the invariant adds that a queue is in the
  order of time, that an event that waits and is older than a key returned is of
  a higher device (`Passed`), and that a key waits or was returned and not both.

Only model-checked: the liveness properties (`UpgradeCompletes`, `AllReaped`,
`ClientTaken`, `ClientNotStuck`, `DigitIsRead`, `KeysArrive`, `EditsReachLcd`,
`WriteEnds`, `Terminates`), since the prover has no rules for fairness; and
`CommandsAsDocumented` of `XmlParse`, which compares what a loop printed thing
by thing with a selection from the whole page, itself defined by recursion.

## Not modelled

A failed `malloc` (the log entry written there ends the process); the layout
of lines and the conversion of special characters; UTF-8 text in the edited
line, which `lcd_insertchar` says it does not handle; the pins under the flash
commands; FTP clients that send a command before the last one is answered or
send blank lines, and the contents of the radio's file system; the bytes of DNS
datagrams and HTTP pages; a queue of an input device that overflows in the
kernel; an empty script of `xmlparse`, whose first line is then whatever was on
the stack, things longer than its buffers and the way it finds an attribute;
the watchdog and the mute switch, where each call is one ioctl and one flag
(set first, and kept when the ioctl fails); and the parts listed in the
inventory as planned or not planned.

Most of the lines of this repository are busybox, the maker's kernel drivers
with their fonts, in several versions, and other packages that are kept here to
be built for the radio. They are not this project's own logic; the models cover
the programs and the library that are.

## Plan

1. `LcdFrame`: lines, bars, yes/no options; icons, LEDs and the
   capability probe of `lcd_reciva.c`; then the composition of `LcdScreens`
   with `LcdRing` and `LcdInput` for what is drawn.
2. `NandEcc`: the ECC on small blocks against a reference definition.
3. Proofs: `CommandsAsDocumented` of `XmlParse`, by the induction used in
   `LcdRing_proofs`.
