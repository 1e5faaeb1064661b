------------------------------ MODULE XmlParse ------------------------------
(***************************************************************************)
(* xmlparse: a script (parse.cfg) run over a page (xmlparse.c).  readcfg   *)
(* turns the script into a table of commands, main interprets it, and      *)
(* getthing cuts the page into things: a tag, or a word between tags.      *)
(*                                                                         *)
(* A page is the sequence of things getthing returns before the end of     *)
(* file.  The last one is the empty thing when white space or a closed tag *)
(* ends the page, since the end shows only when a character is asked for.  *)
(* Characters, the spaces printed between words, the $ sequences of print  *)
(* and the search for an attribute inside its tag are left out.            *)
(***************************************************************************)
EXTENDS Integers, Sequences, SequencesExt

CONSTANTS CFGLINES,     \* size of the command table
          Names,        \* texts of tags, words, labels and strings
          MaxThings,    \* bound: things of a page
          MaxLines,     \* bound: lines of a script
          MaxSize,      \* bound: lines of a script and things of its page together
          MaxLoopLines, \* the same bounds for scripts made of jumps
          MaxLoopSize,
          MaxPrinted    \* bound: texts printed, for loops that only print

ASSUME BoundsAssumption == /\ CFGLINES \in Nat \ {0}
                           /\ {MaxThings, MaxSize, MaxLoopLines, MaxLoopSize, MaxPrinted} \subseteq Nat
                           /\ MaxLines \in Nat \ {0}
                           /\ Names \cap {"", "text"} = {}

Things == [tag : BOOLEAN, text : Names]
Empty == [tag |-> FALSE, text |-> ""]
Pages == LET ps == BoundedSeq(Things, MaxThings)
         IN  {p \in ps : p # <<>>} \cup {Append(p, Empty) : p \in ps}

Reading == {"searchfortag", "printuntiltag", "searchforstring", "printuntilstring"}
Line(c, d) == [cmd |-> c, data |-> d]
Lines == [cmd : Reading \cup {"label", "loopuntileof"}, data : Names]
         \cup {Line("print", "text"), Line("printattribute", "text"),
               Line("end", ""), Line("invalid", "")}
NOCMD == Line("nocmd", "")

\* The lines of longer scripts, which only jump and read.
LoopLines == [cmd : {"label", "loopuntileof"}, data : Names]
             \cup [cmd : {"printuntiltag"}, data : {CHOOSE n \in Names : TRUE}]
VARIABLES
    file,               \* the script's lines, and whether a newline ends the last
    cfg,                \* cfgcmd and cfgdata
    currline,
    src, pos,           \* the page, and how many of its things were read
    lastthing, enddetected,
    out,                \* what was printed
    state,              \* "readcfg", "running", "finished", or "invalid": exit(1)
    from                \* history: pos and out when the command began

vars == <<file, cfg, currline, src, pos, lastthing, enddetected, out, state, from>>

Init == /\ src \in Pages
        /\ \E newline \in BOOLEAN :
              \/ \E lines \in BoundedSeq(Lines, MaxLines) \ {<<>>} :
                    /\ Len(lines) + Len(src) <= MaxSize
                    /\ file = [lines |-> lines, newline |-> newline]
              \/ \E lines \in BoundedSeq(LoopLines, MaxLoopLines) \ {<<>>} :
                    /\ Len(lines) + Len(src) <= MaxLoopSize
                    /\ file = [lines |-> lines, newline |-> newline]
        /\ cfg = [l \in 0 .. CFGLINES - 1 |-> NOCMD]
        /\ currline = 0 /\ pos = 0 /\ lastthing = Empty /\ enddetected = FALSE
        /\ out = <<>> /\ state = "readcfg"
        /\ from = [pos |-> 0, out |-> <<>>]

(***************************************************************************)
(* readcfg.  feof is not yet true after a last line that a newline ends:   *)
(* fgets fails, and buf, in which the command was cut off from its data,   *)
(* is taken for one more line.                                             *)
(***************************************************************************)
Again(l) == IF l.cmd = "label" THEN l ELSE Line(l.cmd, "")
LinesRead == IF file.newline THEN Append(file.lines, Again(Last(file.lines)))
             ELSE file.lines
Table == [l \in 0 .. CFGLINES - 1 |-> IF l < Len(LinesRead) THEN LinesRead[l + 1] ELSE NOCMD]

readcfg == /\ state = "readcfg"
           /\ \A l \in DOMAIN Table : Table[l].cmd # "invalid"
           /\ cfg' = Table /\ currline' = 0 /\ state' = "running"
           /\ UNCHANGED <<file, src, pos, lastthing, enddetected, out, from>>

readcfgFails == /\ state = "readcfg"
                /\ \E l \in DOMAIN Table : Table[l].cmd = "invalid"
                /\ state' = "invalid"
                /\ UNCHANGED <<file, cfg, currline, src, pos, lastthing, enddetected, out, from>>

(***************************************************************************)
(* The commands.  main leaves its loop once the end was detected.          *)
(***************************************************************************)
getcommand == IF currline >= CFGLINES - 1 THEN "end" ELSE cfg[currline].cmd
getdata == cfg[currline].data

Command(c) == state = "running" /\ getcommand = c

\* What every command leaves alone, and what the next one starts from.
Proceed == /\ from' = IF currline' = currline THEN from ELSE [pos |-> pos', out |-> out']
           /\ state' = IF enddetected' THEN "finished" ELSE state
           /\ UNCHANGED <<file, cfg, src>>

nextline == currline' = IF currline < CFGLINES THEN currline + 1 ELSE currline

\* A slip: the end is reported with the last thing, not after it.
getthingEarly == IF pos + 1 >= Len(src)
                 THEN enddetected' = TRUE /\ lastthing' = Empty /\ pos' = Len(src)
                 ELSE enddetected' = FALSE /\ lastthing' = src[pos + 1] /\ pos' = pos + 1

getthing == IF pos = Len(src)
            THEN enddetected' = TRUE /\ lastthing' = Empty /\ pos' = pos
            ELSE enddetected' = FALSE /\ lastthing' = src[pos + 1] /\ pos' = pos + 1

Emit(text) == out' = IF text = "" THEN out ELSE Append(out, text)

\* A pass of a command's loop: the command ends when stop holds or the page ends.
Until(stop) == IF stop \/ enddetected' THEN nextline ELSE currline' = currline

TagFound == lastthing'.tag /\ lastthing'.text = getdata

NoCmd == /\ Command("label") \/ Command("nocmd")
         /\ nextline
         /\ UNCHANGED <<pos, lastthing, enddetected, out>> /\ Proceed

SearchForTag == /\ Command("searchfortag")
                /\ getthing
                /\ Until(TagFound)
                /\ UNCHANGED out /\ Proceed

PrintUntilTag == /\ Command("printuntiltag")
                 /\ getthing
                 /\ IF lastthing'.tag THEN UNCHANGED out ELSE Emit(lastthing'.text)
                 /\ Until(TagFound)
                 /\ Proceed

\* The attribute of the last thing, the tag a search or a print ended at; the
\* tag's text stands for it.
PrintAttribute == /\ Command("printattribute") /\ Len(out) < MaxPrinted
                  /\ IF lastthing.tag THEN Emit(lastthing.text) ELSE UNCHANGED out
                  /\ nextline
                  /\ UNCHANGED <<pos, lastthing, enddetected>> /\ Proceed

PrintString == /\ Command("print") /\ Len(out) < MaxPrinted
               /\ Emit(getdata)
               /\ nextline
               /\ UNCHANGED <<pos, lastthing, enddetected>> /\ Proceed

\* The loop goes on while the string is found: the comparison is the wrong way round.
SearchForStr == /\ Command("searchforstring")
                /\ getthing
                /\ Until(lastthing'.text # getdata)
                /\ UNCHANGED out /\ Proceed

\* A tag is compared and printed by its name.
PrintUntilStr == /\ Command("printuntilstring")
                 /\ getthing
                 /\ IF enddetected' \/ lastthing'.text = getdata THEN UNCHANGED out
                    ELSE Emit(lastthing'.text)
                 /\ Until(lastthing'.text = getdata)
                 /\ Proceed

\* Lines that hold the label; gotoline goes to the line after the first one.
LabelsOf(table, d) == {l \in DOMAIN table : table[l] = Line("label", d)}
First(S) == CHOOSE l \in S : \A m \in S : l <= m

\* A slip: a label that is not there leaves the line as it is.
gotolineStays == currline' = IF LabelsOf(cfg, getdata) = {} THEN currline
                             ELSE First(LabelsOf(cfg, getdata)) + 1

gotoline == currline' = IF LabelsOf(cfg, getdata) = {} THEN CFGLINES - 1
                        ELSE First(LabelsOf(cfg, getdata)) + 1

\* main only comes here while the end was not detected.
LoopUntilEof == /\ Command("loopuntileof")
                /\ IF ~enddetected THEN gotoline ELSE nextline
                /\ UNCHANGED <<pos, lastthing, enddetected, out>> /\ Proceed

End == /\ Command("end")
       /\ state' = "finished"
       /\ UNCHANGED <<file, cfg, currline, src, pos, lastthing, enddetected, out, from>>

Next == \/ readcfg \/ readcfgFails \/ NoCmd
        \/ SearchForTag \/ PrintUntilTag \/ SearchForStr \/ PrintUntilStr
        \/ PrintAttribute \/ PrintString \/ LoopUntilEof \/ End

Spec == Init /\ [][Next]_vars /\ WF_vars(Next)

(***************************************************************************)
(* Properties.                                                             *)
(***************************************************************************)
(***************************************************************************)
(* What readme.txt says of searchfortag, printuntiltag and                 *)
(* printuntilstring, of the script's own line: the command ends at the     *)
(* first place after where it began that holds what the line names, or     *)
(* with the page, and has printed the words of all it passed, each once    *)
(* and in order, the last word of a page without a final newline included. *)
(* The extra line readcfg makes of the last one is not one of the script's *)
(* and is not judged; searchforstring has a property of its own.           *)
(* readme.txt:61-86 shows an output without "data on the next line", which *)
(* the code prints, as this text ("all of the text") says it should.       *)
(***************************************************************************)
Told == file.lines[currline + 1]
Passed(stop(_)) == LET found == {i \in from.pos + 1 .. Len(src) : stop(src[i])}
                   IN  IF found = {} THEN Len(src) ELSE First(found)
Texts(to, printed(_)) ==
    LET kept == SelectSeq(SubSeq(src, from.pos + 1, to), printed)
    IN  [i \in DOMAIN kept |-> kept[i].text]

TagCommandDone == LET stop(t) == t = [tag |-> TRUE, text |-> Told.data]
                      word(t) == ~t.tag /\ t # Empty
                  IN  /\ pos' = Passed(stop)
                      /\ out' = from.out \o (IF Told.cmd = "printuntiltag"
                                             THEN Texts(pos', word) ELSE <<>>)

StrCommandDone == LET stop(t) == t.text = Told.data
                      thing(t) == ~stop(t) /\ t # Empty
                  IN  /\ pos' = Passed(stop)
                      /\ out' = from.out \o Texts(pos', thing)

CommandsAsDocumented ==
    [][state = "running" /\ currline' # currline /\ currline < Len(file.lines) =>
         /\ Told.cmd \in {"searchfortag", "printuntiltag"} => TagCommandDone
         /\ Told.cmd = "printuntilstring" => StrCommandDone]_vars

(***************************************************************************)
(* readme.txt:28-30, searchforstring: "This searches for the specified     *)
(* string".  The command's loop goes on while the string is found.         *)
(***************************************************************************)
SearchAsDocumented ==
    [][Command("searchforstring") /\ currline' # currline =>
         LET stop(t) == t.text = getdata IN pos' = Passed(stop)]_vars

(***************************************************************************)
(* A script that cannot go round without reading ends, on every page: with *)
(* the page, at the end of the table, or where a label is not there.  It   *)
(* cannot go round when every set of lines it could stay in has a line     *)
(* that reads, or the command end.                                         *)
(***************************************************************************)
After(l) == IF Table[l].cmd # "loopuntileof" THEN l + 1
            ELSE LET at == LabelsOf(Table, Table[l].data)
                 IN  IF at = {} THEN CFGLINES - 1 ELSE First(at) + 1
LoopsRead == \A S \in SUBSET (0 .. CFGLINES - 2) \ {{}} :
                (\A l \in S : After(l) \in S)
                    => \E l \in S : Table[l].cmd \in Reading \cup {"end"}
Terminates == state = "readcfg" /\ LoopsRead ~> state \in {"finished", "invalid"}
=============================================================================
