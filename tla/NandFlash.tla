----------------------------- MODULE NandFlash -----------------------------
(***************************************************************************)
(* sharpflash: writing, reading and checking the NAND flash of a radio     *)
(* through JTAG (k9fxx08.c).  One process runs at a time, but it runs for  *)
(* hours, erases and programs can fail, it can be interrupted between any  *)
(* two of them, and what it did stays on the flash for the next run.       *)
(*                                                                         *)
(* A page holds the number of a page of the file, or one of the contents   *)
(* below.  mark[b] has the pages of b whose spare byte 5 is not 0xFF.  The *)
(* pages of the file are not marked: it is in nanddump format, made from   *)
(* good blocks.  A failed fopen ends the command before it does anything   *)
(* and is left out.                                                        *)
(***************************************************************************)
EXTENDS Integers, Sequences, FiniteSets

CONSTANTS
    DeviceBlocks,   \* blocks of the chip
    AddrBlocks,     \* blocks the address cycles tell apart (1024)
    Pages,          \* pages of a block (32)
    FilePages,      \* pages of the file to write
    Lengths,        \* lengths asked for, in blocks
    MaxBlock,       \* bound: the counter block
    MaxFails        \* bound: erases and programs that fail

ASSUME SizeAssumption == /\ AddrBlocks \in Nat \ {0} /\ DeviceBlocks \in Nat
                         /\ AddrBlocks <= DeviceBlocks
ASSUME PagesAssumption == Pages \in Nat \ {0, 1}
ASSUME FileAssumption == FilePages \in Nat /\ Lengths \subseteq Nat
ASSUME BoundAssumption == MaxBlock \in Nat /\ MaxFails \in Nat

VARIABLES
    data,           \* contents of the pages
    mark,           \* pages whose bad block byte is set
    mode,           \* what the process does; "erase" and "program" are -w
    source,         \* sourceBlock
    numBlocks,
    block,
    blockcount,
    fpos,           \* blocks read from the file
    page,           \* i, the page to program
    blockwriteerror,
    out,            \* -r: the blocks written to the destination file
    bad,            \* -b: the blocks shown as bad
    fails,          \* erases and programs that failed so far
    lost,           \* history: blocks of this run with a failed program
    unmarked        \* history: blocks that this run failed to mark

flash == <<data, mark>>
vars == <<data, mark, mode, source, numBlocks, block, blockcount, fpos, page,
          blockwriteerror, out, bad, fails, lost, unmarked>>

Device == 0 .. DeviceBlocks - 1
PageNums == 0 .. Pages - 1

Zero == -1          \* all bytes 0, the spare area too
Erased == -2        \* all bytes 0xFF
Unknown == -3       \* from before, or from a failed erase or program
LeftOut == -4       \* not a content: a page -r does not write to its file
Contents == -3 .. FilePages - 1

\* Page i of the src buffer after the k-th fread: what the file does not
\* have is left as memset made it.
FilePage(k, i) == IF k * Pages + i < FilePages THEN k * Pages + i ELSE Zero

\* The address cycles carry 15 bits of block<<5: higher bits are lost.
Phys(b) == b % AddrBlocks

\* NF_IsBadBlock looks at the first two pages.
IsBadBlock(b) == mark[b] \cap {0, 1} # {}
----------------------------------------------------------------------------
\* The factory marks a bad block in its first or its second page.
Init == /\ data = [b \in Device |-> [i \in PageNums |-> Unknown]]
        /\ mark \in [Device -> {{}, {0}, {1}}]
        /\ mode = "idle"
        /\ source = 0 /\ numBlocks = 0 /\ block = 0 /\ blockcount = 0
        /\ fpos = 0 /\ page = 0 /\ blockwriteerror = 0
        /\ out = <<>> /\ bad = {} /\ fails = 0 /\ lost = 0 /\ unmarked = {}

\* main: a command is started; start and length are multiples of a block.
Start(command, start, len) ==
    /\ mode = "idle"
    /\ mode' = command
    /\ source' = start /\ block' = start /\ numBlocks' = len
    /\ blockcount' = 0 /\ fpos' = 0 /\ page' = 0 /\ blockwriteerror' = 0
    /\ out' = <<>> /\ bad' = {} /\ lost' = 0 /\ unmarked' = {}
    /\ UNCHANGED <<flash, fails>>

\* The process ends and its variables with it; the flash keeps its contents.
Exit == /\ mode' = "idle"
        /\ source' = 0 /\ numBlocks' = 0 /\ block' = 0 /\ blockcount' = 0
        /\ fpos' = 0 /\ page' = 0 /\ blockwriteerror' = 0
        /\ out' = <<>> /\ bad' = {} /\ lost' = 0 /\ unmarked' = {}
        /\ UNCHANGED <<flash, fails>>

\* The user, or a cable, ends the process.
Interrupt == mode # "idle" /\ Exit

Finish(command) == mode = command /\ blockcount >= numBlocks /\ Exit
----------------------------------------------------------------------------
(***************************************************************************)
(* K9Fxx08_write: NF_EraseBlock of the next block, then its pages.         *)
(***************************************************************************)
AtErase == mode = "erase" /\ blockcount < numBlocks /\ block < MaxBlock

\* A slip: only the mark of the first page is looked at.
SkipFirstPageOnly == block # 0 /\ 0 \in mark[Phys(block)]

\* A marked block is skipped, except block 0.
SkipBad == block # 0 /\ IsBadBlock(Phys(block))

\* Slips: a skipped block uses up a block of the file; it is tried again.
EraseSkipsReads ==
    /\ AtErase /\ SkipBad
    /\ block' = block + 1
    /\ fpos' = fpos + 1
    /\ UNCHANGED <<flash, mode, source, numBlocks, blockcount, page,
                   blockwriteerror, out, bad, fails, lost, unmarked>>
EraseSkipsStays == AtErase /\ SkipBad /\ UNCHANGED vars

EraseSkips ==
    /\ AtErase /\ SkipBad
    /\ block' = block + 1
    /\ UNCHANGED <<flash, mode, source, numBlocks, blockcount, fpos, page,
                   blockwriteerror, out, bad, fails, lost, unmarked>>

\* NF_MarkBadBlock programs the first page's spare area and reads the status
\* into nothing: the program may fail, and whoever calls it does not learn.
MarkBadBlock(b) ==
    \/ mark' = [mark EXCEPT ![b] = @ \cup {0}] /\ UNCHANGED unmarked
    \/ UNCHANGED mark /\ unmarked' = unmarked \cup {b}

EraseFails ==
    /\ AtErase /\ ~SkipBad
    /\ fails < MaxFails
    /\ fails' = fails + 1
    /\ data' = [data EXCEPT ![Phys(block)] = [i \in PageNums |-> Unknown]]
    /\ MarkBadBlock(Phys(block))
    /\ block' = block + 1
    /\ UNCHANGED <<mode, source, numBlocks, blockcount, fpos, page,
                   blockwriteerror, out, bad, lost>>

\* The block is erased and the next block of the file is read.
EraseDone ==
    /\ AtErase /\ ~SkipBad
    /\ data' = [data EXCEPT ![Phys(block)] = [i \in PageNums |-> Erased]]
    /\ mark' = [mark EXCEPT ![Phys(block)] = {}]
    /\ fpos' = fpos + 1
    /\ page' = 0 /\ blockwriteerror' = 0
    /\ mode' = "program"
    /\ UNCHANGED <<source, numBlocks, block, blockcount, out, bad, fails, lost, unmarked>>

\* A slip: the page loop makes a turn too many.
NextPageTooFar(error) ==
    /\ page' = page + 1
    /\ blockwriteerror' = error
    /\ UNCHANGED <<mode, block, blockcount, lost>>

\* What follows the page loop: only a block without errors is counted.
NextPage(error) ==
    IF page + 1 < Pages
    THEN /\ page' = page + 1
         /\ blockwriteerror' = error
         /\ UNCHANGED <<mode, block, blockcount, lost>>
    ELSE /\ mode' = "erase"
         /\ block' = block + 1
         /\ blockcount' = IF error = 0 THEN blockcount + 1 ELSE blockcount
         /\ lost' = IF error = 0 THEN lost ELSE lost + 1
         /\ UNCHANGED <<page, blockwriteerror>>

\* NF_WritePage programs the spare area too, with the file's byte 5.
WritePage ==
    /\ mode = "program"
    /\ data' = [data EXCEPT ![Phys(block)][page] = FilePage(fpos - 1, page)]
    /\ mark' = [mark EXCEPT ![Phys(block)] =
                   IF FilePage(fpos - 1, page) = Zero THEN @ \cup {page} ELSE @]
    /\ NextPage(blockwriteerror)
    /\ UNCHANGED <<source, numBlocks, fpos, out, bad, fails, unmarked>>

\* A slip: the block is not marked.
WritePageFailsUnmarked ==
    /\ mode = "program"
    /\ fails < MaxFails
    /\ fails' = fails + 1
    /\ data' = [data EXCEPT ![Phys(block)][page] = Unknown]
    /\ NextPage(1)
    /\ UNCHANGED <<mark, source, numBlocks, fpos, out, bad, unmarked>>

\* After a failed program the block is to be marked; the other pages follow.
WritePageFails ==
    /\ mode = "program"
    /\ fails < MaxFails
    /\ fails' = fails + 1
    /\ data' = [data EXCEPT ![Phys(block)][page] = Unknown]
    /\ MarkBadBlock(Phys(block))
    /\ NextPage(1)
    /\ UNCHANGED <<source, numBlocks, fpos, out, bad>>
----------------------------------------------------------------------------
(***************************************************************************)
(* K9Fxx08_read: one turn of the loop reads a block, page by page; marked  *)
(* pages are left out of the destination file.  The loop's header and its  *)
(* body both step block.                                                   *)
(***************************************************************************)
ReadPages(b) == [i \in PageNums |-> IF i \in mark[b] THEN LeftOut ELSE data[b][i]]

ReadBlock ==
    /\ mode = "read"
    /\ blockcount < numBlocks
    /\ out' = Append(out, ReadPages(Phys(block)))
    /\ block' = block + 2
    /\ blockcount' = blockcount + 1
    /\ UNCHANGED <<flash, mode, source, numBlocks, fpos, page, blockwriteerror,
                   bad, fails, lost, unmarked>>

\* K9Fxx08_badcheck: Start gave it the number of blocks of the device.
CheckBlock ==
    /\ mode = "check"
    /\ blockcount < numBlocks
    /\ bad' = IF IsBadBlock(Phys(block)) THEN bad \cup {block} ELSE bad
    /\ block' = block + 1
    /\ blockcount' = blockcount + 1
    /\ UNCHANGED <<flash, mode, source, numBlocks, fpos, page, blockwriteerror,
                   out, fails, lost, unmarked>>
----------------------------------------------------------------------------
Write == EraseSkips \/ EraseFails \/ EraseDone \/ WritePage \/ WritePageFails \/ Finish("erase")

Next == \/ \E start \in Device, len \in Lengths, command \in {"erase", "read"} :
              Start(command, start, len)
        \/ Start("check", 0, DeviceBlocks)
        \/ Write
        \/ ReadBlock \/ Finish("read")
        \/ CheckBlock \/ Finish("check")
        \/ Interrupt

Spec == Init /\ [][Next]_vars

\* A command that is not interrupted goes on.
FairSpec == Spec /\ WF_vars(Write) /\ WF_vars(ReadBlock \/ Finish("read"))
                 /\ WF_vars(CheckBlock \/ Finish("check"))
----------------------------------------------------------------------------
TypeOK == /\ data \in [Device -> [PageNums -> Contents]]
          /\ mark \in [Device -> SUBSET PageNums]
          /\ mode \in {"idle", "erase", "program", "read", "check"}
          /\ source \in Nat /\ numBlocks \in Nat /\ block \in Nat
          /\ blockcount \in Nat /\ fpos \in Nat /\ page \in PageNums
          /\ blockwriteerror \in {0, 1} /\ fails \in Nat /\ lost \in Nat
          /\ unmarked \subseteq Device
          /\ out \in Seq([PageNums -> Contents \cup {LeftOut}]) /\ bad \subseteq Nat

\* Block b holds the k-th block of the file and will be read as good.
Holds(b, k) == /\ \A i \in PageNums : data[b][i] = FilePage(k, i)
               /\ mark[b] = {}

Whole(k) == \A i \in PageNums : FilePage(k, i) # Zero

Writing == mode \in {"erase", "program"}

(***************************************************************************)
(* Nothing of the file is lost on the way: while no program has failed,    *)
(* every block counted is on the flash, on a block not marked bad, however *)
(* many bad blocks were skipped and erases failed, and the file was read   *)
(* just that far.  It holds until block runs past the last address.        *)
(***************************************************************************)
NothingLost ==
    Writing /\ lost = 0 /\ block < AddrBlocks =>
        /\ fpos = blockcount + (IF mode = "program" THEN 1 ELSE 0)
        /\ \A k \in 0 .. blockcount - 1 :
              Whole(k) => \E b \in source .. block - 1 : Holds(b, k)

(***************************************************************************)
(* The boot loader reads a partition by going over it and skipping marked  *)
(* blocks: what it finds is the file in its order, with gaps at most, and  *)
(* behind its end the zeroes of the src buffer (see FilledAsDocumented).   *)
(* No page of an earlier, interrupted run remains among them.              *)
(*                                                                         *)
(* Blocks that could not be marked are left out: when NF_MarkBadBlock      *)
(* fails after an erase or a program that failed, such a block is taken    *)
(* for good, and what it holds is read as part of the file.                *)
(***************************************************************************)
FileInOrder ==
    Writing /\ block < AddrBlocks =>
        \A b, c \in (source .. block - 1) \ unmarked, i, j \in PageNums :
            /\ b * Pages + i < c * Pages + j
            /\ ~IsBadBlock(b) /\ ~IsBadBlock(c)
            => \/ data[c][j] = Zero
               \/ 0 <= data[b][i] /\ data[b][i] < data[c][j]

(***************************************************************************)
(* sharpflash.c:58: "if file is too short, NAND will be filled with 0xFF". *)
(* The src buffer is cleared with memset to 0, spare area and bad block    *)
(* byte included.                                                          *)
(***************************************************************************)
FilledAsDocumented == \A b \in Device, i \in PageNums : data[b][i] # Zero

(***************************************************************************)
(* A block once marked stays marked and is not erased again, by this run   *)
(* or a later one; block 0, which the code exempts, excepted.              *)
(***************************************************************************)
BadStaysBad == [][\A b \in Device \ {0} : IsBadBlock(b) => IsBadBlock(b)']_vars

(***************************************************************************)
(* -w comes to an end when the chip has room: as many good blocks from     *)
(* start on as are asked for, and one more for every erase or program that *)
(* may still fail.  The code itself has no upper bound on block.           *)
(***************************************************************************)
Room == Cardinality({b \in block .. AddrBlocks - 1 : ~IsBadBlock(b)})
            >= numBlocks + MaxFails - fails
WriteEnds == mode = "erase" /\ blockcount = 0 /\ Room ~> mode = "idle"
============================================================================
