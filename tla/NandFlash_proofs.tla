-------------------------- MODULE NandFlash_proofs --------------------------
(***************************************************************************)
(* Type correctness of NandFlash and the proofs that K9Fxx08_write loses   *)
(* nothing of the file while no program fails, that it keeps the file in   *)
(* order whatever fails, and that no command takes a mark off a bad block, *)
(* for flash memories and files of any size.                               *)
(***************************************************************************)
EXTENDS NandFlash, TLAPS

\* What the page loop has done so far to the block it is on.
Programming ==
    mode = "program" /\ block < AddrBlocks /\ blockwriteerror = 0 =>
        /\ \A i \in 0 .. page - 1 : data[block][i] = FilePage(fpos - 1, i)
        /\ Whole(fpos - 1) => mark[block] = {}

Inv == /\ TypeOK
       /\ Writing => source <= block
       /\ mode = "program" => fpos > 0
       /\ Programming
       /\ NothingLost

\* Below the last address the address cycles lose nothing.
LEMMA PhysBlock == \A b \in Nat : /\ Phys(b) \in Device
                                  /\ b < AddrBlocks => Phys(b) = b
  BY SizeAssumption DEF Phys, Device

\* A page of the src buffer is a page of the file or zero.
LEMMA FilePageType == ASSUME NEW k \in Nat, NEW i \in Nat
                      PROVE  FilePage(k, i) \in Contents
  <1>0. Pages \in Nat
    BY PagesAssumption
  <1>1. \A p \in Nat : k * p \in Nat
    OBVIOUS
  <1>2. PICK m \in Nat : m = k * Pages
    BY <1>0, <1>1
  <1>3. FilePage(k, i) = IF m + i < FilePages THEN m + i ELSE Zero
    BY <1>2, Zenon DEF FilePage
  <1> QED BY <1>2, <1>3, FileAssumption DEF Contents, Zero

\* Before the first command.
LEMMA TypeInit == Init => TypeOK
  BY SizeAssumption, PagesAssumption, FileAssumption
     DEF Init, TypeOK, Contents, Unknown, PageNums

\* Every step of a command keeps the types.
LEMMA TypeStep == ASSUME TypeOK, mode = "program" => fpos > 0, [Next]_vars
                  PROVE  TypeOK'
  <1> USE DEF flash
  <1>1. ASSUME NEW start \in Nat, NEW len \in Nat, NEW command \in {"erase", "read", "check"},
               Start(command, start, len)
        PROVE  TypeOK'
    BY <1>1, PagesAssumption DEF TypeOK, Start, PageNums
  <1>2. CASE Interrupt
    BY <1>2, PagesAssumption DEF TypeOK, Interrupt, Exit, PageNums
  <1>3. CASE \E command \in {"erase", "read", "check"} : Finish(command)
    BY <1>3, PagesAssumption DEF TypeOK, Finish, Exit, PageNums
  <1>4. CASE EraseSkips
    BY <1>4 DEF TypeOK, EraseSkips
  <1>a. ASSUME NEW c \in Contents, NEW b \in Device,
               data' = [data EXCEPT ![b] = [i \in PageNums |-> c]]
        PROVE  data' \in [Device -> [PageNums -> Contents]]
    BY <1>a DEF TypeOK
  <1>b. /\ Phys(block) \in Device /\ 0 \in PageNums
        /\ Unknown \in Contents /\ Erased \in Contents
    BY PhysBlock, PagesAssumption, FileAssumption
       DEF TypeOK, PageNums, Contents, Unknown, Erased
  <1>5. CASE EraseFails
    <2>1. data' \in [Device -> [PageNums -> Contents]]
      BY <1>5, <1>a, <1>b DEF EraseFails
    <2>2. mark' \in [Device -> SUBSET PageNums] /\ unmarked' \subseteq Device
      BY <1>5, <1>b DEF EraseFails, MarkBadBlock, TypeOK
    <2> QED BY <1>5, <2>1, <2>2 DEF TypeOK, EraseFails
  <1>6. CASE EraseDone
    <2>1. data' \in [Device -> [PageNums -> Contents]]
      BY <1>6, <1>a, <1>b DEF EraseDone
    <2>2. mark' \in [Device -> SUBSET PageNums]
      BY <1>6, <1>b DEF EraseDone, TypeOK
    <2> QED BY <1>6, <1>b, <2>1, <2>2 DEF TypeOK, EraseDone
  <1>7. ASSUME NEW error \in {0, 1}, NextPage(error), mode = "program"
        PROVE  /\ mode' \in {"idle", "erase", "program", "read", "check"}
               /\ page' \in PageNums /\ block' \in Nat /\ blockcount' \in Nat
               /\ blockwriteerror' \in {0, 1} /\ lost' \in Nat
    BY <1>7, PagesAssumption DEF TypeOK, NextPage, PageNums
  <1>8. CASE WritePage
    <2>1. FilePage(fpos - 1, page) \in Contents
      BY <1>8, FilePageType DEF TypeOK, WritePage, PageNums
    <2>2. blockwriteerror \in {0, 1}
      BY DEF TypeOK
    <2>3. NextPage(blockwriteerror) /\ mode = "program"
      BY <1>8 DEF WritePage
    <2>4. data' \in [Device -> [PageNums -> Contents]]
      BY <1>8, <2>1 DEF WritePage, TypeOK
    <2>5. mark' \in [Device -> SUBSET PageNums]
      BY <1>8 DEF WritePage, TypeOK
    <2> QED BY <1>7, <1>8, <2>2, <2>3, <2>4, <2>5 DEF TypeOK, WritePage
  <1>9. CASE WritePageFails
    <2>1. Unknown \in Contents /\ 0 \in PageNums
      BY FileAssumption, PagesAssumption DEF Unknown, Contents, PageNums
    <2>2. NextPage(1) /\ mode = "program"
      BY <1>9 DEF WritePageFails
    <2>3. data' \in [Device -> [PageNums -> Contents]]
      BY <1>9, <2>1 DEF WritePageFails, TypeOK
    <2>4. mark' \in [Device -> SUBSET PageNums] /\ unmarked' \subseteq Device
      BY <1>9, <1>b, <2>1 DEF WritePageFails, MarkBadBlock, TypeOK
    <2> QED BY <1>7, <1>9, <2>2, <2>3, <2>4 DEF TypeOK, WritePageFails
  <1>10. CASE ReadBlock
    <2>1. ReadPages(Phys(block)) \in [PageNums -> Contents \cup {LeftOut}]
      BY PhysBlock DEF TypeOK, ReadPages
    <2> QED BY <1>10, <2>1 DEF TypeOK, ReadBlock
  <1>11. CASE CheckBlock
    BY <1>11 DEF TypeOK, CheckBlock
  <1>12. CASE UNCHANGED vars
    BY <1>12 DEF TypeOK, vars
  <1> QED
    BY <1>1, <1>2, <1>3, <1>4, <1>5, <1>6, <1>8, <1>9, <1>10, <1>11, <1>12,
       SizeAssumption, FileAssumption DEF Next, Write, Device

\* Before the first command nothing is counted.
LEMMA InvInit == Init => Inv
  BY TypeInit DEF Init, Inv, Writing, Programming, NothingLost

(***************************************************************************)
(* A step that leaves the blocks before the current one alone keeps what   *)
(* they hold.                                                              *)
(***************************************************************************)
LEMMA Kept ==
    ASSUME Inv, NEW k \in Nat, block < AddrBlocks, source <= block,
           \A b \in source .. block - 1 : data'[b] = data[b] /\ mark'[b] = mark[b],
           \E b \in source .. block - 1 : Holds(b, k)
    PROVE  \E b \in source .. block - 1 : Holds(b, k)'
  <1>1. PICK b \in source .. block - 1 : Holds(b, k)
    OBVIOUS
  <1>2. Holds(b, k)'
    BY <1>1 DEF Holds
  <1> QED BY <1>1, <1>2

\* What a step of -w does to the flash outside its current block: nothing.
LEMMA Others ==
    ASSUME Inv, Write, block < AddrBlocks
    PROVE  \A b \in Device : b # block => data'[b] = data[b] /\ mark'[b] = mark[b]
  <1>1. Phys(block) = block /\ block \in Device
    BY PhysBlock, SizeAssumption DEF Inv, TypeOK, Device
  <1>2. CASE EraseSkips \/ Finish("erase")
    BY <1>2 DEF EraseSkips, Finish, Exit, flash
  <1>3. CASE EraseFails
    BY <1>1, <1>3 DEF EraseFails, MarkBadBlock, Inv, TypeOK
  <1>4. CASE EraseDone
    BY <1>1, <1>4 DEF EraseDone, Inv, TypeOK
  <1>5. CASE WritePage
    BY <1>1, <1>5 DEF WritePage, Inv, TypeOK
  <1>6. CASE WritePageFails
    BY <1>1, <1>6 DEF WritePageFails, MarkBadBlock, Inv, TypeOK
  <1> QED BY <1>2, <1>3, <1>4, <1>5, <1>6 DEF Write

\* The part of NothingLost about the blocks already counted.
LEMMA Counted ==
    ASSUME Inv, Write, Writing, lost = 0, block < AddrBlocks, block' \in {block, block + 1},
           NEW k \in 0 .. blockcount - 1, Whole(k)
    PROVE  \E b \in source .. block' - 1 : Holds(b, k)'
  <1>1. source \in Nat /\ block \in Nat /\ source <= block
    BY DEF Inv, TypeOK
  <1>2. \E b \in source .. block - 1 : Holds(b, k)
    BY DEF Inv, NothingLost
  <1>3. \A b \in source .. block - 1 : data'[b] = data[b] /\ mark'[b] = mark[b]
    BY <1>1, Others, SizeAssumption DEF Device
  <1>4. k \in Nat
    BY DEF Inv, TypeOK
  <1>5. \E b \in source .. block - 1 : Holds(b, k)'
    BY <1>1, <1>2, <1>3, <1>4, Kept
  <1>6. PICK b \in source .. block - 1 : Holds(b, k)'
    BY <1>5
  <1>7. PICK n \in {block, block + 1} : n = block'
    OBVIOUS
  <1>8. b \in source .. n - 1
    BY <1>1
  <1> QED BY <1>6, <1>7, <1>8

\* A step of -w but its last keeps Inv.  It is on one block, the current one.
LEMMA InvWrite == ASSUME Inv, Write, Writing' PROVE Inv'
  <1> USE DEF flash
  <1>0. /\ source \in Nat /\ block \in Nat /\ blockcount \in Nat /\ fpos \in Nat
        /\ page \in PageNums /\ lost \in Nat /\ numBlocks \in Nat
        /\ AddrBlocks \in Nat /\ Pages \in Nat
    BY SizeAssumption, PagesAssumption DEF Inv, TypeOK
  <1>1. TypeOK'
    BY TypeStep DEF Inv, Next
  <1>w. Writing /\ source <= block
    BY DEF Write, EraseSkips, EraseFails, EraseDone, WritePage, WritePageFails,
           AtErase, Finish, Exit, Writing, Inv
  <1>f. EraseSkips \/ EraseFails \/ EraseDone \/ WritePage \/ WritePageFails
    BY DEF Write, Finish, Exit, Writing
  <1>s. source' = source /\ numBlocks' = numBlocks
    BY <1>f DEF EraseSkips, EraseFails, EraseDone, WritePage, WritePageFails
  <1>b. block' \in {block, block + 1}
    BY <1>f DEF EraseSkips, EraseFails, EraseDone, WritePage, WritePageFails, NextPage
  <1>2. (Writing => source <= block)'
    BY <1>0, <1>w, <1>s, <1>b
  <1>3. (mode = "program" => fpos > 0)'
    BY <1>0, <1>f DEF EraseSkips, EraseFails, EraseDone, WritePage, WritePageFails,
                      NextPage, Inv, AtErase
  <1>p. block < AddrBlocks => Phys(block) = block /\ block \in Device
    BY <1>0, PhysBlock, SizeAssumption DEF Device
  <1>4. Programming'
    <2>1. CASE EraseSkips \/ EraseFails
      BY <2>1 DEF EraseSkips, EraseFails, AtErase, Programming
    <2>2. CASE EraseDone
      BY <2>2, <1>0, <1>p DEF EraseDone, Programming, Inv, TypeOK
    <2>3. CASE WritePage
      <3> SUFFICES ASSUME (mode = "program" /\ block < AddrBlocks /\ blockwriteerror = 0)'
                   PROVE  /\ \A i \in 0 .. page' - 1 : data'[block'][i] = FilePage(fpos' - 1, i)
                          /\ Whole(fpos' - 1) => mark'[block'] = {}
        BY DEF Programming, Whole, FilePage
      <3>1. /\ page' = page + 1 /\ blockwriteerror = 0 /\ block' = block /\ fpos' = fpos
            /\ mode = "program" /\ block < AddrBlocks
        BY <2>3, <1>0 DEF WritePage, NextPage
      <3>2. data' = [data EXCEPT ![block][page] = FilePage(fpos - 1, page)]
        BY <2>3, <1>p, <3>1 DEF WritePage
      <3>3. \A i \in 0 .. page - 1 : data[block][i] = FilePage(fpos - 1, i)
        BY <3>1 DEF Inv, Programming
      <3>4. \A i \in 0 .. page : data'[block][i] = FilePage(fpos - 1, i)
        BY <1>0, <1>p, <3>1, <3>2, <3>3 DEF Inv, TypeOK, PageNums
      <3>5. ASSUME Whole(fpos - 1) PROVE mark'[block] = {}
        <4>1. FilePage(fpos - 1, page) # Zero
          BY <1>0, <3>5 DEF Whole
        <4>2. mark[block] = {}
          BY <3>1, <3>5 DEF Inv, Programming
        <4> QED BY <2>3, <1>p, <3>1, <4>1, <4>2 DEF WritePage, Inv, TypeOK
      <3>6. \A i \in 0 .. (page + 1) - 1 : data'[block][i] = FilePage(fpos - 1, i)
        BY <1>0, <3>4 DEF PageNums
      <3> QED BY <3>1, <3>5, <3>6, Zenon
    <2>4. CASE WritePageFails
      BY <2>4 DEF WritePageFails, NextPage, Programming
    <2> QED BY <1>f, <2>1, <2>2, <2>3, <2>4
  <1>5. NothingLost'
    <2> SUFFICES ASSUME (Writing /\ lost = 0 /\ block < AddrBlocks)'
                 PROVE  /\ fpos' = blockcount' + (IF mode' = "program" THEN 1 ELSE 0)
                        /\ \A k \in 0 .. blockcount' - 1 :
                              Whole(k) => \E b \in source' .. block' - 1 : Holds(b, k)'
      BY DEF NothingLost, Whole, FilePage
    <2>1. lost = 0 /\ block < AddrBlocks
      BY <1>0, <1>b, <1>f DEF EraseSkips, EraseFails, EraseDone, WritePage, WritePageFails,
                              NextPage
    <2>2. fpos = blockcount + (IF mode = "program" THEN 1 ELSE 0)
      BY <1>w, <2>1 DEF Inv, NothingLost
    <2>3. fpos' = blockcount' + (IF mode' = "program" THEN 1 ELSE 0)
      <3>1. CASE EraseSkips
        BY <3>1, <2>2 DEF EraseSkips, AtErase
      <3>2. CASE EraseFails
        BY <3>2, <2>2 DEF EraseFails, AtErase
      <3>3. CASE EraseDone
        BY <3>3, <2>2, <1>0 DEF EraseDone, AtErase
      <3>4. CASE WritePage
        BY <3>4, <2>1, <2>2, <1>0 DEF WritePage, NextPage
      <3>5. CASE WritePageFails
        BY <3>5, <2>1, <2>2, <1>0 DEF WritePageFails, NextPage
      <3> QED BY <1>f, <3>1, <3>2, <3>3, <3>4, <3>5
    <2>4. ASSUME NEW k \in 0 .. blockcount - 1, Whole(k)
          PROVE  \E b \in source' .. block' - 1 : Holds(b, k)'
      BY <1>w, <1>s, <1>b, <2>1, <2>4, Counted
    <2>5. PICK n \in {blockcount, blockcount + 1} : n = blockcount'
      BY <1>f DEF EraseSkips, EraseFails, EraseDone, WritePage, WritePageFails, NextPage
    <2>6. ASSUME n # blockcount, NEW k \in Nat, k = blockcount, Whole(k)
          PROVE  \E b \in source' .. block' - 1 : Holds(b, k)'
      <3>1. WritePage /\ page + 1 = Pages /\ blockwriteerror = 0
        BY <1>0, <2>1, <2>5, <2>6
           DEF Write, EraseSkips, EraseFails, EraseDone, WritePage, WritePageFails,
               Finish, Exit, NextPage, PageNums, Inv, TypeOK
      <3>2. block' = block + 1 /\ mode = "program"
        BY <3>1, <1>0 DEF WritePage, NextPage
      <3>3. k = fpos - 1
        BY <1>0, <2>2, <2>6, <3>2
      <3>4. \A i \in 0 .. page - 1 : data[block][i] = FilePage(k, i)
        BY <2>1, <3>1, <3>2, <3>3 DEF Inv, Programming
      <3>5. mark[block] = {}
        BY <2>1, <2>6, <3>1, <3>2, <3>3 DEF Inv, Programming
      <3>6. data' = [data EXCEPT ![block][page] = FilePage(k, page)]
        BY <3>1, <3>3, <2>1, <1>p DEF WritePage
      <3>7. \A i \in 0 .. page : data'[block][i] = FilePage(k, i)
        BY <1>0, <1>p, <2>1, <3>4, <3>6 DEF Inv, TypeOK, PageNums
      <3>8. mark'[block] = {}
        <4>1. FilePage(fpos - 1, page) # Zero
          BY <1>0, <2>6, <3>3 DEF Whole
        <4> QED BY <3>1, <3>5, <1>p, <2>1, <4>1 DEF WritePage, Inv, TypeOK
      <3>9. \A i \in PageNums : data'[block][i] = FilePage(k, i)
        BY <1>0, <3>1, <3>7 DEF PageNums
      <3>10. PICK c \in source .. (block + 1) - 1 : c = block
        BY <1>0, <1>w
      <3>11. Holds(c, k)'
        BY <3>8, <3>9, <3>10 DEF Holds
      <3> QED BY <1>s, <3>2, <3>10, <3>11, Zenon
    <2>7. ASSUME NEW k \in 0 .. n - 1, Whole(k)
          PROVE  \E b \in source' .. block' - 1 : Holds(b, k)'
      <3>1. CASE n = blockcount
        <4>1. k \in 0 .. blockcount - 1
          BY <3>1
        <4> QED BY <4>1, <2>4, <2>7
      <3>2. CASE n # blockcount
        <4>1. n = blockcount + 1
          BY <3>2
        <4>2. k \in Nat /\ (k \in 0 .. blockcount - 1 \/ k = blockcount)
          BY <1>0, <4>1
        <4> QED BY <2>4, <2>6, <2>7, <3>2, <4>2
      <3> QED BY <3>1, <3>2
    <2> QED BY <2>3, <2>5, <2>7, Zenon
  <1> QED BY <1>1, <1>2, <1>3, <1>4, <1>5 DEF Inv

\* The other commands leave the flash alone; a command starts with nothing counted.
LEMMA InvStep == ASSUME Inv, [Next]_vars PROVE Inv'
  <1> USE DEF flash
  <1>0. TypeOK'
    BY TypeStep DEF Inv
  <1>1. CASE Write /\ Writing'
    BY <1>1, InvWrite
  <1>2. ASSUME NEW start \in Nat, NEW len \in Nat, NEW command \in {"erase", "read", "check"},
               Start(command, start, len)
        PROVE  Inv'
    BY <1>0, <1>2 DEF Start, Inv, Writing, Programming, NothingLost
  <1>3. CASE ~Writing'
    BY <1>0, <1>3 DEF Inv, Writing, Programming, NothingLost
  <1>4. CASE UNCHANGED vars
    BY <1>4 DEF vars, Inv, TypeOK, Writing, Programming, NothingLost, Holds, Whole, FilePage
  <1>5. Interrupt \/ ReadBlock \/ CheckBlock \/ Finish("read") \/ Finish("check") => ~Writing'
    BY DEF Interrupt, Finish, Exit, ReadBlock, CheckBlock, Writing
  <1> QED
    BY <1>1, <1>2, <1>3, <1>4, <1>5, SizeAssumption, FileAssumption DEF Next, Device

\* The invariant always holds.
LEMMA Invariance == Spec => []Inv
  BY InvInit, InvStep, PTL DEF Spec

(***************************************************************************)
(* For every chip, file and length: K9Fxx08_write keeps its state within   *)
(* the flash and the file.                                                 *)
(***************************************************************************)
THEOREM TypeCorrect == Spec => []TypeOK
  <1>1. Inv => TypeOK
    BY DEF Inv
  <1> QED BY <1>1, Invariance, PTL

(***************************************************************************)
(* For every chip, file and length, whatever blocks are bad and whatever   *)
(* erases fail: K9Fxx08_write has put every file block it counted on a     *)
(* good block, while no program failed and block has not run past the last *)
(* address.                                                                *)
(***************************************************************************)
THEOREM WriteLosesNothing == Spec => []NothingLost
  <1>1. Inv => NothingLost
    BY DEF Inv
  <1> QED BY <1>1, Invariance, PTL

(***************************************************************************)
(* A block marked bad stays marked, whatever step of whatever command is   *)
(* next: only NF_EraseBlock clears a mark, and K9Fxx08_write has looked at *)
(* the marks of the block before; block 0 is the exception.                *)
(***************************************************************************)
LEMMA BadStep ==
    ASSUME TypeOK, [Next]_vars, NEW b \in Device \ {0}, IsBadBlock(b)
    PROVE  IsBadBlock(b)'
  <1> USE DEF flash, IsBadBlock
  <1>0. /\ block \in Nat /\ Phys(block) \in Device /\ mark \in [Device -> SUBSET PageNums]
        /\ block = 0 => Phys(block) = 0
    BY PhysBlock, SizeAssumption DEF TypeOK
  <1>1. CASE mark' = mark
    BY <1>1
  <1>2. CASE EraseFails
    BY <1>0, <1>2 DEF EraseFails, MarkBadBlock
  <1>3. CASE EraseDone
    BY <1>0, <1>3 DEF EraseDone, SkipBad
  <1>4. CASE WritePage
    BY <1>0, <1>4 DEF WritePage
  <1>5. CASE WritePageFails
    BY <1>0, <1>5 DEF WritePageFails, MarkBadBlock
  <1> QED
    BY <1>1, <1>2, <1>3, <1>4, <1>5
       DEF Next, Start, Write, EraseSkips, Finish, Interrupt, Exit, ReadBlock, CheckBlock, vars

(***************************************************************************)
(* For every chip: no command, and no sequence of interrupted commands,    *)
(* makes a bad block other than block 0 look good again.                   *)
(***************************************************************************)
THEOREM MarksAreKept == Spec => BadStaysBad
  <1>1. TypeOK /\ [Next]_vars => [\A b \in Device \ {0} : IsBadBlock(b) => IsBadBlock(b)']_vars
    BY BadStep
  <1> QED BY <1>1, TypeCorrect, PTL DEF Spec, BadStaysBad
----------------------------------------------------------------------------
(***************************************************************************)
(* The order of the file on the flash.  Block b is a copy of the k-th      *)
(* block of the file, of which something was left to read.                 *)
(***************************************************************************)
Copied(b, k) == /\ FilePage(k, 0) # Zero
                /\ \A i \in PageNums : data[b][i] = FilePage(k, i)

\* Blocks of the file that the flash before the current block may hold.
Committed == IF mode = "program" THEN fpos - 1 ELSE fpos

\* Why the current block will not be taken for good when it is no copy, unless
\* NF_MarkBadBlock failed on it.
Spoilt == 0 \in mark[block] \/ block \in unmarked
Marking ==
    mode = "program" /\ block < AddrBlocks =>
        /\ blockwriteerror = 1 => Spoilt
        /\ page > 0 /\ FilePage(fpos - 1, 0) = Zero => Spoilt

\* The good blocks behind are copies of ever later blocks of the file.
Ordered ==
    Writing /\ block < AddrBlocks =>
        \A b \in (source .. block - 1) \ unmarked : ~IsBadBlock(b) =>
            \E k \in 0 .. Committed - 1 :
                /\ Copied(b, k)
                /\ \A c \in (source .. b - 1) \ unmarked : ~IsBadBlock(c) =>
                      \E l \in 0 .. k - 1 : Copied(c, l)

\* The pages of a block come before those of a later one.
LEMMA Multiples ==
    ASSUME NEW k \in Nat, NEW l \in Nat, NEW p \in Nat, k < l
    PROVE  k * p + p <= l * p
  <1>1. PICK m \in Nat : l = k + 1 + m
    <2>1. l - (k + 1) \in Nat /\ l = k + 1 + (l - (k + 1))
      OBVIOUS
    <2> QED BY <2>1
  <1>2. (k + 1 + m) * p = k * p + p + m * p /\ m * p \in Nat /\ k * p \in Nat
    OBVIOUS
  <1> QED BY <1>1, <1>2

\* Pages of the src buffer, from one fread to the next and within one.
LEMMA PageOrder ==
    ASSUME NEW k \in Nat, NEW l \in Nat, NEW i \in PageNums, NEW j \in PageNums,
           k < l \/ (k = l /\ i < j)
    PROVE  \/ FilePage(l, j) = Zero
           \/ 0 <= FilePage(k, i) /\ FilePage(k, i) < FilePage(l, j)
  <1>0. Pages \in Nat /\ FilePages \in Nat /\ i \in 0 .. Pages - 1 /\ j \in 0 .. Pages - 1
    BY PagesAssumption, FileAssumption DEF PageNums
  <1>1. \A p \in Nat : k * p \in Nat /\ l * p \in Nat
    OBVIOUS
  <1>2. k < l => k * Pages + Pages <= l * Pages
    BY <1>0, Multiples
  <1>3. PICK x \in Nat : x = k * Pages
    BY <1>0, <1>1
  <1>4. PICK y \in Nat : y = l * Pages
    BY <1>0, <1>1
  <1>5. x + i < y + j
    <2>1. k < l => x + Pages <= y
      BY <1>0, <1>2, <1>3, <1>4
    <2>2. k = l => x = y
      BY <1>3, <1>4
    <2> QED BY <1>0, <2>1, <2>2
  <1>6. /\ FilePage(k, i) = IF x + i < FilePages THEN x + i ELSE Zero
        /\ FilePage(l, j) = IF y + j < FilePages THEN y + j ELSE Zero
    BY <1>3, <1>4, Zenon DEF FilePage
  <1>7. x \in Nat /\ y \in Nat
    BY <1>3, <1>4
  <1>8. CASE y + j < FilePages
    <2>1. x + i < FilePages
      BY <1>0, <1>5, <1>7, <1>8
    <2>2. FilePage(l, j) = y + j /\ FilePage(k, i) = x + i
      BY <1>6, <1>8, <2>1, Zenon
    <2> QED BY <1>0, <1>5, <1>7, <2>2
  <1> QED BY <1>6, <1>8

\* What Ordered says of the flash is what the boot loader relies on.
LEMMA OrderedReads == Inv /\ Ordered => FileInOrder
  <1> SUFFICES ASSUME Inv, Ordered, Writing, block < AddrBlocks,
                      NEW b \in (source .. block - 1) \ unmarked,
                      NEW c \in (source .. block - 1) \ unmarked,
                      NEW i \in PageNums, NEW j \in PageNums,
                      b * Pages + i < c * Pages + j,
                      ~IsBadBlock(b), ~IsBadBlock(c)
               PROVE  \/ data[c][j] = Zero
                      \/ 0 <= data[b][i] /\ data[b][i] < data[c][j]
    BY DEF FileInOrder
  <1>0. /\ b \in Nat /\ c \in Nat /\ source \in Nat /\ Committed \in Int
        /\ Pages \in Nat /\ i \in 0 .. Pages - 1 /\ j \in 0 .. Pages - 1
    BY PagesAssumption DEF Inv, TypeOK, PageNums, Committed
  <1>1. b < c \/ (b = c /\ i < j)
    <2>1. ASSUME c < b PROVE FALSE
      <3>1. c * Pages + Pages <= b * Pages /\ b * Pages \in Nat /\ c * Pages \in Nat
        BY <1>0, <2>1, Multiples
      <3>2. PICK x \in Nat, y \in Nat : x = b * Pages /\ y = c * Pages /\ y + Pages <= x
        BY <1>0, <3>1
      <3>3. x + i < y + j
        BY <3>2
      <3> QED BY <1>0, <3>2, <3>3
    <2>2. ASSUME b = c PROVE i < j
      <3>1. PICK x \in Nat : x = b * Pages
        BY <1>0
      <3>2. x + i < x + j
        BY <2>2, <3>1
      <3> QED BY <1>0, <3>1, <3>2
    <2>3. b < c \/ b = c \/ c < b
      BY <1>0
    <2> QED BY <2>1, <2>2, <2>3, Zenon
  <1>2. PICK k \in 0 .. Committed - 1 :
               /\ Copied(c, k)
               /\ \A d \in (source .. c - 1) \ unmarked : ~IsBadBlock(d) =>
                     \E l \in 0 .. k - 1 : Copied(d, l)
    BY DEF Ordered
  <1>3. \E l \in Nat : Copied(b, l) /\ (l < k \/ (l = k /\ i < j))
    <2>1. CASE b < c
      <3>1. b \in (source .. c - 1) \ unmarked
        BY <1>0, <2>1
      <3>2. PICK l \in 0 .. k - 1 : Copied(b, l)
        BY <1>2, <3>1
      <3>3. k \in Nat /\ l \in Nat /\ l < k
        BY <1>0, <1>2, <3>2
      <3> QED BY <3>2, <3>3
    <2>2. CASE b = c /\ i < j
      BY <1>0, <1>2, <2>2
    <2> QED BY <1>1, <2>1, <2>2
  <1>4. PICK l \in Nat : Copied(b, l) /\ (l < k \/ (l = k /\ i < j))
    BY <1>3
  <1>5. data[b][i] = FilePage(l, i) /\ data[c][j] = FilePage(k, j)
    BY <1>2, <1>4 DEF Copied
  <1>6. k \in Nat
    BY <1>0, <1>2
  <1> QED BY <1>4, <1>5, <1>6, PageOrder

\* What a page loop that came to its end leaves: a copy, or a marked block.
LEMMA LastPage ==
    ASSUME Inv, Marking, block < AddrBlocks, WritePage \/ WritePageFails,
           block' # block, NEW b, b = block, NEW k, k = fpos - 1, ~IsBadBlock(b)',
           b \notin unmarked'
    PROVE  Copied(b, k)'
  <1>0. /\ block \in Nat /\ fpos \in Nat /\ fpos > 0 /\ page \in 0 .. Pages - 1
        /\ Pages \in Nat /\ Phys(block) = block /\ block \in Device
        /\ mark \in [Device -> SUBSET PageNums] /\ mode = "program"
        /\ data \in [Device -> [PageNums -> Contents]]
    <2>1. mode = "program" /\ block \in Nat /\ block \in 0 .. DeviceBlocks - 1
      BY SizeAssumption DEF Inv, TypeOK, WritePage, WritePageFails
    <2>2. Phys(block) = block
      BY <2>1, PhysBlock
    <2> QED BY <2>1, <2>2, PagesAssumption DEF Inv, TypeOK, PageNums, Device
  <1>p. 0 \in PageNums
    BY PagesAssumption DEF PageNums
  <1>1. 0 \notin mark'[block]
    BY DEF IsBadBlock
  <1>2. WritePage
    BY <1>0, <1>p, <1>1 DEF WritePageFails, MarkBadBlock
  <1>3. page + 1 = Pages /\ fpos' = fpos
    BY <1>0, <1>2 DEF WritePage, NextPage
  <1>4. /\ data' = [data EXCEPT ![block][page] = FilePage(fpos - 1, page)]
        /\ mark' = [mark EXCEPT ![block] =
                       IF FilePage(fpos - 1, page) = Zero THEN @ \cup {page} ELSE @]
    BY <1>0, <1>2 DEF WritePage
  <1>5. ~Spoilt
    BY <1>0, <1>1, <1>2, <1>4 DEF WritePage, Spoilt
  <1>6. blockwriteerror = 0
    BY <1>0, <1>5 DEF Inv, TypeOK, Marking
  <1>7. FilePage(fpos - 1, 0) # Zero
    BY <1>0, <1>3, <1>5, PagesAssumption DEF Marking
  <1>8. \A i \in 0 .. page - 1 : data[block][i] = FilePage(fpos - 1, i)
    BY <1>0, <1>6 DEF Inv, Programming
  <1>9. \A i \in PageNums : data'[block][i] = FilePage(fpos - 1, i)
    BY <1>0, <1>3, <1>4, <1>8 DEF PageNums
  <1> QED BY <1>7, <1>9 DEF Copied, FilePage

\* A step of -w keeps the marks of the block in hand as Marking says.
LEMMA MarkingWrite == ASSUME Inv, Marking, Write PROVE Marking'
  <1>0. /\ block \in Nat /\ fpos \in Nat /\ page \in 0 .. Pages - 1
        /\ mark \in [Device -> SUBSET PageNums] /\ Pages \in Nat
        /\ block < AddrBlocks => Phys(block) = block /\ block \in Device
    BY PhysBlock, SizeAssumption, PagesAssumption DEF Inv, TypeOK, PageNums, Device
  <1>1. CASE EraseSkips \/ EraseFails \/ Finish("erase")
    BY <1>1 DEF EraseSkips, EraseFails, Finish, Exit, AtErase, Marking
  <1>2. CASE EraseDone
    BY <1>2 DEF EraseDone, Marking
  <1>3. CASE WritePage \/ WritePageFails
    <2> SUFFICES ASSUME mode' = "program", block' < AddrBlocks
                 PROVE  /\ blockwriteerror' = 1 => Spoilt'
                        /\ page' > 0 /\ FilePage(fpos' - 1, 0) = Zero => Spoilt'
      BY DEF Marking, FilePage
    <2>1. /\ mode = "program" /\ block' = block /\ fpos' = fpos /\ page' = page + 1
          /\ block < AddrBlocks
      BY <1>0, <1>3 DEF WritePage, WritePageFails, NextPage
    <2>2. CASE WritePage
      <3>1. /\ blockwriteerror' = blockwriteerror /\ unmarked' = unmarked
            /\ mark' = [mark EXCEPT ![block] =
                           IF FilePage(fpos - 1, page) = Zero THEN @ \cup {page} ELSE @]
        BY <1>0, <2>1, <2>2 DEF WritePage, NextPage
      <3>2. Spoilt => Spoilt'
        BY <1>0, <2>1, <3>1 DEF Spoilt
      <3>3. ASSUME FilePage(fpos - 1, 0) = Zero PROVE Spoilt'
        <4>1. CASE page = 0
          BY <1>0, <2>1, <3>1, <3>3, <4>1 DEF Spoilt
        <4>2. CASE page > 0
          BY <2>1, <3>2, <3>3, <4>2 DEF Marking
        <4> QED BY <1>0, <4>1, <4>2
      <3>4. blockwriteerror' = 1 => Spoilt'
        BY <2>1, <3>1, <3>2 DEF Marking
      <3> QED BY <2>1, <3>3, <3>4, Zenon
    <2>3. CASE WritePageFails
      BY <1>0, <2>1, <2>3 DEF WritePageFails, MarkBadBlock, Spoilt
    <2> QED BY <1>3, <2>2, <2>3
  <1> QED BY <1>1, <1>2, <1>3 DEF Write

\* A step of -w adds a copy of a later block, or a block that is skipped.
LEMMA OrderedWrite == ASSUME Inv, Marking, Ordered, Write PROVE Ordered'
  <1> SUFFICES ASSUME Writing', block' < AddrBlocks,
                      NEW b \in (source' .. block' - 1) \ unmarked', ~IsBadBlock(b)'
               PROVE  \E k \in 0 .. Committed' - 1 :
                         /\ Copied(b, k)'
                         /\ \A c \in (source' .. b - 1) \ unmarked' : ~IsBadBlock(c)' =>
                               \E l \in 0 .. k - 1 : Copied(c, l)'
    BY DEF Ordered
  <1> USE DEF flash
  <1>0. /\ source \in Nat /\ block \in Nat /\ fpos \in Nat /\ page \in 0 .. Pages - 1
        /\ Pages \in Nat /\ AddrBlocks \in Nat /\ (mode = "program" => fpos > 0)
    BY SizeAssumption, PagesAssumption DEF Inv, TypeOK, PageNums
  <1>w. Writing /\ source <= block
    BY DEF Write, EraseSkips, EraseFails, EraseDone, WritePage, WritePageFails,
           AtErase, Finish, Exit, Writing, Inv
  <1>s. source' = source
    BY DEF Write, EraseSkips, EraseFails, EraseDone, WritePage, WritePageFails, Finish, Exit
  <1>n. block' = block \/ block' = block + 1
    BY DEF Write, EraseSkips, EraseFails, EraseDone, WritePage, WritePageFails, Finish, Exit, NextPage
  <1>a. block < AddrBlocks
    BY <1>0, <1>n
  <1>p. Phys(block) = block /\ block \in Device
    BY <1>0, <1>a, PhysBlock, SizeAssumption DEF Device
  <1>m. Committed \in Nat /\ Committed' \in Nat /\ Committed <= Committed'
    <2>1. CASE EraseSkips \/ EraseFails \/ Finish("erase")
      BY <1>0, <2>1 DEF EraseSkips, EraseFails, Finish, Exit, AtErase, Committed
    <2>2. CASE EraseDone
      BY <1>0, <2>2 DEF EraseDone, AtErase, Committed
    <2>3. CASE WritePage \/ WritePageFails
      BY <1>0, <2>3 DEF WritePage, WritePageFails, NextPage, Committed
    <2> QED BY <2>1, <2>2, <2>3 DEF Write
  <1>u. unmarked \subseteq unmarked'
    BY DEF Write, EraseSkips, EraseFails, EraseDone, WritePage, WritePageFails,
           MarkBadBlock, Finish, Exit, Writing
  <1>1. \A d \in source .. block - 1 : data'[d] = data[d] /\ mark'[d] = mark[d]
    BY <1>0, <1>a, Others, SizeAssumption DEF Device
  <1>2. \A d \in source .. block - 1 : IsBadBlock(d)' = IsBadBlock(d)
    BY <1>1 DEF IsBadBlock
  <1>3. \A d \in source .. block - 1 : \A k : Copied(d, k) => Copied(d, k)'
    BY <1>1 DEF Copied, FilePage
  <1>4. CASE b < block
    <2>1. b \in (source .. block - 1) \ unmarked /\ b \in Nat
      BY <1>0, <1>4, <1>s, <1>n, <1>u
    <2>2. PICK k \in 0 .. Committed - 1 :
                 /\ Copied(b, k)
                 /\ \A c \in (source .. b - 1) \ unmarked : ~IsBadBlock(c) =>
                       \E l \in 0 .. k - 1 : Copied(c, l)
      BY <1>w, <1>a, <1>2, <2>1 DEF Ordered
    <2>3. Copied(b, k)'
      BY <1>3, <2>1, <2>2
    <2>4. ASSUME NEW c \in (source .. b - 1) \ unmarked', ~IsBadBlock(c)'
          PROVE  \E l \in 0 .. k - 1 : Copied(c, l)'
      <3>1. c \in source .. block - 1
        BY <1>0, <2>1
      <3>2. PICK l \in 0 .. k - 1 : Copied(c, l)
        BY <1>2, <1>u, <2>2, <2>4, <3>1
      <3> QED BY <1>3, <3>1, <3>2
    <2>5. k \in 0 .. Committed' - 1
      <3>1. k \in 0 .. Committed - 1
        BY <2>2, Zenon
      <3>2. PICK m \in Nat, n \in Nat : m = Committed /\ n = Committed' /\ m <= n
        BY <1>m
      <3>3. k \in 0 .. m - 1
        BY <3>1, <3>2, Zenon
      <3>4. m \in Nat /\ n \in Nat /\ m <= n
        BY <3>2
      <3>5. k \in 0 .. n - 1
        BY <3>3, <3>4
      <3> QED BY <3>2, <3>5
    <2> QED BY <1>s, <2>3, <2>4, <2>5
  <1>5. CASE ~(b < block)
    <2>1. b = block /\ block' = block + 1 /\ b \in Nat
      BY <1>0, <1>5, <1>s, <1>n
    <2>2. ASSUME EraseSkips \/ EraseFails PROVE FALSE
      <3>1. CASE EraseSkips
        BY <1>p, <2>1, <3>1 DEF EraseSkips, SkipBad, IsBadBlock
      <3>2. CASE EraseFails
        <4>1. block \notin unmarked' /\ 0 \notin mark'[block]
          BY <2>1 DEF IsBadBlock
        <4> QED BY <1>p, <3>2, <4>1 DEF EraseFails, MarkBadBlock, Inv, TypeOK
      <3> QED BY <2>2, <3>1, <3>2
    <2>3. WritePage \/ WritePageFails
      BY <1>0, <2>1, <2>2 DEF Write, EraseDone, Finish, Exit
    <2>4. mode = "program" /\ mode' = "erase" /\ fpos' = fpos
      BY <1>0, <2>1, <2>3 DEF WritePage, WritePageFails, NextPage
    <2>5. Committed = fpos - 1 /\ Committed' = fpos
      BY <2>4 DEF Committed
    <2>6. PICK k \in 0 .. Committed' - 1 : k = Committed /\ k = fpos - 1
      BY <1>0, <2>4, <2>5
    <2>7. block' # block
      BY <1>0, <2>1
    <2>8. Copied(b, k)'
      BY <1>a, <2>1, <2>3, <2>6, <2>7, LastPage
    <2>9. ASSUME NEW c \in (source .. b - 1) \ unmarked', ~IsBadBlock(c)'
          PROVE  \E l \in 0 .. k - 1 : Copied(c, l)'
      <3>1. c \in source .. block - 1
        BY <2>1
      <3>2. PICK l \in 0 .. Committed - 1 : Copied(c, l)
        BY <1>w, <1>a, <1>u, <1>2, <2>9, <3>1 DEF Ordered
      <3> QED BY <1>3, <2>6, <3>1, <3>2
    <2> QED BY <1>s, <2>8, <2>9
  <1> QED BY <1>4, <1>5

\* Every step of a command keeps the order.
LEMMA OrderStep == ASSUME Inv, Marking, Ordered, [Next]_vars PROVE Marking' /\ Ordered'
  <1> USE DEF flash
  <1>1. CASE Write
    BY <1>1, MarkingWrite, OrderedWrite
  <1>2. ASSUME NEW start \in Nat, NEW len \in Nat, NEW command \in {"erase", "read", "check"},
               Start(command, start, len)
        PROVE  Marking' /\ Ordered'
    BY <1>2 DEF Start, Marking, Ordered
  <1>3. CASE Interrupt \/ Finish("read") \/ Finish("check") \/ ReadBlock \/ CheckBlock
    BY <1>3 DEF Interrupt, Finish, Exit, ReadBlock, CheckBlock, Writing, Marking, Ordered
  <1>4. CASE UNCHANGED vars
    BY <1>4 DEF vars, Marking, Spoilt, Ordered, Writing, Committed, Copied, IsBadBlock, FilePage
  <1> QED
    BY <1>1, <1>2, <1>3, <1>4, SizeAssumption, FileAssumption DEF Next, Device

(***************************************************************************)
(* For every chip, file and length: what K9Fxx08_write leaves on the good  *)
(* blocks is the file in its order, and then zeroes, whatever blocks are   *)
(* bad, whatever erases and programs fail and however often earlier runs   *)
(* were interrupted, until block runs past the last address.  Blocks that  *)
(* NF_MarkBadBlock failed to mark are excepted.                            *)
(***************************************************************************)
THEOREM WriteKeepsOrder == Spec => []FileInOrder
  <1>1. Init => Marking /\ Ordered
    BY DEF Init, Marking, Ordered, Writing
  <1>2. Inv /\ Marking /\ Ordered /\ [Next]_vars => (Marking /\ Ordered)'
    BY OrderStep
  <1> QED BY <1>1, <1>2, OrderedReads, Invariance, PTL DEF Spec
=============================================================================
