------------------------------ MODULE SkipTable ------------------------------
(***************************************************************************)
(* The SPI NAND driver of U-Boot (board/realtek/common/                    *)
(* snaf_driver_wrapper.c) built with CONFIG_USE_BBT_SKIP, under the "nand" *)
(* commands (drivers/mtd/nand/raw/nand_util.c).                            *)
(*                                                                         *)
(* Two layers avoid bad blocks.  At start-up the driver computes a table   *)
(* that maps logical block L to the L-th good block; the commands above it *)
(* ask for every logical block whether it is bad and go on to the next.    *)
(* The first layer judges a block once and through the ECC, the second one *)
(* each time and by the tag as it is in the flash, so the two may disagree *)
(* between a change of a tag and the next start.                           *)
(*                                                                         *)
(* The unit is a block.  A block is its tag (untouched, with a bit error   *)
(* that the ECC corrects, or marked), whether its ECC can be decoded, and  *)
(* what was written to it.                                                 *)
(***************************************************************************)
EXTENDS Integers, FiniteSets

CONSTANTS
    NumBlocks,  \* SNAF_NUM_OF_BLOCK
    SkipNone,   \* 0xFF: the entry that says "no block left"
    Parts,      \* partitions: offset, size, and length of the images written
    MaxBad,     \* bound: blocks the device is delivered with that are bad
    MaxFaults,  \* bound: how often a tag changes or an operation fails
    Versions    \* the versions of an image

Blocks == 0 .. NumBlocks - 1

ASSUME SkipTableAssumption ==
    /\ NumBlocks \in Nat \ {0}
    /\ SkipNone \in Nat \ {0}
    /\ Parts \subseteq [off : Blocks, size : Nat \ {0}, len : Nat \ {0}]
    /\ \A p \in Parts : p.len <= p.size /\ p.off + p.size <= NumBlocks
    /\ \A p, q \in Parts :
          p # q => p.off + p.size <= q.off \/ q.off + q.size <= p.off
    /\ MaxBad \in Nat
    /\ MaxFaults \in Nat
    /\ 0 \notin Versions

VARIABLES
    flash,          \* the blocks of the device
    bbt,            \* the blocks that create_bbt found bad
    bb_skip_table,  \* how many blocks to skip for each logical block
    pc,             \* "table", "fill", "up"
    bbi_block, good_num, skip_block,    \* counters of create_skip_table
    job,            \* the "nand write" that is running
    written,        \* history: the version that must be readable, or 0
    faults

tableVars == <<bbt, bb_skip_table, pc, bbi_block, good_num, skip_block>>
vars == <<flash, tableVars, job, written, faults>>

Blank == <<"blank">>
Junk  == <<"junk">>
Data(p, v, k) == <<p.off, v, k>>
Contents == {Blank, Junk} \cup {Data(p, v, k) : p \in Parts, v \in Versions, k \in 1 .. NumBlocks}

Tags == {"FF", "flip", "mark"}
Block(tag) == [tag |-> tag, ecc |-> TRUE, data |-> Blank]
NoJob == [part |-> 0, v |-> 0, k |-> 0, skip |-> FALSE]

-----------------------------------------------------------------------------
(* The table.                                                              *)

\* A block whose tag is not FF is still good when its page can be decoded and
\* the decoded tag is FF.  Block 0 is not looked at.
BadTag(b, c) ==
    /\ b # 0
    /\ c.tag = "mark" \/ (c.tag = "flip" /\ ~c.ecc)

create_bbt == {b \in Blocks : BadTag(b, flash[b])}

\* Power on.  RAM is lost; board_nand_init scans the tags and starts on the
\* table.
board_nand_init ==
    /\ bbt' = create_bbt
    /\ bb_skip_table' = [L \in Blocks |-> 0]
    /\ pc' = "table"
    /\ bbi_block' = 1
    /\ good_num' = 1
    /\ skip_block' = 1
    /\ job' = NoJob

\* Mutant: the end of the byte's range is not looked at, and the count wraps.
create_skip_table_wraps ==
    /\ pc = "table"
    /\ \/ /\ bbi_block < NumBlocks
          /\ \/ /\ bbi_block \notin bbt
                /\ bb_skip_table' = [bb_skip_table EXCEPT
                     ![skip_block] = (bbi_block - good_num) % (SkipNone + 1)]
                /\ good_num' = good_num + 1
                /\ skip_block' = skip_block + 1
             \/ /\ bbi_block \in bbt
                /\ UNCHANGED <<bb_skip_table, good_num, skip_block>>
          /\ bbi_block' = bbi_block + 1
          /\ pc' = pc
       \/ /\ bbi_block >= NumBlocks
          /\ pc' = "fill"
          /\ UNCHANGED <<bb_skip_table, bbi_block, good_num, skip_block>>
    /\ UNCHANGED <<flash, bbt, job, written, faults>>

\* One turn of the loop over the blocks.
create_skip_table ==
    /\ pc = "table"
    /\ \/ /\ bbi_block < NumBlocks
          /\ bbi_block \notin bbt
          /\ bb_skip_table' = [bb_skip_table EXCEPT ![skip_block] = bbi_block - good_num]
          /\ good_num' = good_num + 1
          /\ skip_block' = skip_block + 1
          /\ bbi_block' = bbi_block + 1
          /\ pc' = pc
       \/ /\ bbi_block < NumBlocks
          /\ bbi_block \in bbt
          /\ \/ bbi_block - good_num = SkipNone /\ pc' = "fill" /\ bbi_block' = bbi_block
             \/ bbi_block - good_num # SkipNone /\ pc' = pc /\ bbi_block' = bbi_block + 1
          /\ UNCHANGED <<bb_skip_table, good_num, skip_block>>
       \/ /\ bbi_block >= NumBlocks
          /\ pc' = "fill"
          /\ UNCHANGED <<bb_skip_table, bbi_block, good_num, skip_block>>
    /\ UNCHANGED <<flash, bbt, job, written, faults>>

\* The entries that are left say that there is no block.
fill_skip_table ==
    /\ pc = "fill"
    /\ bb_skip_table' = [L \in Blocks |-> IF L < skip_block THEN bb_skip_table[L] ELSE SkipNone]
    /\ skip_block' = NumBlocks
    /\ pc' = "up"
    /\ UNCHANGED <<flash, bbt, bbi_block, good_num, job, written, faults>>

Mapped(L) == bb_skip_table[L] # SkipNone

\* The block that an access to logical block L reaches.  When none is left the
\* address stays what it was: no caller looks at the result.
get_good_block(L) == IF Mapped(L) THEN L + bb_skip_table[L] ELSE L

-----------------------------------------------------------------------------
(* The nand commands.                                                      *)

\* otto_snaf_block_bad, reached by mtd_block_isbad.
block_bad(L) == flash[get_good_block(L)].tag # "FF"

UsableIn(S) == {L \in S : ~block_bad(L)}

\* check_skip_len: n blocks from off on fit in front of the end of the device.
Fits(off, n) == Cardinality(UsableIn(off .. NumBlocks - 1)) >= n

\* The k-th block from off on that the skipping loops use.
Usable(off, k) ==
    CHOOSE L \in UsableIn(off .. NumBlocks - 1) :
        Cardinality(UsableIn(off .. L)) = k

\* The loops pass a bad block, so the careful way of writing is taken.
need_skip(off, n) == \E L \in off .. Usable(off, n) : block_bad(L)

\* nand_read_skip_bad.  A page that cannot be decoded is reported on the
\* console; the result is success all the same.
Decoded(b) == IF flash[b].ecc THEN flash[b].data ELSE Junk
nand_read_skip_bad(p) ==
    IF Fits(p.off, p.len)
    THEN [ret |-> "OK",
          data |-> [k \in 1 .. p.len |-> Decoded(get_good_block(Usable(p.off, k)))]]
    ELSE [ret |-> "error", data |-> <<>>]

\* The command line, and a write that is running.
Idle == pc = "up" /\ job.k = 0
Busy == pc = "up" /\ job.k > 0

Image(p, v) == [k \in 1 .. p.len |-> Data(p, v, k)]

\* A fault that happens makes one of the budget.
Fault == faults < MaxFaults /\ faults' = faults + 1

\* History: a command that touches a logical block without a physical one reaches
\* a block of some other address; what was written is not followed any further.
Lost == [p \in Parts |-> 0]

\* nand_erase_opts over a partition: bad blocks are passed, the result of the
\* erase is not looked at, so any of the blocks may keep its contents; so they do
\* when power fails in the middle (a Reboot then follows).
nand_erase(p) ==
    /\ Idle
    /\ LET hit == {get_good_block(L) : L \in UsableIn(p.off .. p.off + p.size - 1)}
           Erase(S) == flash' = [b \in Blocks |-> IF b \in S THEN Block("FF") ELSE flash[b]]
       IN \/ Erase(hit) /\ UNCHANGED faults
          \/ \E S \in SUBSET hit : Erase(S) /\ Fault
    /\ written' = IF \A L \in p.off .. p.off + p.size - 1 : Mapped(L)
                  THEN [written EXCEPT ![p] = 0] ELSE Lost
    /\ UNCHANGED <<tableVars, job>>

\* nand_write_skip_bad: the checks before the first block.  The commands are given
\* offsets and not names, so their lim is the rest of the device, which the check
\* of the length has found to be enough already.
nand_write_start(p, v) ==
    /\ Idle
    /\ Fits(p.off, p.len)
    /\ job' = [part |-> p, v |-> v, k |-> 1, skip |-> need_skip(p.off, p.len)]
    /\ written' = IF Mapped(Usable(p.off, p.len)) THEN [written EXCEPT ![p] = 0] ELSE Lost
    /\ UNCHANGED <<flash, tableVars, faults>>

\* What the ghost variable records.  The tags in front of the image are what
\* the table was made from, the table skips no block inside it that a new table
\* would use, and an entry of the table can count the blocks to skip.
Last(p) == get_good_block(Usable(p.off, p.len))
Settled(p) ==
    /\ Mapped(Usable(p.off, p.len))
    /\ Cardinality({b \in 0 .. Last(p) : BadTag(b, flash[b])}) < SkipNone
    /\ \A b \in 0 .. Last(p) :
          /\ b \in bbt => BadTag(b, flash[b])
          /\ b < get_good_block(p.off) /\ BadTag(b, flash[b]) => b \in bbt

\* Mutant: the blocks are not read back.
nand_write_block_unverified ==
    /\ Busy
    /\ LET p  == job.part
           b  == get_good_block(Usable(p.off, job.k))
           ok == [flash[b] EXCEPT !.data = Data(p, job.v, job.k)]
           no == [flash[b] EXCEPT !.data = Junk, !.ecc = FALSE]
       IN /\ flash' = [flash EXCEPT ![b] = IF @.data = Blank THEN ok ELSE no]
          /\ \/ /\ job.k < p.len
                /\ job' = [job EXCEPT !.k = @ + 1]
                /\ UNCHANGED written
             \/ /\ job.k = p.len
                /\ job' = NoJob
                /\ written' = [written EXCEPT ![p] = IF Settled(p) THEN job.v ELSE 0]
    /\ UNCHANGED <<tableVars, faults>>

\* One block is programmed.  With blocks to skip each one is read back at once
\* and the first difference ends the command; without, all are read back at the
\* end.  A block that was not blank, or that fails, cannot be decoded.
nand_write_block ==
    /\ Busy
    /\ LET p  == job.part
           b  == get_good_block(Usable(p.off, job.k))
           ok == [flash[b] EXCEPT !.data = Data(p, job.v, job.k)]
           no == [flash[b] EXCEPT !.data = Junk, !.ecc = FALSE]
           same(k) == LET c == flash'[get_good_block(Usable(p.off, k))]
                      IN c.ecc /\ c.data = Data(p, job.v, k)
           good == \A k \in 1 .. p.len : same(k)
       IN /\ \/ flash' = [flash EXCEPT ![b] = IF @.data = Blank THEN ok ELSE no] /\ UNCHANGED faults
             \/ flash' = [flash EXCEPT ![b] = no] /\ Fault
          /\ \/ /\ job.k < p.len
                /\ job.skip => same(job.k)
                /\ job' = [job EXCEPT !.k = @ + 1]
                /\ UNCHANGED written
             \/ /\ job.k = p.len \/ (job.skip /\ ~same(job.k))
                /\ job' = NoJob
                /\ written' = [written EXCEPT ![p] = IF good /\ Settled(p) THEN job.v ELSE 0]
    /\ UNCHANGED tableVars

-----------------------------------------------------------------------------
(* Tags change.                                                            *)

\* History: block b changes to c.  What was written and holds b, or lies behind
\* b when the next table judges b differently, need not be readable any more.
Disturb(b, c) ==
    /\ flash' = [flash EXCEPT ![b] = c]
    /\ written' = [p \in Parts |->
          IF /\ written[p] # 0
             /\ b <= Last(p)
             /\ b >= get_good_block(p.off) \/ BadTag(b, c) # BadTag(b, flash[b])
          THEN 0 ELSE written[p]]

\* "nand markbad": the block is erased and the mark written; the table stays.
block_markbad(L) ==
    /\ Idle /\ Fault
    /\ Disturb(get_good_block(L), Block("mark"))
    /\ UNCHANGED <<tableVars, job>>

\* "nand scrub": erased without a look at its tag.
scrub(L) ==
    /\ Idle /\ Fault
    /\ Disturb(get_good_block(L), Block("FF"))
    /\ UNCHANGED <<tableVars, job>>

\* A bit of the tag changes, or more bits of the page than the ECC corrects.
Wear(b) ==
    /\ Idle /\ Fault
    /\ \/ /\ flash[b].tag = "FF"
          /\ Disturb(b, [flash[b] EXCEPT !.tag = "flip"])
       \/ /\ flash[b].ecc /\ flash[b].data # Blank
          /\ Disturb(b, [flash[b] EXCEPT !.ecc = FALSE])
    /\ UNCHANGED <<tableVars, job>>

\* Power may fail at any time, also while a block is being written.
Reboot ==
    /\ board_nand_init
    /\ UNCHANGED <<flash, written, faults>>

Init ==
    /\ \E bad \in SUBSET (Blocks \ {0}) :
          /\ Cardinality(bad) <= MaxBad
          /\ flash = [b \in Blocks |-> Block(IF b \in bad THEN "mark" ELSE "FF")]
          /\ bbt = bad
    /\ bb_skip_table = [L \in Blocks |-> 0]
    /\ pc = "table"
    /\ bbi_block = 1
    /\ good_num = 1
    /\ skip_block = 1
    /\ job = NoJob
    /\ written = [p \in Parts |-> 0]
    /\ faults = 0

Next ==
    \/ create_skip_table
    \/ fill_skip_table
    \/ nand_write_block
    \/ \E p \in Parts :
          \/ nand_erase(p)
          \/ \E v \in Versions : nand_write_start(p, v)
    \/ \E b \in Blocks : block_markbad(b) \/ scrub(b) \/ Wear(b)
    \/ Reboot

Spec == Init /\ [][Next]_vars

-----------------------------------------------------------------------------
(* Properties.                                                             *)

TypeOK ==
    /\ flash \in [Blocks -> [tag : Tags, ecc : BOOLEAN, data : Contents]]
    /\ bbt \subseteq Blocks
    /\ bb_skip_table \in [Blocks -> 0 .. SkipNone]
    /\ pc \in {"table", "fill", "up"}
    /\ bbi_block \in 1 .. NumBlocks
    /\ good_num \in 1 .. NumBlocks
    /\ skip_block \in 1 .. NumBlocks
    /\ job.k = 0 \/ job \in [part : Parts, v : Versions, k : 1 .. NumBlocks, skip : BOOLEAN]
    /\ written \in [Parts -> Versions \cup {0}]
    /\ faults \in 0 .. MaxFaults

\* The entries made so far: all of them while the table is being made, and
\* those that are not "none" afterwards.
Entries == {L \in Blocks : L < skip_block /\ Mapped(L)}

\* The table (create_skip_table, with its byte-sized entries) maps logical
\* blocks to good blocks of the device, in order, without using a block twice
\* and without leaving out a good block between two that are used.
MapsGoodBlocksInOrder ==
    \A L \in Entries :
        /\ get_good_block(L) \in Blocks \ bbt
        /\ \A M \in Entries : M < L =>
              /\ get_good_block(M) < get_good_block(L)
              /\ \A b \in Blocks \ bbt :
                    get_good_block(M) < b /\ b < get_good_block(L) =>
                        \E K \in Entries : get_good_block(K) = b

\* What nand_write_skip_bad wrote and verified is what nand_read_skip_bad
\* returns, in this session and after every later start, whatever is written to
\* the other partitions and wherever the blocks behind it are marked bad: the
\* two ways of avoiding bad blocks, and the two ways of recognising them, agree.
\* Stated for an image (written # 0) that is in place with fewer than SkipNone
\* bad blocks before it and room left for the blocks that are marked bad, while
\* no command was given a logical block without a physical one (see Settled).
ImageReadsBack ==
    pc = "up" =>
        \A p \in Parts : written[p] # 0 =>
            nand_read_skip_bad(p) = [ret |-> "OK", data |-> Image(p, written[p])]

\* "nand erase" at an offset erases blocks of that range: a logical block of
\* another partition that had contents keeps them.
EraseStaysInRange ==
    [][\A p, q \in Parts : p # q /\ nand_erase(p) =>
         \A L \in q.off .. q.off + q.size - 1 :
             flash'[get_good_block(L)] = flash[get_good_block(L)]]_vars
=============================================================================
