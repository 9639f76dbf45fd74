--------------------------- MODULE SkipTableProofs ---------------------------
(***************************************************************************)
(* Proofs about the table of blocks to skip, for every number of blocks,   *)
(* every pattern of bad blocks and every range of the entries: the table   *)
(* is in order, and an image that was written and read back stays so.      *)
(*                                                                         *)
(* The second result counts.  An entry of the table is a number of bad     *)
(* blocks (TableCount), the blocks that only the tags call bad have cost a *)
(* fault each (WornInv), so an image ends inside its partition (Room).     *)
(* The image itself is remembered by where it is on the device (Placed),   *)
(* which no table has a part in; any table made from the tags, and the one *)
(* in use, lead there (PlacedTable, PlacedCount, PlacedUsable).            *)
(***************************************************************************)
EXTENDS SkipTable, FiniteSetTheorems, FunctionTheorems, TLAPS

-----------------------------------------------------------------------------
(* The table.                                                              *)

\* After any number of turns of the loop, the entries in front of good_num are
\* right and complete up to bbi_block: they reach good blocks in front of it, all
\* of them, and skip more and more blocks.  good_num keeps its value when the
\* table is filled up.
TableInv ==
    /\ bbt \subseteq Blocks /\ 0 \notin bbt
    /\ bb_skip_table \in [Blocks -> 0 .. SkipNone]
    /\ pc \in {"table", "fill", "up"}
    /\ good_num \in 1 .. NumBlocks
    /\ bbi_block \in 1 .. NumBlocks
    /\ good_num <= bbi_block
    /\ bbi_block - good_num <= SkipNone
    /\ pc # "up" => skip_block = good_num
    /\ pc = "up" =>
          skip_block = NumBlocks /\ \A L \in Blocks : L >= good_num => bb_skip_table[L] = SkipNone
    /\ \A L \in Blocks : L < good_num =>
          /\ L + bb_skip_table[L] < bbi_block
          /\ L + bb_skip_table[L] \notin bbt
          /\ bb_skip_table[L] <= bbi_block - good_num
    /\ \A L, M \in Blocks : L < M /\ M < good_num => bb_skip_table[L] <= bb_skip_table[M]
    /\ \A b \in Blocks \ bbt : b < bbi_block =>
          \E L \in Blocks : L < good_num /\ L + bb_skip_table[L] = b

\* The constants.
LEMMA Constants ==
    /\ NumBlocks \in Nat \ {0} /\ SkipNone \in Nat \ {0}
    /\ 0 \in Blocks
    /\ \A p \in Parts : p.len \in 1 .. NumBlocks
<1>1. NumBlocks \in Nat \ {0} /\ SkipNone \in Nat \ {0}
  BY SkipTableAssumption
<1>2. 0 \in Blocks
  BY <1>1 DEF Blocks
<1>3. ASSUME NEW p \in Parts PROVE p.len \in 1 .. NumBlocks
  <2>1. p.off \in 0 .. NumBlocks - 1 /\ p.size \in Nat /\ p.len \in Nat \ {0}
        /\ p.len <= p.size /\ p.off + p.size <= NumBlocks
    BY SkipTableAssumption DEF Blocks
  <2> QED BY <1>1, <2>1
<1> QED BY <1>1, <1>2, <1>3

\* The table at the start of a scan.
LEMMA FreshTable ==
    ASSUME bbt' \subseteq Blocks, 0 \notin bbt', bb_skip_table' = [L \in Blocks |-> 0],
           pc' = "table", bbi_block' = 1, good_num' = 1, skip_block' = 1
    PROVE  TableInv'
<1>1. NumBlocks \in Nat \ {0} /\ SkipNone \in Nat \ {0} /\ 0 \in Blocks
  BY Constants
<1>2. \A L \in Blocks : (L < 1 <=> L = 0) /\ bb_skip_table'[L] = 0
  BY <1>1 DEF Blocks
<1>3. bb_skip_table' \in [Blocks -> 0 .. SkipNone]
  BY <1>1
<1> QED BY <1>1, <1>2, <1>3 DEF TableInv

\* A good block gets the next entry.
LEMMA GoodBlock ==
    ASSUME TableInv, pc = "table", bbi_block < NumBlocks, bbi_block \notin bbt,
           bb_skip_table' = [bb_skip_table EXCEPT ![skip_block] = bbi_block - good_num],
           good_num' = good_num + 1, skip_block' = skip_block + 1,
           bbi_block' = bbi_block + 1, pc' = pc, bbt' = bbt
    PROVE  TableInv'
<1> DEFINE T == bb_skip_table
           g == good_num
           n == bbi_block
<1>1. /\ NumBlocks \in Nat \ {0} /\ SkipNone \in Nat \ {0} /\ T \in [Blocks -> 0 .. SkipNone]
      /\ g \in 1 .. NumBlocks /\ n \in 1 .. NumBlocks /\ g <= n /\ n - g <= SkipNone
      /\ skip_block = g /\ n < NumBlocks
      /\ T' = [T EXCEPT ![g] = n - g] /\ g' = g + 1 /\ n' = n + 1
  BY Constants DEF TableInv
<1>2. g \in Blocks /\ n \in Blocks /\ n - g \in 0 .. SkipNone /\ g + (n - g) = n
  BY <1>1 DEF Blocks
<1>3. /\ T' \in [Blocks -> 0 .. SkipNone] /\ T'[g] = n - g
      /\ \A L \in Blocks : L # g => T'[L] = T[L]
  BY <1>1, <1>2
<1>4. \A L \in Blocks : L \in Int /\ T[L] \in Int /\ (L < g + 1 => L < g \/ L = g)
  BY <1>1 DEF Blocks
<1>5. \A L \in Blocks : L < g => L + T[L] < n /\ L + T[L] \notin bbt /\ T[L] <= n - g
  BY DEF TableInv
<1> HIDE DEF T, g, n
<1>6. ASSUME NEW L \in Blocks, L < g + 1
      PROVE  L + T'[L] < n + 1 /\ L + T'[L] \notin bbt /\ T'[L] <= (n + 1) - (g + 1)
  <2>1. CASE L = g
    <3>1. L + T'[L] = n /\ T'[L] = n - g
      BY <1>2, <1>3, <2>1
    <3> QED BY <1>1, <3>1 DEF n
  <2>2. CASE L < g
    <3>1. T'[L] = T[L]
      BY <1>1, <1>3, <1>4, <2>2
    <3> QED BY <1>1, <1>4, <1>5, <2>2, <3>1
  <2> QED BY <1>4, <1>6, <2>1, <2>2
<1>7. ASSUME NEW L \in Blocks, NEW M \in Blocks, L < M, M < g + 1
      PROVE  T'[L] <= T'[M]
  <2>1. L < g /\ L # g
    BY <1>1, <1>4, <1>7
  <2>2. T'[L] = T[L] /\ T[L] <= n - g
    BY <1>3, <1>5, <2>1
  <2>3. CASE M = g
    BY <1>3, <2>2, <2>3
  <2>4. CASE M < g
    <3>1. M # g /\ T[L] <= T[M]
      BY <1>1, <1>4, <1>7, <2>4 DEF TableInv, T, g
    <3> QED BY <1>3, <2>2, <3>1
  <2> QED BY <1>4, <1>7, <2>3, <2>4
<1>8. ASSUME NEW b \in Blocks \ bbt, b < n + 1
      PROVE  \E L \in Blocks : L < g + 1 /\ L + T'[L] = b
  <2>1. b < n \/ b = n
    BY <1>1, <1>4, <1>8
  <2>2. CASE b = n
    <3>1. g < g + 1 /\ g + T'[g] = b
      BY <1>1, <1>2, <1>3, <2>2
    <3> QED BY <1>2, <3>1
  <2>3. CASE b < n
    <3>1. PICK L \in Blocks : L < g /\ L + T[L] = b
      BY <2>3 DEF TableInv, T, g, n
    <3>2. L < g + 1 /\ T'[L] = T[L]
      BY <1>1, <1>3, <1>4, <3>1
    <3> QED BY <3>1, <3>2
  <2> QED BY <2>1, <2>2, <2>3
<1>9. /\ g' \in 1 .. NumBlocks /\ n' \in 1 .. NumBlocks /\ g' <= n' /\ n' - g' <= SkipNone
      /\ skip_block' = g'
  BY <1>1
<1> QED BY <1>1, <1>3, <1>6, <1>7, <1>8, <1>9 DEF TableInv, T, g, n

\* A bad block gets none.
LEMMA BadBlock ==
    ASSUME TableInv, pc = "table", bbi_block < NumBlocks, bbi_block \in bbt,
           bbi_block - good_num # SkipNone, bbi_block' = bbi_block + 1, pc' = pc,
           UNCHANGED <<bbt, bb_skip_table, good_num, skip_block>>
    PROVE  TableInv'
<1>1. /\ NumBlocks \in Nat /\ SkipNone \in Nat /\ good_num \in 1 .. NumBlocks
      /\ bbi_block \in 1 .. NumBlocks /\ good_num <= bbi_block /\ bbi_block - good_num <= SkipNone
      /\ bb_skip_table \in [Blocks -> 0 .. SkipNone]
  BY Constants DEF TableInv
<1>2. /\ bbi_block + 1 \in 1 .. NumBlocks /\ good_num <= bbi_block + 1
      /\ (bbi_block + 1) - good_num <= SkipNone
  BY <1>1
<1>3. ASSUME NEW L \in Blocks, L < good_num
      PROVE  /\ L + bb_skip_table[L] < bbi_block + 1 /\ L + bb_skip_table[L] \notin bbt
             /\ bb_skip_table[L] <= (bbi_block + 1) - good_num
  <2>1. /\ L + bb_skip_table[L] < bbi_block /\ L + bb_skip_table[L] \notin bbt
        /\ bb_skip_table[L] <= bbi_block - good_num
    BY <1>3 DEF TableInv
  <2>2. L \in Int /\ bb_skip_table[L] \in Int
    BY <1>1 DEF Blocks
  <2> QED BY <1>1, <2>1, <2>2
<1>4. ASSUME NEW b \in Blocks \ bbt, b < bbi_block + 1
      PROVE  \E L \in Blocks : L < good_num /\ L + bb_skip_table[L] = b
  <2>1. b # bbi_block /\ b \in Int
    BY DEF Blocks
  <2>2. b < bbi_block
    BY <1>1, <1>4, <2>1
  <2> QED BY <2>2 DEF TableInv
<1> QED BY <1>2, <1>3, <1>4 DEF TableInv

LEMMA InitTable == Init => TableInv
<1> SUFFICES ASSUME Init PROVE TableInv
  OBVIOUS
<1>1. NumBlocks \in Nat \ {0} /\ SkipNone \in Nat \ {0} /\ 0 \in Blocks
  BY Constants
<1>2. \A L \in Blocks : (L < 1 <=> L = 0) /\ bb_skip_table[L] = 0
  BY <1>1 DEF Init, Blocks
<1>3. bb_skip_table \in [Blocks -> 0 .. SkipNone] /\ bbt \subseteq Blocks /\ 0 \notin bbt
  BY <1>1 DEF Init
<1> QED BY <1>1, <1>2, <1>3 DEF TableInv, Init

\* Every step keeps the table in order.  Only board_nand_init and the two loops
\* of create_skip_table change it.
LEMMA StepTable == TableInv /\ [Next]_vars => TableInv'
<1> SUFFICES ASSUME TableInv, [Next]_vars PROVE TableInv'
  OBVIOUS
<1>1. CASE create_skip_table
  <2>0. pc = "table" /\ bbt' = bbt /\ (bbi_block < NumBlocks => ~(bbi_block >= NumBlocks))
    BY <1>1, Constants DEF create_skip_table, TableInv
  <2>1. CASE bbi_block < NumBlocks /\ bbi_block \notin bbt
    <3>1. /\ bb_skip_table' = [bb_skip_table EXCEPT ![skip_block] = bbi_block - good_num]
          /\ good_num' = good_num + 1 /\ skip_block' = skip_block + 1
          /\ bbi_block' = bbi_block + 1 /\ pc' = pc
      BY <1>1, <2>0, <2>1 DEF create_skip_table
    <3> QED BY <2>0, <2>1, <3>1, GoodBlock
  <2>2. CASE bbi_block < NumBlocks /\ bbi_block \in bbt /\ bbi_block - good_num # SkipNone
    <3>1. /\ bbi_block' = bbi_block + 1 /\ pc' = pc
          /\ UNCHANGED <<bb_skip_table, good_num, skip_block>>
      BY <1>1, <2>0, <2>2 DEF create_skip_table
    <3> QED BY <2>0, <2>2, <3>1, BadBlock
  <2>3. CASE pc' = "fill" /\ UNCHANGED <<bbt, bb_skip_table, bbi_block, good_num, skip_block>>
    BY <1>1, <2>3 DEF create_skip_table, TableInv
  <2> QED BY <1>1, <2>1, <2>2, <2>3 DEF create_skip_table
<1>2. CASE fill_skip_table
  <2>1. /\ bb_skip_table' = [L \in Blocks |-> IF L < good_num THEN bb_skip_table[L] ELSE SkipNone]
        /\ skip_block' = NumBlocks /\ pc' = "up" /\ UNCHANGED <<bbt, bbi_block, good_num>>
    BY <1>2 DEF fill_skip_table, TableInv
  <2>2. /\ \A L \in Blocks : L < good_num => bb_skip_table'[L] = bb_skip_table[L]
        /\ \A L \in Blocks : L >= good_num => bb_skip_table'[L] = SkipNone
        /\ bb_skip_table' \in [Blocks -> 0 .. SkipNone]
    <3>1. \A L \in Blocks : L >= good_num => ~(L < good_num)
      BY DEF TableInv, Blocks
    <3>2. SkipNone \in 0 .. SkipNone /\ bb_skip_table \in [Blocks -> 0 .. SkipNone]
      BY Constants DEF TableInv
    <3> QED BY <2>1, <3>1, <3>2
  <2>3. \A L, M \in Blocks : L < M /\ M < good_num => L < good_num
    BY DEF TableInv, Blocks
  <2>4. \A L, M \in Blocks : L < M /\ M < good_num => bb_skip_table'[L] <= bb_skip_table'[M]
    BY <2>2, <2>3 DEF TableInv
  <2> QED BY <2>1, <2>2, <2>4 DEF TableInv
<1>3. CASE Reboot
  <2>1. bbt' \subseteq Blocks /\ 0 \notin bbt'
    BY <1>3 DEF Reboot, board_nand_init, create_bbt, BadTag
  <2> QED BY <1>3, <2>1, FreshTable DEF Reboot, board_nand_init
<1>4. ASSUME UNCHANGED tableVars PROVE TableInv'
  BY <1>4 DEF tableVars, TableInv
<1>5. CASE nand_write_block \/ UNCHANGED vars
  BY <1>4, <1>5 DEF nand_write_block, vars
<1>6. ASSUME NEW p \in Parts, nand_erase(p) \/ \E v \in Versions : nand_write_start(p, v)
      PROVE  TableInv'
  BY <1>4, <1>6 DEF nand_erase, nand_write_start
<1>7. ASSUME NEW b \in Blocks, block_markbad(b) \/ scrub(b) \/ Wear(b) PROVE TableInv'
  BY <1>4, <1>7 DEF block_markbad, scrub, Wear
<1> QED BY <1>1, <1>2, <1>3, <1>5, <1>6, <1>7 DEF Next

\* The table maps logical blocks to the good blocks of the device, in order and
\* without leaving one out, for any number of blocks and any pattern of bad ones,
\* also when there are more bad blocks than an entry can count, and at any moment
\* while it is being made.
THEOREM TableMapsGoodBlocks == Spec => []MapsGoodBlocksInOrder
<1>1. TableInv => MapsGoodBlocksInOrder
  <2> SUFFICES ASSUME TableInv, NEW L \in Entries
               PROVE  /\ get_good_block(L) \in Blocks \ bbt
                      /\ \A M \in Entries : M < L =>
                            /\ get_good_block(M) < get_good_block(L)
                            /\ \A b \in Blocks \ bbt :
                                  get_good_block(M) < b /\ b < get_good_block(L) =>
                                      \E K \in Entries : get_good_block(K) = b
    BY DEF MapsGoodBlocksInOrder
  <2> DEFINE T == bb_skip_table
             g == good_num
  <2>1. /\ NumBlocks \in Nat /\ SkipNone \in Nat /\ g \in 1 .. NumBlocks
        /\ bbi_block \in 1 .. NumBlocks /\ T \in [Blocks -> 0 .. SkipNone]
    BY Constants DEF TableInv
  <2>2. \A K \in Blocks : K \in Nat /\ T[K] \in Nat /\ T[K] <= SkipNone
    BY <2>1 DEF Blocks
  <2>3. \A K \in Blocks : K \in Entries <=> K < g /\ T[K] # SkipNone
    <3> TAKE K \in Blocks
    <3>1. K < NumBlocks /\ (K < g \/ K >= g)
      BY <2>1 DEF Blocks
    <3>2. CASE pc # "up"
      BY <3>2 DEF TableInv, Entries, Mapped
    <3>3. CASE pc = "up"
      BY <3>1, <3>3 DEF TableInv, Entries, Mapped
    <3> QED BY <3>2, <3>3
  <2>4. \A K \in Entries : K \in Blocks /\ get_good_block(K) = K + T[K]
    BY DEF Entries, get_good_block, Mapped
  <2>5. /\ \A K \in Blocks : K < g => K + T[K] < bbi_block /\ K + T[K] \notin bbt
        /\ \A K, M \in Blocks : K < M /\ M < g => T[K] <= T[M]
        /\ \A b \in Blocks \ bbt : b < bbi_block => \E K \in Blocks : K < g /\ K + T[K] = b
    BY DEF TableInv
  <2> HIDE DEF T, g
  <2>6. L \in Blocks /\ L < g /\ T[L] # SkipNone /\ get_good_block(L) = L + T[L]
    BY <2>3, <2>4
  <2>7. get_good_block(L) \in Blocks \ bbt /\ get_good_block(L) < bbi_block
    <3>1. L + T[L] < bbi_block /\ L + T[L] \notin bbt /\ L + T[L] \in Nat
      BY <2>2, <2>5, <2>6
    <3>2. L + T[L] \in Blocks
      BY <2>1, <3>1 DEF Blocks
    <3> QED BY <2>6, <3>1, <3>2
  <2>8. ASSUME NEW M \in Entries, M < L PROVE get_good_block(M) < get_good_block(L)
    <3>1. M \in Blocks /\ T[M] <= T[L] /\ get_good_block(M) = M + T[M]
      BY <2>4, <2>5, <2>6, <2>8
    <3> QED BY <2>2, <2>6, <2>8, <3>1
  <2>9. ASSUME NEW b \in Blocks \ bbt, b < get_good_block(L)
        PROVE  \E K \in Entries : get_good_block(K) = b
    <3>1. b < bbi_block
      BY <2>1, <2>2, <2>6, <2>7, <2>9
    <3>2. PICK K \in Blocks : K < g /\ K + T[K] = b
      BY <2>5, <3>1
    <3>3. K < L
      <4> SUFFICES ASSUME K >= L PROVE FALSE
        BY <2>2, <2>6
      <4>1. T[L] <= T[K]
        <5>1. K = L \/ L < K
          BY <2>2, <2>6
        <5> QED BY <2>2, <2>5, <2>6, <3>2, <5>1
      <4> QED BY <2>2, <2>6, <2>9, <3>2, <4>1
    <3>4. T[K] <= T[L]
      BY <2>5, <2>6, <3>3
    <3>5. T[K] # SkipNone
      BY <2>2, <2>6, <3>4
    <3> QED BY <2>3, <2>4, <3>2, <3>5
  <2> QED BY <2>7, <2>8, <2>9
<1> QED BY <1>1, InitTable, StepTable, PTL DEF Spec

-----------------------------------------------------------------------------
(* Types.                                                                  *)

FlashType == [Blocks -> [tag : Tags, ecc : BOOLEAN, data : Contents]]

\* A block that is erased, marked, written or worn.
LEMMA BlockTypes ==
    ASSUME NEW c \in [tag : Tags, ecc : BOOLEAN, data : Contents]
    PROVE  /\ Block("FF") \in [tag : Tags, ecc : BOOLEAN, data : Contents]
           /\ Block("mark") \in [tag : Tags, ecc : BOOLEAN, data : Contents]
           /\ [c EXCEPT !.tag = "flip"] \in [tag : Tags, ecc : BOOLEAN, data : Contents]
           /\ [c EXCEPT !.ecc = FALSE] \in [tag : Tags, ecc : BOOLEAN, data : Contents]
           /\ [c EXCEPT !.data = Junk, !.ecc = FALSE] \in [tag : Tags, ecc : BOOLEAN, data : Contents]
           /\ \A d \in Contents :
                 [c EXCEPT !.data = d] \in [tag : Tags, ecc : BOOLEAN, data : Contents]
<1>1. Blank \in Contents /\ Junk \in Contents /\ "FF" \in Tags /\ "flip" \in Tags /\ "mark" \in Tags
  BY DEF Contents, Tags
<1> QED BY <1>1 DEF Block

\* Disturb keeps the types.
LEMMA DisturbType ==
    ASSUME TypeOK, NEW b, NEW c, b \in Blocks => c \in [tag : Tags, ecc : BOOLEAN, data : Contents],
           Disturb(b, c)
    PROVE  flash' \in FlashType /\ written' \in [Parts -> Versions \cup {0}]
<1>1. flash \in FlashType /\ written \in [Parts -> Versions \cup {0}]
  BY DEF TypeOK, FlashType
<1>2. flash' = [flash EXCEPT ![b] = c]
  BY DEF Disturb
<1>3. flash' \in FlashType
  BY <1>1, <1>2 DEF FlashType
<1>4. written' \in [Parts -> Versions \cup {0}]
  BY <1>1 DEF Disturb
<1> QED BY <1>3, <1>4

\* The part of TypeOK that is about the flash and the commands.
JobType == [part : Parts, v : Versions, k : 1 .. NumBlocks, skip : BOOLEAN]
DataType ==
    /\ flash \in FlashType
    /\ job.k = 0 \/ job \in JobType
    /\ written \in [Parts -> Versions \cup {0}]
    /\ faults \in 0 .. MaxFaults

LEMMA TypeParts == TableInv /\ DataType => TypeOK
<1> SUFFICES ASSUME TableInv, DataType PROVE TypeOK
  OBVIOUS
<1>1. NumBlocks \in 1 .. NumBlocks
  BY Constants
<1>2. skip_block \in 1 .. NumBlocks
  BY <1>1 DEF TableInv
<1> QED BY <1>2 DEF TableInv, DataType, TypeOK, FlashType, JobType

LEMMA FaultType ==
    ASSUME faults \in 0 .. MaxFaults, Fault
    PROVE  faults' \in 0 .. MaxFaults
<1>1. MaxFaults \in Nat
  BY SkipTableAssumption
<1> QED BY <1>1 DEF Fault

\* nand_write_block keeps the types.
LEMMA WriteBlockType ==
    ASSUME DataType, nand_write_block
    PROVE  DataType'
<1> DEFINE p  == job.part
           b  == get_good_block(Usable(p.off, job.k))
           ok == [flash[b] EXCEPT !.data = Data(p, job.v, job.k)]
           no == [flash[b] EXCEPT !.data = Junk, !.ecc = FALSE]
           BT == [tag : Tags, ecc : BOOLEAN, data : Contents]
<1>1. /\ flash \in [Blocks -> BT] /\ job \in JobType
      /\ written \in [Parts -> Versions \cup {0}] /\ faults \in 0 .. MaxFaults
  BY DEF DataType, FlashType, nand_write_block, Busy
<1>2. p \in Parts /\ job.v \in Versions /\ job.k \in 1 .. NumBlocks /\ p.len \in 1 .. NumBlocks
  BY <1>1, Constants DEF JobType
<1>3. Data(p, job.v, job.k) \in Contents
  BY <1>2 DEF Contents
<1>4. /\ \/ flash' = [flash EXCEPT ![b] = IF flash[b].data = Blank THEN ok ELSE no] /\ faults' = faults
         \/ flash' = [flash EXCEPT ![b] = no] /\ Fault
      /\ \/ job.k < p.len /\ job' = [job EXCEPT !.k = job.k + 1] /\ written' = written
         \/ job' = NoJob /\ \E x \in {job.v, 0} : written' = [written EXCEPT ![p] = x]
  BY DEF nand_write_block
<1>5. b \in Blocks => ok \in BT /\ no \in BT
  <2> SUFFICES ASSUME b \in Blocks PROVE ok \in BT /\ no \in BT
    OBVIOUS
  <2>1. flash[b] \in BT
    BY <1>1
  <2> HIDE DEF b, p
  <2> QED BY <1>3, <2>1, BlockTypes
<1> HIDE DEF p, b, ok, no, BT
<1>6. flash' \in [Blocks -> BT]
  <2>1. CASE flash' = [flash EXCEPT ![b] = no]
    BY <1>1, <1>5, <2>1
  <2>2. CASE flash' = [flash EXCEPT ![b] = IF flash[b].data = Blank THEN ok ELSE no]
    BY <1>1, <1>5, <2>2
  <2> QED BY <1>4, <2>1, <2>2
<1>7. faults' \in 0 .. MaxFaults
  BY <1>1, <1>4, FaultType
<1>8. job'.k = 0 \/ job' \in JobType
  <2>1. CASE job.k < p.len /\ job' = [job EXCEPT !.k = job.k + 1]
    <3>1. job.k + 1 \in 1 .. NumBlocks
      BY <1>2, <2>1, Constants
    <3> QED BY <1>1, <2>1, <3>1 DEF JobType
  <2>2. CASE job' = NoJob
    BY <2>2 DEF NoJob
  <2> QED BY <1>4, <2>1, <2>2
<1>9. written' \in [Parts -> Versions \cup {0}]
  BY <1>1, <1>2, <1>4
<1> QED BY <1>6, <1>7, <1>8, <1>9 DEF DataType, FlashType, BT

LEMMA StepData == TableInv /\ DataType /\ [Next]_vars => DataType'
<1> SUFFICES ASSUME TableInv, DataType, [Next]_vars PROVE DataType'
  OBVIOUS
<1>1. TypeOK
  BY TypeParts
<1>2. CASE create_skip_table \/ fill_skip_table
  BY <1>2 DEF create_skip_table, fill_skip_table, DataType
<1>3. CASE nand_write_block
  BY <1>3, WriteBlockType
<1>4. ASSUME NEW p \in Parts, nand_erase(p) PROVE DataType'
  <2>1. ASSUME NEW S, flash' = [b \in Blocks |-> IF b \in S THEN Block("FF") ELSE flash[b]]
        PROVE  flash' \in FlashType
    <3>1. \A b \in Blocks : flash[b] \in [tag : Tags, ecc : BOOLEAN, data : Contents]
      BY DEF DataType, FlashType
    <3>2. Block("FF") \in [tag : Tags, ecc : BOOLEAN, data : Contents]
      BY <3>1, BlockTypes, Constants
    <3> QED BY <2>1, <3>1, <3>2 DEF FlashType
  <2>2. flash' \in FlashType
    BY <1>4, <2>1 DEF nand_erase
  <2>3. faults' \in 0 .. MaxFaults
    BY <1>4, FaultType DEF nand_erase, DataType
  <2>4. written' \in [Parts -> Versions \cup {0}] /\ job' = job
    BY <1>4 DEF nand_erase, Lost, DataType
  <2> QED BY <2>2, <2>3, <2>4 DEF DataType
<1>5. ASSUME NEW p \in Parts, NEW v \in Versions, nand_write_start(p, v) PROVE DataType'
  <2>1. /\ job' = [part |-> p, v |-> v, k |-> 1, skip |-> need_skip(p.off, p.len)]
        /\ UNCHANGED <<flash, faults>>
    BY <1>5 DEF nand_write_start
  <2>2. need_skip(p.off, p.len) \in BOOLEAN /\ 1 \in 1 .. NumBlocks
    BY Constants DEF need_skip
  <2>3. job' \in JobType
    BY <2>1, <2>2 DEF JobType
  <2>4. written' \in [Parts -> Versions \cup {0}]
    BY <1>5 DEF nand_write_start, Lost, DataType
  <2> QED BY <2>1, <2>3, <2>4 DEF DataType
<1>6. ASSUME NEW L \in Blocks, block_markbad(L) \/ scrub(L) \/ Wear(L) PROVE DataType'
  <2>1. flash[L] \in [tag : Tags, ecc : BOOLEAN, data : Contents]
    BY DEF DataType, FlashType
  <2>2. faults' \in 0 .. MaxFaults /\ job' = job
    BY <1>6, FaultType DEF block_markbad, scrub, Wear, DataType
  <2>3. PICK b, c : /\ Disturb(b, c)
                    /\ c \in [tag : Tags, ecc : BOOLEAN, data : Contents]
    BY <1>6, <2>1, BlockTypes DEF block_markbad, scrub, Wear
  <2>4. flash' \in FlashType /\ written' \in [Parts -> Versions \cup {0}]
    BY <1>1, <2>3, DisturbType
  <2> QED BY <2>2, <2>4 DEF DataType
<1>7. CASE Reboot
  BY <1>7 DEF Reboot, board_nand_init, NoJob, DataType
<1>8. CASE UNCHANGED vars
  BY <1>8 DEF vars, DataType
<1> QED BY <1>2, <1>3, <1>4, <1>5, <1>6, <1>7, <1>8 DEF Next

LEMMA InitData == Init => DataType
<1> SUFFICES ASSUME Init PROVE DataType
  OBVIOUS
<1>1. PICK bad \in SUBSET (Blocks \ {0}) :
        flash = [b \in Blocks |-> Block(IF b \in bad THEN "mark" ELSE "FF")]
  BY DEF Init
<1>2. \A tag \in Tags : Block(tag) \in [tag : Tags, ecc : BOOLEAN, data : Contents]
  BY DEF Block, Contents
<1>3. "mark" \in Tags /\ "FF" \in Tags
  BY DEF Tags
<1>4. flash \in FlashType
  BY <1>1, <1>2, <1>3 DEF FlashType
<1>5. job.k = 0 /\ written \in [Parts -> Versions \cup {0}]
  BY DEF Init, NoJob
<1>6. faults \in 0 .. MaxFaults
  BY SkipTableAssumption DEF Init
<1> QED BY <1>4, <1>5, <1>6 DEF DataType

\* The counters and entries of create_skip_table stay in the range of their
\* bytes and of the device, and the flash, the running command and what is
\* recorded of the images keep their types.
THEOREM SkipTableTypeCorrect == Spec => []TypeOK
BY InitData, InitTable, StepTable, StepData, TypeParts, PTL DEF Spec

-----------------------------------------------------------------------------
(* Counting blocks.                                                        *)

\* How many elements of S are below n.
Below(S, n) == Cardinality({x \in S : x < n})

LEMMA BelowFinite ==
    ASSUME NEW S \in SUBSET Nat, NEW n \in Nat
    PROVE  IsFiniteSet({x \in S : x < n}) /\ Below(S, n) \in Nat
<1>0. \A x \in S : x < n => x \in 0 .. n
  OBVIOUS
<1>1. IsFiniteSet(0 .. n)
  BY FS_Interval
<1>a. {x \in S : x < n} \in SUBSET (0 .. n)
  BY <1>0
<1>2. IsFiniteSet({x \in S : x < n})
  BY <1>1, <1>a, FS_Subset
<1> QED BY <1>2, FS_CardinalityType DEF Below

LEMMA BelowNext ==
    ASSUME NEW S \in SUBSET Nat, NEW n \in Nat
    PROVE  /\ Below(S, n + 1) = IF n \in S THEN Below(S, n) + 1 ELSE Below(S, n)
           /\ Below(S, 0) = 0
<1> DEFINE A == {x \in S : x < n}
<1>0. \A x \in S : x \in Nat /\ (x < n + 1 <=> x < n \/ x = n) /\ ~(x < 0)
  OBVIOUS
<1>1. IsFiniteSet(A) /\ n \notin A
  BY BelowFinite
<1>2. {x \in S : x < n + 1} = IF n \in S THEN A \cup {n} ELSE A
  BY <1>0
<1>3. {x \in S : x < 0} = {}
  BY <1>0
<1>4. Below(S, 0) = 0
  BY <1>3, FS_EmptySet DEF Below
<1>5. Cardinality(A \cup {n}) = Cardinality(A) + 1
  <2> HIDE DEF A
  <2> QED BY <1>1, FS_AddElement
<1> QED BY <1>2, <1>4, <1>5 DEF Below

LEMMA BelowGrows ==
    ASSUME NEW S \in SUBSET Nat, NEW m \in Nat, NEW n \in Nat, m <= n
    PROVE  Below(S, m) <= Below(S, n) /\ Below(S, n) <= Below(S, m) + (n - m)
<1> DEFINE A == {x \in S : x < m}
           B == {x \in S : m <= x /\ x < n}
<1>0. \A x \in S : /\ x \in Nat /\ (x < n <=> x < m \/ (m <= x /\ x < n))
                   /\ ~(x < m /\ m <= x) /\ (m <= x /\ x < n => x \in m .. n - 1)
  OBVIOUS
<1>1. IsFiniteSet(A) /\ Cardinality(A) \in Nat
  BY BelowFinite DEF Below
<1>2. IsFiniteSet(m .. n - 1) /\ Cardinality(m .. n - 1) = n - m
  <2>1. /\ IsFiniteSet(m .. n - 1)
        /\ Cardinality(m .. n - 1) = IF m > n - 1 THEN 0 ELSE n - 1 - m + 1
    BY FS_Interval
  <2> QED BY <2>1
<1>3. B \in SUBSET (m .. n - 1)
  BY <1>0
<1>4. IsFiniteSet(B) /\ Cardinality(B) <= n - m
  <2> HIDE DEF B
  <2> QED BY <1>2, <1>3, FS_Subset
<1>5. Cardinality(B) \in Nat
  <2> HIDE DEF B
  <2> QED BY <1>4, FS_CardinalityType
<1>6. {x \in S : x < n} = A \cup B /\ A \cap B = {}
  BY <1>0
<1> HIDE DEF A, B
<1>7. Cardinality(A \cup B) = Cardinality(A) + Cardinality(B) - Cardinality(A \cap B)
  BY <1>1, <1>4, FS_Union
<1>8. Cardinality(A \cap B) = 0
  BY <1>6, FS_EmptySet
<1>9. Below(S, n) = Cardinality(A) + Cardinality(B)
  BY <1>1, <1>5, <1>6, <1>7, <1>8 DEF Below
<1>10. Below(S, m) = Cardinality(A)
  BY DEF Below, A
<1> QED BY <1>1, <1>4, <1>5, <1>9, <1>10

LEMMA BelowSubset ==
    ASSUME NEW S \in SUBSET Nat, NEW T \in SUBSET Nat, NEW n \in Nat,
           \A x \in S : x < n => x \in T
    PROVE  Below(S, n) <= Below(T, n)
<1>1. IsFiniteSet({x \in T : x < n}) /\ {x \in S : x < n} \in SUBSET {x \in T : x < n}
  BY BelowFinite
<1> QED BY <1>1, FS_Subset DEF Below

LEMMA BelowSame ==
    ASSUME NEW S \in SUBSET Nat, NEW T \in SUBSET Nat, NEW n \in Nat,
           \A x \in Nat : x < n => (x \in S <=> x \in T)
    PROVE  Below(S, n) = Below(T, n)
<1>1. {x \in S : x < n} = {x \in T : x < n}
  OBVIOUS
<1> QED BY <1>1 DEF Below

LEMMA Numbers ==
    /\ Blocks \in SUBSET Nat
    /\ create_bbt \in SUBSET Nat
    /\ \A S : S \subseteq Blocks => S \in SUBSET Nat
BY DEF Blocks, create_bbt

-----------------------------------------------------------------------------
(* What the table counts.                                                  *)

\* An entry is the number of bad blocks in front of the block it leads to; the
\* loop ends at the end of the device or at one bad block more than an entry can
\* count; and until it is over the tags are what create_bbt saw.
TableCount ==
    /\ \A L \in Blocks : L < good_num => bb_skip_table[L] = Below(bbt, L + bb_skip_table[L])
    /\ bbi_block - good_num = Below(bbt, bbi_block)
    /\ pc # "table" =>
          bbi_block = NumBlocks \/ (bbi_block \in bbt /\ bbi_block - good_num = SkipNone)
    /\ pc # "up" => bbt = create_bbt

LEMMA InitCount == Init => TableCount
<1> SUFFICES ASSUME Init PROVE TableCount
  OBVIOUS
<1>1. PICK bad \in SUBSET (Blocks \ {0}) :
        flash = [b \in Blocks |-> Block(IF b \in bad THEN "mark" ELSE "FF")] /\ bbt = bad
  BY DEF Init
<1>2. \A b \in Blocks : flash[b].tag = IF b \in bad THEN "mark" ELSE "FF"
  BY <1>1 DEF Block
<1>3. bbt = create_bbt
  BY <1>1, <1>2 DEF create_bbt, BadTag
<1>4. bbt \in SUBSET Nat /\ 0 \notin bbt
  BY <1>1, Numbers
<1>5. Below(bbt, 0) = 0 /\ Below(bbt, 0 + 1) = 0
  BY <1>4, BelowNext
<1>6. \A L \in Blocks : (L < 1 => L = 0) /\ bb_skip_table[L] = 0
  BY DEF Init, Blocks
<1>7. pc = "table" /\ bbi_block = 1 /\ good_num = 1
  BY DEF Init
<1> QED BY <1>3, <1>5, <1>6, <1>7 DEF TableCount

LEMMA StepCount == TableInv /\ TableCount /\ [Next]_vars => TableCount'
<1> SUFFICES ASSUME TableInv, TableCount, [Next]_vars PROVE TableCount'
  OBVIOUS
<1> DEFINE T == bb_skip_table
           g == good_num
           n == bbi_block
<1>0. /\ NumBlocks \in Nat \ {0} /\ SkipNone \in Nat \ {0} /\ T \in [Blocks -> 0 .. SkipNone]
      /\ g \in 1 .. NumBlocks /\ n \in 1 .. NumBlocks /\ bbt \in SUBSET Nat
      /\ \A L \in Blocks : L \in Nat /\ T[L] \in Nat
      /\ Below(bbt, n) \in Nat
  <2>1. /\ NumBlocks \in Nat \ {0} /\ SkipNone \in Nat \ {0} /\ T \in [Blocks -> 0 .. SkipNone]
        /\ g \in 1 .. NumBlocks /\ n \in 1 .. NumBlocks /\ bbt \subseteq Blocks
    BY Constants DEF TableInv
  <2>2. \A L \in Blocks : L \in Nat /\ T[L] \in Nat
    BY <2>1 DEF Blocks
  <2>3. bbt \in SUBSET Nat
    BY <2>1, Numbers
  <2>4. n \in Nat
    BY <2>1
  <2>5. Below(bbt, n) \in Nat
    BY <2>3, <2>4, BelowFinite
  <2> QED BY <2>1, <2>2, <2>3, <2>5
<1>1. CASE create_skip_table
  <2>0. pc = "table" /\ bbt' = bbt /\ flash' = flash /\ bbt = create_bbt /\ create_bbt' = create_bbt
    BY <1>1 DEF create_skip_table, TableCount, create_bbt
  <2>1. CASE n < NumBlocks /\ n \notin bbt
    <3>1. /\ T' = [T EXCEPT ![g] = n - g] /\ g' = g + 1 /\ n' = n + 1 /\ pc' = pc
      BY <1>0, <1>1, <2>1 DEF create_skip_table, TableInv
    <3>2. g \in Blocks /\ g <= n
      BY <1>0, <2>1 DEF TableInv, Blocks
    <3>3. n' - g' = Below(bbt, n')
      <4>1. Below(bbt, n + 1) = Below(bbt, n) /\ n - g = Below(bbt, n)
        BY <1>0, <2>1, BelowNext DEF TableCount
      <4> QED BY <1>0, <3>1, <4>1
    <3>4. ASSUME NEW L \in Blocks, L < g + 1 PROVE T'[L] = Below(bbt, L + T'[L])
      <4>1. CASE L = g
        <5>1. T'[L] = n - g /\ L + T'[L] = n
          BY <1>0, <3>1, <3>2, <4>1
        <5> QED BY <5>1 DEF TableCount
      <4>2. CASE L # g
        <5>1. L < g
          BY <1>0, <3>4, <4>2
        <5>2. T'[L] = T[L]
          BY <1>0, <3>1, <3>2, <4>2
        <5> QED BY <5>1, <5>2 DEF TableCount
      <4> QED BY <4>1, <4>2
    <3> QED BY <2>0, <3>1, <3>3, <3>4 DEF TableCount
  <2>2. CASE n < NumBlocks /\ n \in bbt /\ n - g # SkipNone
    <3>1. n' = n + 1 /\ pc' = pc /\ T' = T /\ g' = g
      BY <1>0, <1>1, <2>2 DEF create_skip_table
    <3>2. n' - g' = Below(bbt, n')
      <4>1. Below(bbt, n + 1) = Below(bbt, n) + 1 /\ n - g = Below(bbt, n)
        BY <1>0, <2>2, BelowNext DEF TableCount
      <4> QED BY <1>0, <3>1, <4>1
    <3> QED BY <2>0, <3>1, <3>2 DEF TableCount
  <2>3. CASE /\ pc' = "fill" /\ UNCHANGED <<bb_skip_table, bbi_block, good_num>>
             /\ n >= NumBlocks \/ (n \in bbt /\ n - g = SkipNone)
    <3>1. n = NumBlocks \/ (n \in bbt /\ n - g = SkipNone)
      BY <1>0, <2>3
    <3> QED BY <2>0, <2>3, <3>1 DEF TableCount
  <2> QED BY <1>1, <2>1, <2>2, <2>3 DEF create_skip_table
<1>2. CASE fill_skip_table
  <2>1. /\ T' = [L \in Blocks |-> IF L < g THEN T[L] ELSE SkipNone]
        /\ pc' = "up" /\ UNCHANGED <<bbt, bbi_block, good_num>> /\ pc = "fill"
    BY <1>2 DEF fill_skip_table, TableInv
  <2>2. \A L \in Blocks : L < g => T'[L] = T[L]
    BY <2>1
  <2> QED BY <2>1, <2>2 DEF TableCount
<1>3. CASE Reboot
  <2>1. /\ bbt' = create_bbt /\ create_bbt' = create_bbt /\ T' = [L \in Blocks |-> 0]
        /\ pc' = "table" /\ n' = 1 /\ g' = 1
    BY <1>3 DEF Reboot, board_nand_init, create_bbt
  <2>2. create_bbt \in SUBSET Nat /\ 0 \notin create_bbt
    BY Numbers DEF create_bbt, BadTag
  <2>3. Below(create_bbt, 0) = 0 /\ Below(create_bbt, 0 + 1) = 0
    BY <2>2, BelowNext
  <2>4. \A L \in Blocks : (L < 1 => L = 0) /\ T'[L] = 0
    BY <2>1 DEF Blocks
  <2> HIDE DEF T, n, g
  <2> QED BY <2>1, <2>3, <2>4 DEF TableCount, T, n, g
<1>4. ASSUME UNCHANGED tableVars, pc = "up" PROVE TableCount'
  BY <1>4 DEF tableVars, TableCount
<1>5. CASE UNCHANGED vars
  BY <1>5 DEF vars, tableVars, TableCount, create_bbt
<1>6. CASE nand_write_block
  BY <1>4, <1>6 DEF nand_write_block, Busy
<1>7. ASSUME NEW p \in Parts, nand_erase(p) \/ \E v \in Versions : nand_write_start(p, v)
      PROVE  TableCount'
  BY <1>4, <1>7 DEF nand_erase, nand_write_start, Idle
<1>8. ASSUME NEW b \in Blocks, block_markbad(b) \/ scrub(b) \/ Wear(b) PROVE TableCount'
  BY <1>4, <1>8 DEF block_markbad, scrub, Wear, Idle
<1> QED BY <1>1, <1>2, <1>3, <1>5, <1>6, <1>7, <1>8 DEF Next

-----------------------------------------------------------------------------
(* The finished table.                                                     *)

LEMMA UpTable ==
    ASSUME TableInv, TableCount, pc = "up"
    PROVE  /\ \A L \in Blocks : get_good_block(L) \in Blocks
           /\ \A L \in Blocks : Mapped(L) =>
                 get_good_block(L) \notin bbt /\ get_good_block(L) = L + Below(bbt, get_good_block(L))
           /\ \A L, M \in Blocks : Mapped(M) /\ L < M => Mapped(L) /\ get_good_block(L) < get_good_block(M)
           /\ \A b \in Blocks \ bbt : Below(bbt, b) < SkipNone =>
                 \E L \in Blocks : Mapped(L) /\ get_good_block(L) = b
<1> DEFINE T == bb_skip_table
           g == good_num
           n == bbi_block
<1>1. /\ NumBlocks \in Nat /\ SkipNone \in Nat /\ g \in 1 .. NumBlocks /\ n \in 1 .. NumBlocks
      /\ T \in [Blocks -> 0 .. SkipNone] /\ bbt \in SUBSET Nat
  BY Constants, Numbers DEF TableInv
<1>2. \A L \in Blocks : L \in Nat /\ T[L] \in 0 .. SkipNone /\ (L < g \/ L >= g)
  BY <1>1 DEF Blocks
<1>3. /\ \A L \in Blocks : L < g => L + T[L] < n /\ L + T[L] \notin bbt /\ T[L] = Below(bbt, L + T[L])
      /\ \A L \in Blocks : L >= g => T[L] = SkipNone
      /\ \A L, M \in Blocks : L < M /\ M < g => T[L] <= T[M]
      /\ \A b \in Blocks \ bbt : b < n => \E L \in Blocks : L < g /\ L + T[L] = b
      /\ n - g = Below(bbt, n)
      /\ n = NumBlocks \/ (n \in bbt /\ n - g = SkipNone)
  BY DEF TableInv, TableCount
<1>4. \A L \in Blocks : Mapped(L) <=> T[L] # SkipNone
  BY DEF Mapped
<1>5. \A L \in Blocks : /\ Mapped(L) => get_good_block(L) = L + T[L]
                        /\ ~Mapped(L) => get_good_block(L) = L
  BY DEF get_good_block
<1> HIDE DEF T, g, n
<1>6. ASSUME NEW L \in Blocks, Mapped(L)
      PROVE  /\ L < g /\ get_good_block(L) = L + T[L] /\ get_good_block(L) \in Blocks
             /\ get_good_block(L) \notin bbt /\ get_good_block(L) = L + Below(bbt, get_good_block(L))
  <2>1. L < g /\ get_good_block(L) = L + T[L]
    BY <1>2, <1>3, <1>4, <1>5, <1>6
  <2>2. L + T[L] < n /\ L + T[L] \notin bbt /\ T[L] = Below(bbt, L + T[L]) /\ L + T[L] \in Nat
    BY <1>2, <1>3, <2>1
  <2>3. L + T[L] \in Blocks
    BY <1>1, <2>2 DEF Blocks
  <2> QED BY <2>1, <2>2, <2>3
<1>7. \A L \in Blocks : get_good_block(L) \in Blocks
  BY <1>5, <1>6
<1>8. ASSUME NEW L \in Blocks, NEW M \in Blocks, Mapped(M), L < M
      PROVE  Mapped(L) /\ get_good_block(L) < get_good_block(M)
  <2>1. M < g /\ get_good_block(M) = M + T[M] /\ T[M] # SkipNone
    BY <1>4, <1>6, <1>8
  <2>2. T[L] <= T[M]
    BY <1>3, <1>8, <2>1
  <2>3. Mapped(L)
    BY <1>2, <1>4, <2>1, <2>2
  <2>4. get_good_block(L) = L + T[L]
    BY <1>5, <2>3
  <2> QED BY <1>2, <1>8, <2>1, <2>2, <2>3, <2>4
<1>9. ASSUME NEW b \in Blocks \ bbt, Below(bbt, b) < SkipNone
      PROVE  \E L \in Blocks : Mapped(L) /\ get_good_block(L) = b
  <2>0. b \in Nat /\ b < NumBlocks
    BY <1>1 DEF Blocks
  <2>1. b < n
    <3> SUFFICES ASSUME n <= b PROVE FALSE
      BY <1>1, <2>0
    <3>1. n - g = SkipNone
      BY <1>1, <1>3, <2>0
    <3>a. n \in Nat /\ b \in Nat /\ bbt \in SUBSET Nat
      BY <1>1, <2>0
    <3>2. Below(bbt, n) <= Below(bbt, b) /\ Below(bbt, n) \in Nat /\ Below(bbt, b) \in Nat
      <4>1. Below(bbt, n) <= Below(bbt, b)
        BY <3>a, BelowGrows
      <4> QED BY <3>a, <4>1, BelowFinite
    <3> QED BY <1>1, <1>3, <1>9, <3>1, <3>2
  <2>2. PICK L \in Blocks : L < g /\ L + T[L] = b
    BY <1>3, <2>1
  <2>3. T[L] = Below(bbt, b)
    BY <1>3, <2>2
  <2>4. Mapped(L)
    BY <1>1, <1>2, <1>4, <1>9, <2>3
  <2> QED BY <1>5, <2>2, <2>4
<1> QED BY <1>6, <1>7, <1>8, <1>9

\* Where the logical blocks from off on begin.
LEMMA StartOrder ==
    ASSUME TableInv, TableCount, pc = "up", NEW off \in Nat, NEW s \in Nat,
           s = off + Below(bbt, s), NEW L \in Blocks, Mapped(L)
    PROVE  L >= off <=> get_good_block(L) >= s
<1> DEFINE G == get_good_block(L)
<1>1. G \in Blocks /\ G \notin bbt /\ G = L + Below(bbt, G)
  BY UpTable
<1>2. bbt \in SUBSET Nat /\ L \in Nat /\ G \in Nat
  BY <1>1, Numbers DEF TableInv, Blocks
<1> HIDE DEF G
<1>3. Below(bbt, G) \in Nat /\ Below(bbt, s) \in Nat /\ Below(bbt, G + 1) = Below(bbt, G)
  BY <1>1, <1>2, BelowFinite, BelowNext
<1>4. CASE G >= s
  <2>1. Below(bbt, G) <= Below(bbt, s) + (G - s)
    BY <1>2, <1>4, BelowGrows
  <2>2. L >= off
    BY <1>1, <1>2, <1>3, <2>1
  <2> QED BY <1>4, <2>2 DEF G
<1>5. CASE G < s
  <2>1. G + 1 <= s /\ G + 1 \in Nat
    BY <1>2, <1>5
  <2>2. Below(bbt, s) <= Below(bbt, G + 1) + (s - (G + 1))
    BY <1>2, <2>1, BelowGrows
  <2>3. L < off
    BY <1>1, <1>2, <1>3, <2>1, <2>2
  <2>4. ~(L >= off) /\ ~(G >= s)
    BY <1>2, <1>5, <2>3
  <2> QED BY <2>4 DEF G
<1> QED BY <1>2, <1>4, <1>5

-----------------------------------------------------------------------------
(* The blocks that the commands use.                                       *)

Usables(off) == UsableIn(off .. NumBlocks - 1)

LEMMA UsablesAre ==
    ASSUME NEW off \in Blocks
    PROVE  /\ Usables(off) \in SUBSET Nat /\ Usables(off) \subseteq Blocks
           /\ \A L \in Blocks : L \in Usables(off) <=> off <= L /\ ~block_bad(L)
           /\ \A L \in Blocks : UsableIn(off .. L) = {x \in Usables(off) : x < L + 1}
           /\ \A n : Fits(off, n) <=> Below(Usables(off), NumBlocks) >= n
           /\ \A k : Usable(off, k) = CHOOSE L \in Usables(off) : Below(Usables(off), L + 1) = k
<1>1. NumBlocks \in Nat /\ off \in Nat /\ \A L \in Blocks : L \in Nat /\ L < NumBlocks
  BY Constants DEF Blocks
<1>2. \A L \in off .. NumBlocks - 1 : L \in Blocks /\ L \in Nat /\ off <= L /\ L < NumBlocks
  BY <1>1 DEF Blocks
<1>3. \A L \in Blocks : off <= L => L \in off .. NumBlocks - 1
  BY <1>1
<1>4. /\ Usables(off) \in SUBSET Nat /\ Usables(off) \subseteq Blocks
      /\ \A L \in Blocks : L \in Usables(off) <=> off <= L /\ ~block_bad(L)
  <2> HIDE DEF block_bad
  <2> QED BY <1>2, <1>3 DEF Usables, UsableIn
<1>5. ASSUME NEW L \in Blocks PROVE UsableIn(off .. L) = {x \in Usables(off) : x < L + 1}
  <2>1. \A x \in off .. L : x \in off .. NumBlocks - 1 /\ x < L + 1
    BY <1>1
  <2>2. \A x \in off .. NumBlocks - 1 : x < L + 1 => x \in off .. L
    BY <1>1
  <2> HIDE DEF block_bad
  <2> QED BY <2>1, <2>2 DEF Usables, UsableIn
<1>6. {x \in Usables(off) : x < NumBlocks} = Usables(off)
  BY <1>2 DEF Usables, UsableIn
<1>7. \A n : Fits(off, n) <=> Below(Usables(off), NumBlocks) >= n
  BY <1>6 DEF Fits, Below, Usables
<1>8. ASSUME NEW k PROVE Usable(off, k) = CHOOSE L \in Usables(off) : Below(Usables(off), L + 1) = k
  <2>1. \A L \in Usables(off) : Cardinality(UsableIn(off .. L)) = Below(Usables(off), L + 1)
    BY <1>4, <1>5 DEF Below
  <2>2. Usable(off, k) = CHOOSE L \in Usables(off) : Cardinality(UsableIn(off .. L)) = k
    BY DEF Usable, Usables
  <2> HIDE DEF Usables, Usable, Below, UsableIn
  <2> QED BY <2>1, <2>2
<1> QED BY <1>4, <1>5, <1>7, <1>8

LEMMA Smallest ==
    ASSUME NEW S \in SUBSET Nat, S # {}
    PROVE  \E x \in S : \A y \in S : x <= y
<1>1. PICK x \in S : \A y \in S : ~(<<y, x>> \in OpToRel(<, Nat))
  BY NatLessThanWellFounded, WFMin
<1>2. \A y \in S : ~(y < x)
  BY <1>1 DEF OpToRel
<1> QED BY <1>2

\* The n-th element of a set of numbers that has as many.
LEMMA Kth ==
    ASSUME NEW S \in SUBSET Nat, NEW m \in Nat, NEW k \in Nat \ {0}, k <= Below(S, m)
    PROVE  \E x \in S : x < m /\ Below(S, x + 1) = k
<1> DEFINE R == {x \in Nat : Below(S, x) >= k}
<1>1. m \in R
  BY BelowFinite
<1>2. PICK y \in R : \A z \in R : y <= z
  <2> HIDE DEF R
  <2>1. R \in SUBSET Nat
    BY DEF R
  <2> QED BY <1>1, <2>1, Smallest
<1>3. y \in Nat /\ Below(S, y) >= k /\ y <= m
  BY <1>1, <1>2
<1>4. y # 0
  BY <1>3, BelowNext
<1> DEFINE x == y - 1
<1>5. x \in Nat /\ x + 1 = y /\ x < m
  BY <1>3, <1>4
<1>6. Below(S, x) \in Nat /\ Below(S, y) \in Nat
  BY <1>3, <1>5, BelowFinite
<1>7. Below(S, x) < k
  <2>1. x \notin R
    BY <1>2, <1>3, <1>5
  <2> QED BY <1>5, <1>6, <2>1
<1>8. Below(S, x + 1) = IF x \in S THEN Below(S, x) + 1 ELSE Below(S, x)
  <2> HIDE DEF x
  <2> QED BY <1>5, BelowNext
<1> HIDE DEF x, R
<1>9. x \in S /\ Below(S, x + 1) = k
  BY <1>3, <1>5, <1>6, <1>7, <1>8
<1> QED BY <1>5, <1>9

LEMMA BelowStrict ==
    ASSUME NEW S \in SUBSET Nat, NEW x \in S, NEW y \in S
    PROVE  /\ x < y <=> Below(S, x + 1) < Below(S, y + 1)
           /\ x = y <=> Below(S, x + 1) = Below(S, y + 1)
           /\ Below(S, x + 1) \in Nat \ {0}
<1>1. ASSUME NEW u \in S, NEW w \in S, u < w PROVE Below(S, u + 1) < Below(S, w + 1)
  <2>1. u \in Nat /\ w \in Nat /\ u + 1 <= w /\ u + 1 \in Nat
    BY <1>1
  <2>2. Below(S, u + 1) <= Below(S, w)
    BY <2>1, BelowGrows
  <2>3. Below(S, w + 1) = Below(S, w) + 1
    BY <2>1, BelowNext
  <2>4. Below(S, u + 1) \in Nat /\ Below(S, w) \in Nat
    BY <2>1, BelowFinite
  <2> QED BY <2>2, <2>3, <2>4
<1>2. x \in Nat /\ y \in Nat
  OBVIOUS
<1>3. Below(S, x) \in Nat /\ Below(S, x + 1) = Below(S, x) + 1 /\ Below(S, y + 1) \in Nat
  <2>1. y + 1 \in Nat
    BY <1>2
  <2> QED BY <1>2, <2>1, BelowFinite, BelowNext
<1>4. x < y => Below(S, x + 1) < Below(S, y + 1)
  BY <1>1
<1>5. y < x => Below(S, y + 1) < Below(S, x + 1)
  BY <1>1
<1> QED BY <1>2, <1>3, <1>4, <1>5

LEMMA UsableIs ==
    ASSUME NEW off \in Blocks, NEW n \in Nat, Fits(off, n), NEW k \in 1 .. n
    PROVE  /\ Usable(off, k) \in Usables(off) /\ Below(Usables(off), Usable(off, k) + 1) = k
           /\ Usable(off, k) \in Blocks /\ off <= Usable(off, k) /\ ~block_bad(Usable(off, k))
<1> DEFINE U == Usables(off)
<1>1. U \in SUBSET Nat /\ NumBlocks \in Nat /\ Below(U, NumBlocks) >= n
  BY UsablesAre, Constants
<1>2. Below(U, NumBlocks) \in Nat
  BY <1>1, BelowFinite
<1>3. k \in Nat \ {0} /\ k <= Below(U, NumBlocks)
  BY <1>1, <1>2
<1>4. \E x \in U : x < NumBlocks /\ Below(U, x + 1) = k
  <2> HIDE DEF U
  <2> QED BY <1>1, <1>3, Kth
<1>5. Usable(off, k) = CHOOSE L \in U : Below(U, L + 1) = k
  BY UsablesAre
<1>6. Usable(off, k) \in U /\ Below(U, Usable(off, k) + 1) = k
  <2> HIDE DEF U, Usable, Below
  <2> QED BY <1>4, <1>5
<1>7. Usable(off, k) \in Blocks
  BY <1>6, UsablesAre
<1> HIDE DEF Usable, block_bad
<1> QED BY <1>6, <1>7, UsablesAre

LEMMA UsableOnly ==
    ASSUME NEW off \in Blocks, NEW L \in Usables(off)
    PROVE  Usable(off, Below(Usables(off), L + 1)) = L
<1> DEFINE U == Usables(off)
           k == Below(U, L + 1)
<1>1. Usable(off, k) = CHOOSE x \in U : Below(U, x + 1) = k
  BY UsablesAre
<1>2. U \in SUBSET Nat
  BY UsablesAre
<1>3. \A x \in U : Below(U, x + 1) = k => x = L
  <2> SUFFICES ASSUME NEW x \in U, Below(U, x + 1) = Below(U, L + 1) PROVE x = L
    OBVIOUS
  <2>1. L \in U
    OBVIOUS
  <2> HIDE DEF U
  <2> QED BY <1>2, <2>1, BelowStrict
<1> QED BY <1>1, <1>3

LEMMA UsableOrder ==
    ASSUME NEW off \in Blocks, NEW n \in Nat, Fits(off, n), NEW k \in 1 .. n
    PROVE  /\ \A j \in 1 .. n : j < k <=> Usable(off, j) < Usable(off, k)
           /\ \A L \in Usables(off) : L <= Usable(off, k) => \E j \in 1 .. k : L = Usable(off, j)
<1> DEFINE U == Usables(off)
<1>1. U \in SUBSET Nat
  BY UsablesAre
<1>2. \A j \in 1 .. n : Usable(off, j) \in U /\ Below(U, Usable(off, j) + 1) = j
  BY UsableIs
<1>3. ASSUME NEW j \in 1 .. n PROVE j < k <=> Usable(off, j) < Usable(off, k)
  <2> HIDE DEF U, Usable
  <2>1. Usable(off, j) < Usable(off, k) <=> Below(U, Usable(off, j) + 1) < Below(U, Usable(off, k) + 1)
    BY <1>1, <1>2, BelowStrict
  <2> QED BY <1>2, <2>1
<1>4. ASSUME NEW L \in U, L <= Usable(off, k) PROVE \E j \in 1 .. k : L = Usable(off, j)
  <2> DEFINE j == Below(U, L + 1)
             u == Usable(off, k)
  <2>1. L = Usable(off, j)
    BY UsableOnly
  <2> HIDE DEF U, u
  <2>2. j \in Nat \ {0} /\ (u < L <=> k < j) /\ u \in U
    <3>1. Below(U, u + 1) = k /\ u \in U
      BY <1>2 DEF u
    <3> QED BY <1>1, <3>1, BelowStrict
  <2>a. \A x \in U : x \in Nat
    BY <1>1
  <2>b. L <= u /\ L \in U
    BY <1>4 DEF u
  <2>3. u \in Nat /\ L \in Nat /\ ~(u < L)
    BY <2>2, <2>a, <2>b
  <2> HIDE DEF j
  <2>4. j \in 1 .. k
    BY <2>2, <2>3
  <2> QED BY <2>1, <2>4
<1> QED BY <1>3, <1>4

-----------------------------------------------------------------------------
(* What changes of the flash.                                              *)

LEMMA WriteStep ==
    ASSUME DataType, nand_write_block
    PROVE  /\ \A x \in Blocks :
                 /\ flash'[x].tag = flash[x].tag
                 /\ x # get_good_block(Usable(job.part.off, job.k)) => flash'[x] = flash[x]
           /\ faults' \in Nat /\ faults' >= faults /\ UNCHANGED tableVars /\ pc = "up" /\ job.k > 0
<1> DEFINE b  == get_good_block(Usable(job.part.off, job.k))
           ok == [flash[b] EXCEPT !.data = Data(job.part, job.v, job.k)]
           no == [flash[b] EXCEPT !.data = Junk, !.ecc = FALSE]
<1>1. /\ flash \in FlashType /\ faults \in 0 .. MaxFaults /\ MaxFaults \in Nat
  BY SkipTableAssumption DEF DataType
<1>2. \E c \in {ok, no} : flash' = [flash EXCEPT ![b] = c]
  BY DEF nand_write_block
<1>3. faults' \in Nat /\ faults' >= faults
  <2>1. faults' = faults \/ faults' = faults + 1
    BY DEF nand_write_block, Fault
  <2> QED BY <1>1, <2>1
<1>4. b \in Blocks => ok.tag = flash[b].tag /\ no.tag = flash[b].tag
  BY <1>1 DEF FlashType
<1> HIDE DEF b, ok, no
<1>5. \A x \in Blocks : flash'[x].tag = flash[x].tag /\ (x # b => flash'[x] = flash[x])
  BY <1>1, <1>2, <1>4 DEF FlashType
<1> QED BY <1>3, <1>5 DEF nand_write_block, Busy, b

LEMMA EraseStep ==
    ASSUME DataType, NEW p \in Parts, nand_erase(p)
    PROVE  /\ \A x \in Blocks :
                 \/ flash'[x] = flash[x]
                 \/ /\ flash[x].tag = "FF" /\ flash'[x] = Block("FF")
                    /\ \E L \in UsableIn(p.off .. p.off + p.size - 1) : x = get_good_block(L)
           /\ faults' \in Nat /\ faults' >= faults /\ UNCHANGED <<tableVars, job>> /\ pc = "up" /\ job.k = 0
<1> DEFINE hit == {get_good_block(L) : L \in UsableIn(p.off .. p.off + p.size - 1)}
<1>1. /\ flash \in FlashType /\ faults \in 0 .. MaxFaults /\ MaxFaults \in Nat
  BY SkipTableAssumption DEF DataType
<1>2. \E S \in SUBSET hit : flash' = [b \in Blocks |-> IF b \in S THEN Block("FF") ELSE flash[b]]
  BY DEF nand_erase
<1>3. faults' \in Nat /\ faults' >= faults
  <2>1. faults' = faults \/ faults' = faults + 1
    BY DEF nand_erase, Fault
  <2> QED BY <1>1, <2>1
<1>4. \A x \in hit : /\ flash[x].tag = "FF"
                     /\ \E L \in UsableIn(p.off .. p.off + p.size - 1) : x = get_good_block(L)
  BY DEF UsableIn, block_bad
<1> HIDE DEF hit
<1>5. \A x \in Blocks : \/ flash'[x] = flash[x]
                        \/ flash'[x] = Block("FF") /\ x \in hit
  BY <1>2
<1> QED BY <1>3, <1>4, <1>5 DEF nand_erase, Idle

\* Marking, scrubbing and wear disturb one block.
LEMMA DisturbStep ==
    ASSUME TableInv, TableCount, DataType, NEW L \in Blocks, block_markbad(L) \/ scrub(L) \/ Wear(L)
    PROVE  /\ \E b \in Blocks : \E c : Disturb(b, c)
           /\ faults' = faults + 1 /\ faults \in Nat /\ UNCHANGED <<tableVars, job>> /\ pc = "up" /\ job.k = 0
<1>1. faults \in 0 .. MaxFaults /\ MaxFaults \in Nat
  BY SkipTableAssumption DEF DataType
<1>2. pc = "up" /\ job.k = 0 /\ faults' = faults + 1 /\ UNCHANGED <<tableVars, job>>
  BY DEF block_markbad, scrub, Wear, Idle, Fault
<1>3. get_good_block(L) \in Blocks
  BY <1>2, UpTable
<1>4. \E b \in Blocks : \E c : Disturb(b, c)
  BY <1>3 DEF block_markbad, scrub, Wear
<1> QED BY <1>1, <1>2, <1>4

-----------------------------------------------------------------------------
(* Blocks that are worn or marked but not in the table.                    *)

Worn == {b \in Blocks : flash[b].tag = "flip" \/ (flash[b].tag = "mark" /\ b \notin bbt)}

\* Each of them has cost a fault.
WornInv == Cardinality(Worn) <= faults

LEMMA WornFinite == IsFiniteSet(Worn) /\ Cardinality(Worn) \in Nat
<1>1. IsFiniteSet(Blocks) /\ Worn \in SUBSET Blocks
  BY FS_Interval, Constants DEF Blocks, Worn
<1>2. IsFiniteSet(Worn)
  BY <1>1, FS_Subset
<1> QED BY <1>2, FS_CardinalityType

LEMMA InitWorn == Init => WornInv
<1> SUFFICES ASSUME Init PROVE WornInv
  OBVIOUS
<1>1. PICK bad \in SUBSET (Blocks \ {0}) :
        flash = [b \in Blocks |-> Block(IF b \in bad THEN "mark" ELSE "FF")] /\ bbt = bad
  BY DEF Init
<1>2. \A b \in Blocks : flash[b].tag = IF b \in bad THEN "mark" ELSE "FF"
  BY <1>1 DEF Block
<1>3. Worn = {}
  BY <1>1, <1>2 DEF Worn
<1> QED BY <1>3, FS_EmptySet DEF WornInv, Init

LEMMA StepWorn == TableInv /\ TableCount /\ DataType /\ WornInv /\ [Next]_vars => WornInv'
<1> SUFFICES ASSUME TableInv, TableCount, DataType, WornInv, [Next]_vars PROVE WornInv'
  OBVIOUS
<1>0. faults \in Nat /\ IsFiniteSet(Worn) /\ Cardinality(Worn) \in Nat
  BY WornFinite, SkipTableAssumption DEF DataType
<1>1. ASSUME Worn' \subseteq Worn, faults' \in Nat, faults' >= faults PROVE WornInv'
  <2>1. Cardinality(Worn') <= Cardinality(Worn) /\ IsFiniteSet(Worn')
    BY <1>0, <1>1, FS_Subset
  <2>2. Cardinality(Worn') \in Nat
    BY <2>1, FS_CardinalityType
  <2> QED BY <1>0, <1>1, <2>1, <2>2 DEF WornInv
<1>2. CASE create_skip_table \/ fill_skip_table \/ UNCHANGED vars
  <2>1. UNCHANGED <<flash, bbt, faults>>
    BY <1>2 DEF create_skip_table, fill_skip_table, vars, tableVars
  <2> QED BY <2>1 DEF WornInv, Worn
<1>3. CASE nand_write_block
  <2>1. /\ \A x \in Blocks : flash'[x].tag = flash[x].tag
        /\ faults' \in Nat /\ faults' >= faults /\ bbt' = bbt
    BY <1>3, WriteStep DEF tableVars
  <2>2. Worn' \subseteq Worn
    BY <2>1 DEF Worn
  <2> QED BY <1>1, <2>1, <2>2
<1>4. ASSUME NEW p \in Parts, nand_erase(p) PROVE WornInv'
  <2>1. /\ \A x \in Blocks : flash'[x].tag = flash[x].tag
        /\ faults' \in Nat /\ faults' >= faults /\ bbt' = bbt
    BY <1>4, EraseStep DEF tableVars, Block
  <2>2. Worn' \subseteq Worn
    BY <2>1 DEF Worn
  <2> QED BY <1>1, <2>1, <2>2
<1>5. ASSUME NEW p \in Parts, NEW v \in Versions, nand_write_start(p, v) PROVE WornInv'
  <2>1. UNCHANGED <<flash, bbt, faults>>
    BY <1>5 DEF nand_write_start, tableVars
  <2> QED BY <2>1 DEF WornInv, Worn
<1>6. ASSUME NEW L \in Blocks, block_markbad(L) \/ scrub(L) \/ Wear(L) PROVE WornInv'
  <2>0. PICK b \in Blocks : \E c : Disturb(b, c)
    BY <1>6, DisturbStep
  <2>1. PICK c : Disturb(b, c)
    BY <2>0
  <2>2. faults' = faults + 1 /\ bbt' = bbt
    BY <1>6, DisturbStep DEF tableVars
  <2>3. \A x \in Blocks : x # b => flash'[x] = flash[x]
    BY <2>1 DEF Disturb, DataType, FlashType
  <2>4. Worn' \in SUBSET (Worn \cup {b})
    BY <2>2, <2>3 DEF Worn
  <2>5. IsFiniteSet(Worn \cup {b}) /\ Cardinality(Worn \cup {b}) <= Cardinality(Worn) + 1
        /\ Cardinality(Worn \cup {b}) \in Nat
    <3>1. /\ IsFiniteSet(Worn \cup {b})
          /\ Cardinality(Worn \cup {b}) = IF b \in Worn THEN Cardinality(Worn) ELSE Cardinality(Worn) + 1
      BY <1>0, FS_AddElement
    <3> QED BY <1>0, <3>1
  <2>6. Cardinality(Worn') <= Cardinality(Worn \cup {b}) /\ IsFiniteSet(Worn')
    BY <2>4, <2>5, FS_Subset
  <2>7. Cardinality(Worn') \in Nat
    BY <2>6, FS_CardinalityType
  <2> QED BY <1>0, <2>2, <2>5, <2>6, <2>7 DEF WornInv
<1>7. CASE Reboot
  <2>1. bbt' = create_bbt /\ UNCHANGED <<flash, faults>> /\ 0 \notin bbt
    BY <1>7 DEF Reboot, board_nand_init, TableInv
  <2>2. Worn' \subseteq Worn
    BY <2>1 DEF Worn, create_bbt, BadTag
  <2>3. faults' \in Nat /\ faults' >= faults
    BY <1>0, <2>1
  <2> QED BY <1>1, <2>2, <2>3
<1> QED BY <1>2, <1>3, <1>4, <1>5, <1>6, <1>7 DEF Next

-----------------------------------------------------------------------------
(* An image stays in its partition.                                        *)

\* The partitions leave room for the blocks that may go bad while U-Boot runs.
RoomForFaults == \A p \in Parts : p.len + MaxFaults <= p.size

\* The bad blocks that the skipping loops pass are worn, so they cannot pass
\* more than there were faults.
LEMMA Passed ==
    ASSUME TableInv, TableCount, DataType, WornInv, pc = "up",
           NEW off \in Blocks, NEW u \in Blocks, Mapped(u)
    PROVE  /\ IsFiniteSet({L \in off .. u : block_bad(L)})
           /\ Cardinality({L \in off .. u : block_bad(L)}) <= faults
<1> DEFINE B == {L \in off .. u : block_bad(L)}
           F == [L \in B |-> get_good_block(L)]
<1>1. \A L \in off .. u : L \in Blocks /\ L \in Nat /\ (L < u \/ L = u)
  BY Constants DEF Blocks
<1>2. \A L \in off .. u : Mapped(L) /\ get_good_block(L) \in Blocks /\ get_good_block(L) \notin bbt
  BY <1>1, UpTable
<1>3. \A L \in B : get_good_block(L) \in Worn
  <2> SUFFICES ASSUME NEW L \in off .. u, block_bad(L) PROVE get_good_block(L) \in Worn
    OBVIOUS
  <2>1. flash[get_good_block(L)].tag \in {"FF", "flip", "mark"}
    BY <1>2 DEF DataType, FlashType, Tags
  <2>2. flash[get_good_block(L)].tag # "FF"
    BY DEF block_bad
  <2> QED BY <1>2, <2>1, <2>2 DEF Worn
<1>4. \A L, M \in B : get_good_block(L) = get_good_block(M) => L = M
  <2> SUFFICES ASSUME NEW L \in off .. u, NEW M \in off .. u, get_good_block(L) = get_good_block(M)
               PROVE  L = M
    OBVIOUS
  <2>1. L \in Blocks /\ M \in Blocks /\ Mapped(L) /\ Mapped(M)
    BY <1>1, <1>2
  <2>2. \A x \in Blocks : x \in Nat
    BY Numbers
  <2>3. get_good_block(L) \in Nat /\ get_good_block(M) \in Nat /\ L \in Nat /\ M \in Nat
    BY <1>1, <1>2, <2>2
  <2>4. /\ L < M => get_good_block(L) < get_good_block(M)
        /\ M < L => get_good_block(M) < get_good_block(L)
    BY <2>1, UpTable
  <2> HIDE DEF get_good_block
  <2> QED BY <2>3, <2>4
<1>5. F \in Injection(B, Worn)
  <2> HIDE DEF B
  <2>1. F \in [B -> Worn]
    BY <1>3
  <2>2. IsInjective(F)
    BY <1>4 DEF IsInjective
  <2> QED BY <2>1, <2>2 DEF Injection
<1>6. IsFiniteSet(Worn) /\ Cardinality(Worn) \in Nat
  BY WornFinite
<1> HIDE DEF B, F
<1>7. IsFiniteSet(B) /\ Cardinality(B) <= Cardinality(Worn)
  BY <1>5, <1>6, FS_Injection
<1>8. Cardinality(B) \in Nat /\ faults \in Nat
  BY <1>7, FS_CardinalityType, SkipTableAssumption DEF DataType
<1>9. Cardinality(B) <= faults
  BY <1>6, <1>7, <1>8 DEF WornInv
<1> QED BY <1>7, <1>9 DEF B

LEMMA Room ==
    ASSUME TableInv, TableCount, DataType, WornInv, pc = "up",
           NEW off \in Blocks, NEW n \in Nat \ {0}, Fits(off, n), Mapped(Usable(off, n))
    PROVE  Usable(off, n) <= off + n - 1 + faults
<1> DEFINE u == Usable(off, n)
           B == {L \in off .. u : block_bad(L)}
           A == UsableIn(off .. u)
<1>1. n \in 1 .. n
  OBVIOUS
<1>2. u \in Blocks /\ off <= u /\ Below(Usables(off), u + 1) = n
  BY <1>1, UsableIs
<1>3. Mapped(u)
  OBVIOUS
<1> HIDE DEF u
<1>4. Cardinality(A) = n
  BY <1>2, UsablesAre DEF Below
<1>5. IsFiniteSet(B) /\ Cardinality(B) <= faults
  BY <1>2, <1>3, Passed
<1>6. u \in Nat /\ off \in Nat /\ faults \in Nat
  BY <1>2, SkipTableAssumption DEF Blocks, DataType
<1>7. IsFiniteSet(off .. u) /\ Cardinality(off .. u) = u - off + 1
  <2>1. IsFiniteSet(off .. u) /\ Cardinality(off .. u) = IF off > u THEN 0 ELSE u - off + 1
    BY <1>6, FS_Interval
  <2> QED BY <1>2, <1>6, <2>1
<1>8. A \cup B = off .. u /\ A \cap B = {} /\ A \in SUBSET (off .. u)
  <2> HIDE DEF block_bad
  <2> QED BY DEF UsableIn
<1>9. IsFiniteSet(A)
  <2> HIDE DEF A
  <2> QED BY <1>7, <1>8, FS_Subset
<1> HIDE DEF A, B
<1>10. Cardinality(A \cup B) = Cardinality(A) + Cardinality(B) - Cardinality(A \cap B)
  BY <1>5, <1>9, FS_Union
<1>11. Cardinality(A \cap B) = 0 /\ Cardinality(B) \in Nat
  BY <1>5, <1>8, FS_EmptySet, FS_CardinalityType
<1>12. u - off + 1 = n + Cardinality(B)
  <2>1. Cardinality(A \cup B) = u - off + 1
    BY <1>7, <1>8
  <2>2. n \in Nat
    OBVIOUS
  <2> QED BY <1>4, <1>6, <1>10, <1>11, <2>1, <2>2
<1>13. u <= off + n - 1 + faults
  BY <1>5, <1>6, <1>11, <1>12
<1> QED BY <1>13 DEF u

\* The logical blocks of an image are blocks of its partition.
LEMMA ImageInPart ==
    ASSUME RoomForFaults, TableInv, TableCount, DataType, WornInv, pc = "up",
           NEW p \in Parts, Fits(p.off, p.len), Mapped(Usable(p.off, p.len)), NEW k \in 1 .. p.len
    PROVE  /\ Usable(p.off, k) \in p.off .. p.off + p.size - 1
           /\ Usable(p.off, k) \in Blocks /\ Mapped(Usable(p.off, k))
<1>1. /\ p.off \in Blocks /\ p.size \in Nat /\ p.len \in Nat \ {0} /\ MaxFaults \in Nat
      /\ p.len + MaxFaults <= p.size
  BY SkipTableAssumption DEF RoomForFaults
<1> DEFINE u == Usable(p.off, p.len)
           x == Usable(p.off, k)
<1>2. u <= p.off + p.len - 1 + faults
  BY <1>1, Room
<1>3. p.len \in 1 .. p.len
  BY <1>1
<1>4. u \in Blocks /\ x \in Blocks /\ p.off <= x
  BY <1>1, <1>3, UsableIs
<1>5. k < p.len <=> x < u
  BY <1>1, <1>3, UsableOrder
<1>6. Mapped(u)
  OBVIOUS
<1>7. x = u \/ x < u
  <2>1. k = p.len \/ k < p.len
    BY <1>1
  <2> QED BY <1>5, <2>1
<1> HIDE DEF u, x
<1>8. Mapped(x)
  BY <1>4, <1>6, <1>7, UpTable
<1>9. \A y \in Blocks : y \in Nat
  BY Numbers
<1>10. u \in Nat /\ x \in Nat /\ p.off \in Nat /\ faults \in 0 .. MaxFaults
  BY <1>1, <1>4, <1>9 DEF DataType
<1>11. x \in p.off .. p.off + p.size - 1
  BY <1>1, <1>2, <1>4, <1>7, <1>10
<1> QED BY <1>4, <1>8, <1>11 DEF x

\* Logical blocks of two partitions never share a block of the device.
LEMMA Apart ==
    ASSUME TableInv, TableCount, pc = "up", NEW p \in Parts, NEW q \in Parts, p # q,
           NEW L \in p.off .. p.off + p.size - 1, NEW M \in q.off .. q.off + q.size - 1,
           Mapped(L), Mapped(M)
    PROVE  get_good_block(L) # get_good_block(M)
<1>1. /\ p.off \in Nat /\ p.size \in Nat /\ q.off \in Nat /\ q.size \in Nat /\ NumBlocks \in Nat
      /\ p.off + p.size <= NumBlocks /\ q.off + q.size <= NumBlocks
      /\ p.off + p.size <= q.off \/ q.off + q.size <= p.off
  BY SkipTableAssumption DEF Blocks
<1>2. L \in Blocks /\ M \in Blocks /\ (L < M \/ M < L)
  BY <1>1 DEF Blocks
<1>3. get_good_block(L) < get_good_block(M) \/ get_good_block(M) < get_good_block(L)
  BY <1>2, UpTable
<1>4. \A y \in Blocks : y \in Nat
  BY Numbers
<1>5. get_good_block(L) \in Nat /\ get_good_block(M) \in Nat
  BY <1>2, <1>4, UpTable
<1> HIDE DEF get_good_block
<1> QED BY <1>3, <1>5

-----------------------------------------------------------------------------
(* Where a written image is.                                               *)

\* Version v of the image of p starts at block s of the device and its k-th block
\* is f[k].  The table that the tags ask for now, and the one that is in use, both
\* lead there: they agree on the blocks in front of s, and behind it neither
\* skips a block that the other does not, other than by its tag.
Placed(p, v, s, f) ==
    /\ s \in Blocks /\ f \in [1 .. p.len -> Blocks]
    /\ s = p.off + Below(create_bbt, s)
    /\ \A j, k \in 1 .. p.len : j < k => f[j] < f[k]
    /\ \A k \in 1 .. p.len : s <= f[k]
    /\ \A b \in Blocks : s <= b /\ b <= f[p.len] /\ flash[b].tag = "FF" =>
          \E k \in 1 .. p.len : f[k] = b
    /\ \A k \in 1 .. p.len : flash[f[k]] = [tag |-> "FF", ecc |-> TRUE, data |-> Data(p, v, k)]
    /\ Below(create_bbt, f[p.len] + 1) < SkipNone
    /\ \A b \in Blocks : b <= f[p.len] /\ b \in bbt => b \in create_bbt
    /\ \A b \in Blocks : b < s /\ b \in create_bbt => b \in bbt

PlaceInv == \A p \in Parts : written[p] # 0 => \E s, f : Placed(p, written[p], s, f)

LEMMA PlacedOrder ==
    ASSUME NEW p \in Parts, NEW v, NEW s, NEW f, Placed(p, v, s, f)
    PROVE  /\ p.len \in Nat \ {0} /\ p.len \in 1 .. p.len /\ s \in Nat /\ p.off \in Blocks /\ p.off \in Nat
           /\ \A k \in 1 .. p.len : f[k] \in Blocks /\ f[k] \in Nat /\ s <= f[k] /\ f[k] <= f[p.len]
           /\ s <= f[p.len]
<1>1. p.len \in Nat \ {0} /\ p.off \in Blocks
  BY SkipTableAssumption
<1>2. p.len \in 1 .. p.len
  BY <1>1
<1>3. s \in Blocks /\ f \in [1 .. p.len -> Blocks] /\ \A k \in 1 .. p.len : s <= f[k]
  BY DEF Placed
<1>4. \A y \in Blocks : y \in Nat
  BY Numbers
<1>5. \A k \in 1 .. p.len : f[k] \in Blocks /\ f[k] \in Nat
  BY <1>3, <1>4
<1>6. ASSUME NEW k \in 1 .. p.len PROVE f[k] <= f[p.len]
  <2>1. k = p.len \/ k < p.len
    BY <1>1
  <2>2. k < p.len => f[k] < f[p.len]
    BY <1>2 DEF Placed
  <2> QED BY <1>2, <1>5, <2>1, <2>2
<1> QED BY <1>1, <1>2, <1>3, <1>4, <1>5, <1>6

\* The table in use leads to the image: the k-th block that the loops use is f[k].
LEMMA PlacedTable ==
    ASSUME TableInv, TableCount, pc = "up", NEW p \in Parts, NEW v, NEW s, NEW f, Placed(p, v, s, f)
    PROVE  /\ s = p.off + Below(bbt, s)
           /\ \A b \in Blocks : b <= f[p.len] => Below(bbt, b) < SkipNone
           /\ \A k \in 1 .. p.len :
                 /\ ~BadTag(f[k], flash[f[k]])
                 /\ \E L \in Usables(p.off) : Mapped(L) /\ get_good_block(L) = f[k]
           /\ \A k \in 1 .. p.len, L \in Usables(p.off) : Mapped(L) /\ get_good_block(L) <= f[k] =>
                 \E j \in 1 .. p.len : get_good_block(L) = f[j]
<1> DEFINE N == p.len
<1>0. bbt \in SUBSET Nat /\ create_bbt \in SUBSET Nat /\ bbt \subseteq Blocks /\ create_bbt \subseteq Blocks
  BY Numbers DEF TableInv, create_bbt
<1>1. /\ N \in Nat \ {0} /\ N \in 1 .. N /\ s \in Nat /\ p.off \in Blocks /\ p.off \in Nat
      /\ \A k \in 1 .. N : f[k] \in Blocks /\ f[k] \in Nat /\ s <= f[k] /\ f[k] <= f[N]
      /\ s <= f[N]
  BY PlacedOrder
<1>2. /\ \A b \in Blocks : b <= f[N] /\ b \in bbt => b \in create_bbt
      /\ \A b \in Blocks : b < s /\ b \in create_bbt => b \in bbt
      /\ s = p.off + Below(create_bbt, s)
      /\ Below(create_bbt, f[N] + 1) < SkipNone
      /\ \A k \in 1 .. N : flash[f[k]].tag = "FF"
      /\ \A b \in Blocks : s <= b /\ b <= f[N] /\ flash[b].tag = "FF" => \E k \in 1 .. N : f[k] = b
  <2>1. \A k \in 1 .. N : flash[f[k]].tag = "FF"
    <3> SUFFICES ASSUME NEW k \in 1 .. N PROVE flash[f[k]].tag = "FF"
      OBVIOUS
    <3>1. flash[f[k]] = [tag |-> "FF", ecc |-> TRUE, data |-> Data(p, v, k)]
      BY DEF Placed
    <3> QED BY <3>1
  <2> QED BY <2>1 DEF Placed
<1>3. f[N] \in Nat /\ f[N] + 1 \in Nat /\ SkipNone \in Nat
  BY <1>1, Constants
<1>4. \A b \in Blocks : b \in Nat
  BY Numbers
<1> HIDE DEF N
<1>5. s = p.off + Below(bbt, s)
  <2>1. \A x \in Nat : x < s => (x \in bbt <=> x \in create_bbt)
    <3>1. \A x \in Nat : x < s => x <= f[N]
      BY <1>1, <1>3
    <3> QED BY <1>0, <1>2, <3>1
  <2>2. Below(bbt, s) = Below(create_bbt, s)
    BY <1>0, <1>1, <2>1, BelowSame
  <2> QED BY <1>2, <2>2
<1>6. ASSUME NEW b \in Blocks, b <= f[N] PROVE Below(bbt, b) < SkipNone
  <2>1. b \in Nat /\ b <= f[N] + 1
    BY <1>3, <1>4, <1>6
  <2>2. Below(bbt, b) <= Below(bbt, f[N] + 1)
    BY <1>0, <1>3, <2>1, BelowGrows
  <2>3. \A x \in bbt : x < f[N] + 1 => x \in create_bbt
    <3>1. \A x \in bbt : x \in Nat /\ x \in Blocks
      BY <1>0
    <3>2. \A x \in Nat : x < f[N] + 1 => x <= f[N]
      BY <1>3
    <3> QED BY <1>2, <3>1, <3>2
  <2>4. Below(bbt, f[N] + 1) <= Below(create_bbt, f[N] + 1)
    BY <1>0, <1>3, <2>3, BelowSubset
  <2>5. Below(bbt, b) \in Nat /\ Below(bbt, f[N] + 1) \in Nat /\ Below(create_bbt, f[N] + 1) \in Nat
    BY <1>0, <1>3, <2>1, BelowFinite
  <2> QED BY <1>2, <1>3, <2>2, <2>4, <2>5
<1>7. ASSUME NEW k \in 1 .. N
      PROVE  ~BadTag(f[k], flash[f[k]]) /\ \E L \in Usables(p.off) : Mapped(L) /\ get_good_block(L) = f[k]
  <2>1. ~BadTag(f[k], flash[f[k]])
    BY <1>2 DEF BadTag
  <2>2. f[k] \in Blocks \ bbt /\ f[k] <= f[N]
    BY <1>1, <1>2, <2>1 DEF create_bbt
  <2>3. Below(bbt, f[k]) < SkipNone
    BY <1>6, <2>2
  <2>4. PICK L \in Blocks : Mapped(L) /\ get_good_block(L) = f[k]
    BY <2>2, <2>3, UpTable
  <2>5. L >= p.off <=> get_good_block(L) >= s
    BY <1>1, <1>5, <2>4, StartOrder
  <2>6. p.off <= L
    BY <1>1, <1>4, <2>4, <2>5
  <2>7. ~block_bad(L)
    BY <1>2, <2>4 DEF block_bad
  <2>8. L \in Usables(p.off)
    BY <1>1, <2>6, <2>7, UsablesAre
  <2> QED BY <2>1, <2>4, <2>8
<1>8. ASSUME NEW k \in 1 .. N, NEW L \in Usables(p.off), Mapped(L), get_good_block(L) <= f[k]
      PROVE  \E j \in 1 .. N : get_good_block(L) = f[j]
  <2>1. L \in Blocks /\ p.off <= L /\ ~block_bad(L)
    BY <1>1, UsablesAre
  <2>2. get_good_block(L) \in Blocks
    BY <2>1, UpTable
  <2>3. L >= p.off <=> get_good_block(L) >= s
    BY <1>1, <1>5, <1>8, <2>1, StartOrder
  <2>4. flash[get_good_block(L)].tag = "FF"
    BY <2>1 DEF block_bad
  <2> DEFINE G == get_good_block(L)
  <2>5. G \in Nat /\ L \in Nat /\ f[k] \in Nat /\ f[k] <= f[N] /\ G <= f[k]
    BY <1>1, <1>4, <1>8, <2>1, <2>2
  <2>6. s <= G /\ G \in Blocks /\ flash[G].tag = "FF"
    BY <1>1, <2>1, <2>2, <2>3, <2>4, <2>5
  <2> HIDE DEF G
  <2>7. G <= f[N]
    BY <1>3, <2>5
  <2>8. \E j \in 1 .. N : f[j] = G
    BY <1>2, <2>6, <2>7
  <2> QED BY <2>8 DEF G
<1> QED BY <1>5, <1>6, <1>7, <1>8 DEF N

\* The first k blocks of the image are the ones that the loops use up to its k-th.
LEMMA PlacedCount ==
    ASSUME TableInv, TableCount, pc = "up", NEW p \in Parts, NEW v, NEW s, NEW f, Placed(p, v, s, f),
           NEW k \in 1 .. p.len, NEW L \in Usables(p.off), Mapped(L), get_good_block(L) = f[k]
    PROVE  Below(Usables(p.off), L + 1) = k
<1> DEFINE U == Usables(p.off)
           S == {x \in U : x < L + 1}
           F == [x \in S |-> CHOOSE j \in 1 .. k : f[j] = get_good_block(x)]
<1>1. /\ p.len \in Nat /\ p.off \in Blocks /\ \A j \in 1 .. p.len : f[j] \in Nat
      /\ \A i, j \in 1 .. p.len : i < j => f[i] < f[j]
  BY PlacedOrder DEF Placed
<1>2. k \in Nat /\ k <= p.len /\ \A j \in 1 .. k : j \in 1 .. p.len
  BY <1>1
<1>3. U \in SUBSET Nat /\ U \subseteq Blocks /\ L \in U /\ \A b \in Blocks : b \in Nat
  BY <1>1, UsablesAre, Numbers
<1>4. \A i, j \in 1 .. p.len : i < j <=> f[i] < f[j]
  <2> SUFFICES ASSUME NEW i \in 1 .. p.len, NEW j \in 1 .. p.len PROVE i < j <=> f[i] < f[j]
    OBVIOUS
  <2>1. (i < j \/ i = j \/ j < i) /\ ~(i < j /\ j < i)
    BY <1>1
  <2> QED BY <1>1, <2>1
<1>5. \A x \in S : x \in Nat /\ x \in U /\ x \in Blocks /\ (x < L \/ x = L)
  BY <1>3
<1> HIDE DEF U
<1>6. ASSUME NEW x \in S
      PROVE  Mapped(x) /\ get_good_block(x) \in Nat /\ \E j \in 1 .. k : f[j] = get_good_block(x)
  <2>0. x \in Blocks /\ x \in Usables(p.off) /\ (x < L \/ x = L) /\ L \in Blocks
    BY <1>3, <1>5 DEF U
  <2> HIDE DEF S
  <2>1. Mapped(x) /\ get_good_block(x) \in Blocks /\ (x < L => get_good_block(x) < get_good_block(L))
    BY <2>0, UpTable
  <2> DEFINE G == get_good_block(x)
  <2>2. G \in Nat /\ f[k] \in Nat /\ G <= f[k]
    <3>1. G \in Nat /\ f[k] \in Nat
      BY <1>1, <1>3, <2>1
    <3>2. G < f[k] \/ G = f[k]
      BY <2>0, <2>1
    <3> HIDE DEF G
    <3> QED BY <3>1, <3>2
  <2>3. PICK j \in 1 .. p.len : G = f[j]
    BY <2>0, <2>1, <2>2, PlacedTable
  <2> HIDE DEF G
  <2>4. ~(k < j)
    BY <1>1, <1>4, <2>2, <2>3
  <2>5. j \in 1 .. k
    BY <1>1, <1>2, <2>4
  <2> QED BY <2>1, <2>2, <2>3, <2>5 DEF G
<1>7. ASSUME NEW x \in S, NEW y \in S, get_good_block(x) = get_good_block(y) PROVE x = y
  <2>1. /\ x \in Blocks /\ y \in Blocks /\ x \in Nat /\ y \in Nat /\ Mapped(x) /\ Mapped(y)
        /\ get_good_block(x) \in Nat /\ get_good_block(y) \in Nat
    BY <1>5, <1>6
  <2>2. /\ x < y => get_good_block(x) < get_good_block(y)
        /\ y < x => get_good_block(y) < get_good_block(x)
    BY <2>1, UpTable
  <2> HIDE DEF S, get_good_block
  <2> QED BY <1>7, <2>1, <2>2
<1>8. ASSUME NEW j \in 1 .. k PROVE \E x \in S : get_good_block(x) = f[j]
  <2>1. PICK x \in Usables(p.off) : Mapped(x) /\ get_good_block(x) = f[j]
    BY <1>2, PlacedTable
  <2>2. x \in Blocks /\ L \in Blocks /\ x \in Nat /\ L \in Nat
    BY <1>3 DEF U
  <2>3. L < x => get_good_block(L) < get_good_block(x)
    BY <2>1, <2>2, UpTable
  <2>4. ~(f[k] < f[j])
    <3>1. ~(k < j) /\ j \in 1 .. p.len
      BY <1>2
    <3> QED BY <1>4, <3>1
  <2>5. ~(L < x)
    BY <2>1, <2>3, <2>4
  <2>6. x < L + 1
    BY <2>2, <2>5
  <2> QED BY <2>1, <2>6 DEF U
<1>9. \A x \in S : F[x] \in 1 .. k /\ f[F[x]] = get_good_block(x)
  <2> HIDE DEF S
  <2> QED BY <1>6
<1>10. F \in Bijection(S, 1 .. k)
  <2> HIDE DEF S
  <2>0. F = [x \in S |-> F[x]] /\ DOMAIN F = S
    OBVIOUS
  <2> HIDE DEF F
  <2>1. F \in [S -> 1 .. k]
    BY <1>9, <2>0
  <2>2. \A x, y \in S : F[x] = F[y] => x = y
    BY <1>7, <1>9
  <2>3. \A j \in 1 .. k : \E x \in S : F[x] = j
    <3> SUFFICES ASSUME NEW j \in 1 .. k PROVE \E x \in S : F[x] = j
      OBVIOUS
    <3>1. PICK x \in S : get_good_block(x) = f[j]
      BY <1>8
    <3>2. F[x] \in 1 .. k /\ f[F[x]] = f[j]
      BY <1>9, <3>1
    <3>3. F[x] \in 1 .. p.len /\ j \in 1 .. p.len /\ f[j] \in Nat
      BY <1>1, <1>2, <3>2
    <3>4. ~(F[x] < j) /\ ~(j < F[x])
      BY <1>4, <3>2, <3>3
    <3>5. F[x] = j
      BY <1>1, <3>3, <3>4
    <3> QED BY <3>5
  <2> QED BY <2>0, <2>1, <2>2, <2>3 DEF Bijection, Injection, Surjection, IsInjective
<1>11. ExistsBijection(1 .. k, S)
  <2> HIDE DEF F, S
  <2>1. ExistsBijection(S, 1 .. k)
    BY <1>10 DEF ExistsBijection
  <2> QED BY <2>1, Fun_ExistsBijSymmetric
<1>12. Cardinality(S) = k
  <2> HIDE DEF S
  <2> QED BY <1>2, <1>11, FS_CountingElements
<1> QED BY <1>12 DEF Below, U

\* So nand_read_skip_bad passes the same blocks.
LEMMA PlacedUsable ==
    ASSUME TableInv, TableCount, pc = "up", NEW p \in Parts, NEW v, NEW s, NEW f, Placed(p, v, s, f)
    PROVE  /\ Fits(p.off, p.len) /\ Last(p) = f[p.len]
           /\ \A k \in 1 .. p.len :
                 /\ Usable(p.off, k) \in Blocks /\ Mapped(Usable(p.off, k))
                 /\ get_good_block(Usable(p.off, k)) = f[k]
<1> DEFINE U == Usables(p.off)
           N == p.len
<1>1. N \in Nat /\ p.off \in Blocks /\ N \in 1 .. N
  BY PlacedOrder
<1>2. U \in SUBSET Nat /\ U \subseteq Blocks
  BY <1>1, UsablesAre
<1>3. ASSUME NEW k \in 1 .. p.len
      PROVE  /\ Usable(p.off, k) \in U /\ Below(U, Usable(p.off, k) + 1) = k
             /\ Usable(p.off, k) \in Blocks /\ Mapped(Usable(p.off, k))
             /\ get_good_block(Usable(p.off, k)) = f[k]
  <2>1. PICK L \in Usables(p.off) : Mapped(L) /\ get_good_block(L) = f[k]
    BY PlacedTable
  <2>2. Below(Usables(p.off), L + 1) = k
    BY <2>1, PlacedCount
  <2>3. Usable(p.off, k) = L
    <3>1. Usable(p.off, Below(Usables(p.off), L + 1)) = L
      BY <1>1, UsableOnly
    <3> HIDE DEF Usable
    <3> QED BY <2>2, <3>1
  <2> HIDE DEF Usable, Mapped, get_good_block
  <2>4. L \in U /\ L \in Blocks
    BY <1>2
  <2> QED BY <2>1, <2>2, <2>3, <2>4
<1>4. Fits(p.off, p.len)
  <2> DEFINE u == Usable(p.off, N)
  <2>1. u \in U /\ u \in Blocks /\ Below(U, u + 1) = N
    BY <1>1, <1>3
  <2>2. NumBlocks \in Nat /\ \A b \in Blocks : b + 1 \in Nat /\ b + 1 <= NumBlocks
    BY Constants DEF Blocks
  <2> HIDE DEF U, u
  <2>3. u + 1 \in Nat /\ u + 1 <= NumBlocks
    BY <2>1, <2>2
  <2>4. Below(U, u + 1) <= Below(U, NumBlocks)
    BY <1>2, <2>2, <2>3, BelowGrows
  <2>5. Below(U, NumBlocks) \in Nat
    BY <1>2, <2>2, BelowFinite
  <2>6. Below(U, NumBlocks) >= N
    BY <1>1, <2>1, <2>4, <2>5
  <2> QED BY <1>1, <2>6, UsablesAre DEF U
<1>5. Last(p) = f[p.len]
  BY <1>1, <1>3 DEF Last
<1> QED BY <1>3, <1>4, <1>5

\* The blocks between the start of the image and the first that is used are
\* skipped by the table.
LEMMA PlacedStart ==
    ASSUME TableInv, TableCount, pc = "up", NEW p \in Parts, NEW v, NEW s, NEW f, Placed(p, v, s, f)
    PROVE  /\ get_good_block(p.off) \in Nat
           /\ \A k \in 1 .. p.len : get_good_block(p.off) <= f[k]
           /\ \A b \in Blocks : s <= b /\ b < get_good_block(p.off) => b \in bbt
<1> DEFINE g == get_good_block(p.off)
<1>1. /\ p.len \in Nat \ {0} /\ p.off \in Blocks /\ p.off \in Nat /\ s \in Nat
      /\ \A k \in 1 .. p.len : f[k] \in Nat /\ f[k] <= f[p.len] /\ f[k] \in Blocks
  BY PlacedOrder
<1>2. /\ Fits(p.off, p.len)
      /\ \A k \in 1 .. p.len :
            /\ Usable(p.off, k) \in Blocks /\ Mapped(Usable(p.off, k))
            /\ get_good_block(Usable(p.off, k)) = f[k]
  BY PlacedUsable
<1>3. \A k \in 1 .. p.len : p.off <= Usable(p.off, k)
  BY <1>1, <1>2, UsableIs
<1>4. \A b \in Blocks : b \in Nat
  BY Numbers
<1>5. g \in Blocks /\ g \in Nat
  BY <1>1, <1>4, UpTable
<1>6. ASSUME NEW k \in 1 .. p.len PROVE Mapped(p.off) /\ g <= f[k]
  <2> DEFINE u == Usable(p.off, k)
  <2>1. u \in Blocks /\ Mapped(u) /\ get_good_block(u) = f[k] /\ p.off <= u
    BY <1>2, <1>3
  <2> HIDE DEF u
  <2>2. p.off = u \/ p.off < u
    BY <1>1, <1>4, <2>1
  <2>3. p.off < u => Mapped(p.off) /\ g < f[k]
    BY <1>1, <2>1, UpTable
  <2>4. p.off = u => Mapped(p.off) /\ g = f[k]
    BY <2>1
  <2> HIDE DEF g
  <2> QED BY <1>1, <1>5, <2>2, <2>3, <2>4
<1>7. 1 \in 1 .. p.len
  BY <1>1
<1>8. ASSUME NEW b \in Blocks, s <= b, b < g, b \notin bbt PROVE FALSE
  <2>1. b <= f[p.len]
    <3>1. g <= f[1] /\ f[1] <= f[p.len] /\ f[1] \in Nat
      BY <1>1, <1>6, <1>7
    <3>2. f[p.len] \in Nat
      <4>1. p.len \in 1 .. p.len
        BY <1>1
      <4> QED BY <1>1, <4>1
    <3> HIDE DEF g
    <3> QED BY <1>4, <1>5, <1>8, <3>1, <3>2
  <2>2. Below(bbt, b) < SkipNone /\ s = p.off + Below(bbt, s)
    BY <2>1, PlacedTable
  <2>3. PICK L \in Blocks : Mapped(L) /\ get_good_block(L) = b
    BY <1>8, <2>2, UpTable
  <2>4. L >= p.off <=> get_good_block(L) >= s
    BY <1>1, <2>2, <2>3, StartOrder
  <2>5. L >= p.off
    <3>1. b >= s
      BY <1>1, <1>4, <1>8
    <3> QED BY <2>3, <2>4, <3>1
  <2>6. p.off < L => g < b
    BY <1>1, <2>3, UpTable
  <2>7. p.off = L => g = b
    BY <2>3
  <2> HIDE DEF g
  <2> QED BY <1>1, <1>4, <1>5, <1>8, <2>5, <2>6, <2>7
<1> QED BY <1>5, <1>6, <1>8

LEMMA PlacedReads ==
    ASSUME TableInv, TableCount, pc = "up", NEW p \in Parts, NEW v, NEW s, NEW f, Placed(p, v, s, f)
    PROVE  nand_read_skip_bad(p) = [ret |-> "OK", data |-> Image(p, v)]
<1>1. Fits(p.off, p.len) /\ \A k \in 1 .. p.len : get_good_block(Usable(p.off, k)) = f[k]
  BY PlacedUsable
<1>2. \A k \in 1 .. p.len : Decoded(f[k]) = Data(p, v, k)
  <2> SUFFICES ASSUME NEW k \in 1 .. p.len PROVE Decoded(f[k]) = Data(p, v, k)
    OBVIOUS
  <2>1. flash[f[k]] = [tag |-> "FF", ecc |-> TRUE, data |-> Data(p, v, k)]
    BY DEF Placed
  <2> QED BY <2>1 DEF Decoded
<1> HIDE DEF Fits, Usable, get_good_block, Decoded, Data
<1>3. [k \in 1 .. p.len |-> Decoded(get_good_block(Usable(p.off, k)))] = [k \in 1 .. p.len |-> Data(p, v, k)]
  BY <1>1, <1>2
<1> QED BY <1>1, <1>3 DEF nand_read_skip_bad, Image

LEMMA PlaceReads ==
    TableInv /\ TableCount /\ PlaceInv => ImageReadsBack
<1> SUFFICES ASSUME TableInv, TableCount, PlaceInv, pc = "up", NEW p \in Parts, written[p] # 0
             PROVE  nand_read_skip_bad(p) = [ret |-> "OK", data |-> Image(p, written[p])]
  BY DEF ImageReadsBack
<1>1. PICK s, f : Placed(p, written[p], s, f)
  BY DEF PlaceInv
<1> QED BY <1>1, PlacedReads

-----------------------------------------------------------------------------
(* What a step does to an image that is in place.                          *)

LEMMA PlacedStays ==
    ASSUME NEW p \in Parts, NEW v, NEW s, NEW f, Placed(p, v, s, f), bbt' = bbt,
           \A b \in Blocks : b <= f[p.len] => (b \in create_bbt' <=> b \in create_bbt),
           \A k \in 1 .. p.len : flash'[f[k]] = flash[f[k]],
           \A b \in Blocks : s <= b /\ b <= f[p.len] /\ flash'[b].tag = "FF" => flash[b].tag = "FF"
    PROVE  Placed(p, v, s, f)'
<1> DEFINE C == create_bbt
           e == f[p.len]
<1>1. /\ s \in Blocks /\ s \in Nat /\ e \in Nat /\ s <= e
      /\ \A b \in Blocks : b \in Nat
  <2>1. s \in Blocks /\ \A b \in Blocks : b \in Nat
    BY Numbers DEF Placed
  <2>2. s \in Nat /\ e \in Nat /\ s <= e
    BY PlacedOrder
  <2> QED BY <2>1, <2>2
<1>2. C \in SUBSET Nat /\ C' \in SUBSET Nat /\ C \subseteq Blocks /\ C' \subseteq Blocks
  BY Numbers DEF create_bbt
<1>3. /\ s = p.off + Below(C, s) /\ Below(C, e + 1) < SkipNone
      /\ \A b \in Blocks : b <= e /\ b \in bbt => b \in C
      /\ \A b \in Blocks : b < s /\ b \in C => b \in bbt
      /\ \A b \in Blocks : b <= e => (b \in C' <=> b \in C)
  BY DEF Placed
<1> HIDE DEF C
<1>4. \A x \in Nat : x <= e => (x \in C' <=> x \in C)
  BY <1>2, <1>3
<1> HIDE DEF e
<1>5. e + 1 \in Nat /\ \A x \in Nat : (x < e + 1 => x <= e) /\ (x < s => x <= e)
  BY <1>1
<1>6. Below(C', s) = Below(C, s)
  <2>1. \A x \in Nat : x < s => (x \in C' <=> x \in C)
    BY <1>4, <1>5
  <2> QED BY <1>1, <1>2, <2>1, BelowSame
<1>7. Below(C', e + 1) = Below(C, e + 1)
  <2>1. \A x \in Nat : x < e + 1 => (x \in C' <=> x \in C)
    BY <1>4, <1>5
  <2> QED BY <1>2, <1>5, <2>1, BelowSame
<1>8. \A b \in Blocks : b < s => b <= e
  BY <1>1, <1>5
<1>9. /\ s = p.off + Below(C', s) /\ Below(C', e + 1) < SkipNone
      /\ \A b \in Blocks : b <= e /\ b \in bbt' => b \in C'
      /\ \A b \in Blocks : b < s /\ b \in C' => b \in bbt'
  BY <1>3, <1>6, <1>7, <1>8
<1>10. /\ s \in Blocks /\ f \in [1 .. p.len -> Blocks]
       /\ \A j, k \in 1 .. p.len : j < k => f[j] < f[k]
       /\ \A k \in 1 .. p.len : s <= f[k]
       /\ \A b \in Blocks : s <= b /\ b <= f[p.len] /\ flash'[b].tag = "FF" =>
             \E k \in 1 .. p.len : f[k] = b
       /\ \A k \in 1 .. p.len : flash'[f[k]] = [tag |-> "FF", ecc |-> TRUE, data |-> Data(p, v, k)]
  BY DEF Placed
<1> QED BY <1>9, <1>10 DEF Placed, C, e

\* A new scan sees the tags as they are.
LEMMA PlacedReboot ==
    ASSUME NEW p \in Parts, NEW v, NEW s, NEW f, Placed(p, v, s, f), flash' = flash, bbt' = create_bbt
    PROVE  Placed(p, v, s, f)'
<1>1. create_bbt' = create_bbt
  BY DEF create_bbt
<1> HIDE DEF create_bbt
<1> QED BY <1>1 DEF Placed

\* A block that is disturbed behind the image, or in front of it without a
\* change that a new table would see.
LEMMA PlacedDisturbed ==
    ASSUME TableInv, TableCount, DataType, pc = "up", bbt' = bbt,
           NEW b \in Blocks, NEW c, Disturb(b, c),
           NEW p \in Parts, written'[p] # 0,
           NEW s, NEW f, Placed(p, written[p], s, f)
    PROVE  Placed(p, written[p], s, f)' /\ written'[p] = written[p]
<1> DEFINE v == written[p]
<1>1. /\ \A k \in 1 .. p.len : f[k] \in Blocks /\ f[k] \in Nat /\ s <= f[k] /\ f[k] <= f[p.len]
      /\ s \in Nat /\ p.len \in 1 .. p.len /\ \A x \in Blocks : x \in Nat
  BY PlacedOrder, Numbers
<1>2. Last(p) = f[p.len]
  BY PlacedUsable
<1>3. /\ get_good_block(p.off) \in Nat
      /\ \A k \in 1 .. p.len : get_good_block(p.off) <= f[k]
      /\ \A x \in Blocks : s <= x /\ x < get_good_block(p.off) => x \in bbt
  BY PlacedStart
<1>4. written'[p] = written[p] /\ written[p] # 0
      /\ ~(b <= Last(p) /\ (b >= get_good_block(p.off) \/ BadTag(b, c) # BadTag(b, flash[b])))
  <2> HIDE DEF Last, get_good_block, BadTag
  <2>1. written'[p] = IF /\ written[p] # 0 /\ b <= Last(p)
                         /\ b >= get_good_block(p.off) \/ BadTag(b, c) # BadTag(b, flash[b])
                      THEN 0 ELSE written[p]
    BY DEF Disturb
  <2> QED BY <2>1
<1>5. flash'[b] = c /\ \A x \in Blocks : x # b => flash'[x] = flash[x]
  BY DEF Disturb, DataType, FlashType
<1> DEFINE g == get_good_block(p.off)
           e == f[p.len]
<1>6. e \in Nat /\ b \in Nat
  BY <1>1
<1>7. /\ \A x \in Blocks : x <= e => (x \in create_bbt' <=> x \in create_bbt)
      /\ \A k \in 1 .. p.len : flash'[f[k]] = flash[f[k]]
      /\ \A x \in Blocks : s <= x /\ x <= e /\ flash'[x].tag = "FF" => flash[x].tag = "FF"
  <2>1. CASE ~(b <= e)
    <3>1. \A x \in Blocks : x <= e => x # b
      BY <2>1
    <3>2. \A x \in Blocks : x <= e => flash'[x] = flash[x]
      BY <1>5, <3>1
    <3>3. \A x \in Blocks : x <= e => (x \in create_bbt' <=> x \in create_bbt)
      BY <3>2 DEF create_bbt
    <3> QED BY <1>1, <3>2, <3>3
  <2>2. CASE b <= e
    <3>1. b < g /\ BadTag(b, c) = BadTag(b, flash[b])
      <4>1. ~(b >= g) /\ ~(BadTag(b, c) # BadTag(b, flash[b]))
        BY <1>2, <1>4, <2>2
      <4>2. b < g
        <5> HIDE DEF g
        <5> QED BY <1>3, <1>6, <4>1 DEF g
      <4> QED BY <4>1, <4>2
    <3>2. \A x \in Blocks : BadTag(x, flash'[x]) = BadTag(x, flash[x])
      BY <1>5, <3>1
    <3>3. create_bbt' = create_bbt
      BY <3>2 DEF create_bbt
    <3>4. \A k \in 1 .. p.len : f[k] # b
      <4> HIDE DEF g
      <4>1. \A k \in 1 .. p.len : g <= f[k] /\ g \in Nat /\ f[k] \in Nat
        BY <1>1, <1>3 DEF g
      <4> QED BY <1>6, <3>1, <4>1
    <3>5. \A k \in 1 .. p.len : flash'[f[k]] = flash[f[k]]
      BY <1>1, <1>5, <3>4
    <3>6. ASSUME NEW x \in Blocks, s <= x, x <= e, flash'[x].tag = "FF" PROVE flash[x].tag = "FF"
      <4>1. CASE x # b
        BY <1>5, <3>6, <4>1
      <4>2. CASE x = b
        <5>1. b \in bbt
          BY <1>3, <3>1, <3>6, <4>2
        <5>2. b \in create_bbt
          BY <3>6, <4>2, <5>1 DEF Placed
        <5>3. b \in create_bbt'
          BY <3>3, <5>2
        <5>4. flash'[b].tag # "FF"
          BY <5>3 DEF create_bbt, BadTag
        <5> QED BY <3>6, <4>2, <5>4
      <4> QED BY <4>1, <4>2
    <3> QED BY <3>3, <3>5, <3>6
  <2> QED BY <2>1, <2>2
<1>8. ASSUME NEW w, Placed(p, w, s, f) PROVE Placed(p, w, s, f)'
  BY <1>7, <1>8, PlacedStays
<1> QED BY <1>4, <1>8

-----------------------------------------------------------------------------
(* A write that is running.                                                *)

\* The blocks that a write uses were there when it began and still are; the
\* image it replaces is given up; and it is inside the table unless every
\* image was given up.
WriteInv ==
    job.k > 0 =>
        /\ pc = "up" /\ job.k <= job.part.len /\ Fits(job.part.off, job.part.len)
        /\ written[job.part] = 0
        /\ (\E p \in Parts : written[p] # 0) => Mapped(Usable(job.part.off, job.part.len))

\* Tags that stay leave the choice of blocks as it is.
LEMMA SameUsable ==
    ASSUME TableInv, TableCount, pc = "up", UNCHANGED tableVars,
           \A x \in Blocks : flash'[x].tag = flash[x].tag, NEW off \in Blocks, NEW n
    PROVE  /\ Fits(off, n)' = Fits(off, n) /\ Usable(off, n)' = Usable(off, n)
           /\ \A L : Mapped(L)' = Mapped(L) /\ get_good_block(L)' = get_good_block(L)
<1>1. \A L : Mapped(L)' = Mapped(L) /\ get_good_block(L)' = get_good_block(L)
  BY DEF Mapped, get_good_block, tableVars
<1>2. \A L \in Blocks : block_bad(L)' = block_bad(L)
  BY <1>1, UpTable DEF block_bad
<1>3. NumBlocks \in Nat /\ off \in Nat
  BY Constants DEF Blocks
<1>4. \A L \in off .. NumBlocks - 1 : \A x \in off .. L : x \in Blocks
  BY <1>3 DEF Blocks
<1>5. \A x \in off .. NumBlocks - 1 : x \in Blocks
  BY <1>3 DEF Blocks
<1> HIDE DEF block_bad
<1>6. UsableIn(off .. NumBlocks - 1)' = UsableIn(off .. NumBlocks - 1)
  BY <1>2, <1>5 DEF UsableIn
<1>7. \A L \in off .. NumBlocks - 1 : UsableIn(off .. L)' = UsableIn(off .. L)
  BY <1>2, <1>4 DEF UsableIn
<1>8. Fits(off, n)' = Fits(off, n)
  BY <1>6 DEF Fits
<1>9. Usable(off, n)' = Usable(off, n)
  <2>1. \A L \in UsableIn(off .. NumBlocks - 1) : UsableIn(off .. L)' = UsableIn(off .. L)
    BY <1>7 DEF UsableIn
  <2> HIDE DEF UsableIn
  <2> QED BY <1>6, <2>1 DEF Usable
<1> QED BY <1>1, <1>8, <1>9

LEMMA StepWrite ==
    TableInv /\ TableCount /\ DataType /\ WriteInv /\ [Next]_vars => WriteInv'
<1> SUFFICES ASSUME TableInv, TableCount, DataType, WriteInv, [Next]_vars PROVE WriteInv'
  OBVIOUS
<1>0. job.k \in Nat /\ (job.k > 0 => job \in JobType)
  BY Constants DEF DataType, JobType
<1>1. ASSUME job'.k = 0 PROVE WriteInv'
  BY <1>1 DEF WriteInv
<1>2. CASE create_skip_table \/ fill_skip_table
  <2>1. job' = job /\ pc # "up"
    BY <1>2 DEF create_skip_table, fill_skip_table
  <2> QED BY <1>0, <1>1, <2>1 DEF WriteInv
<1>3. CASE nand_write_block
  <2>0. /\ \A x \in Blocks : flash'[x].tag = flash[x].tag
        /\ UNCHANGED tableVars /\ pc = "up" /\ job.k > 0
    BY <1>3, WriteStep
  <2>1. job' = NoJob \/ (job.k < job.part.len /\ job' = [job EXCEPT !.k = job.k + 1] /\ written' = written)
    BY <1>3 DEF nand_write_block
  <2>2. CASE job' = NoJob
    BY <1>1, <2>2 DEF NoJob
  <2>3. CASE job.k < job.part.len /\ job' = [job EXCEPT !.k = job.k + 1] /\ written' = written
    <3>1. job \in JobType
      BY <1>0, <2>0
    <3>2. job'.part = job.part /\ job'.k = job.k + 1 /\ job.part \in Parts
      BY <2>3, <3>1 DEF JobType
    <3>3. job.part.off \in Blocks /\ job.part.len \in Nat
      BY <3>2, SkipTableAssumption
    <3> DEFINE o == job.part.off
               n == job.part.len
    <3>4. /\ Fits(o, n) /\ written[job.part] = 0
          /\ (\E p \in Parts : written[p] # 0) => Mapped(Usable(o, n))
      BY <2>0 DEF WriteInv
    <3>5. ASSUME NEW off \in Blocks, NEW m
          PROVE  /\ Fits(off, m)' = Fits(off, m) /\ Usable(off, m)' = Usable(off, m)
                 /\ \A L : Mapped(L)' = Mapped(L)
      BY <2>0, <3>5, SameUsable
    <3>6. job'.part.off = o /\ job'.part.len = n /\ job'.k <= n /\ pc' = "up"
      BY <1>0, <2>0, <2>3, <3>2, <3>3 DEF tableVars
    <3>7. Fits(job.part.off, job.part.len)'
      BY <3>3, <3>4, <3>5, <3>6
    <3>8. (\E p \in Parts : written'[p] # 0) => Mapped(Usable(job.part.off, job.part.len))'
      BY <2>3, <3>3, <3>4, <3>5, <3>6
    <3> QED BY <2>3, <3>2, <3>4, <3>6, <3>7, <3>8 DEF WriteInv
  <2> QED BY <2>1, <2>2, <2>3
<1>4. ASSUME NEW p \in Parts, nand_erase(p) PROVE WriteInv'
  BY <1>1, <1>4 DEF nand_erase, Idle
<1>5. ASSUME NEW p \in Parts, NEW v \in Versions, nand_write_start(p, v) PROVE WriteInv'
  <2>1. /\ UNCHANGED <<flash, tableVars>> /\ pc = "up" /\ Fits(p.off, p.len)
        /\ job' = [part |-> p, v |-> v, k |-> 1, skip |-> need_skip(p.off, p.len)]
        /\ written' = IF Mapped(Usable(p.off, p.len)) THEN [written EXCEPT ![p] = 0] ELSE Lost
    BY <1>5 DEF nand_write_start, Idle
  <2>2. p.off \in Blocks /\ p.len \in Nat \ {0}
    BY SkipTableAssumption
  <2>3. /\ Fits(p.off, p.len)' = Fits(p.off, p.len) /\ Usable(p.off, p.len)' = Usable(p.off, p.len)
        /\ \A L : Mapped(L)' = Mapped(L)
    BY <2>1, <2>2, SameUsable
  <2>4. job'.part = p /\ job'.k = 1 /\ pc' = "up" /\ 1 <= p.len
    BY <2>1, <2>2 DEF tableVars
  <2>5. written'[p] = 0 /\ ((\E q \in Parts : written'[q] # 0) => Mapped(Usable(p.off, p.len)))
    <3> HIDE DEF Mapped
    <3> QED BY <2>1 DEF Lost, DataType
  <2>6. Fits(job.part.off, job.part.len)'
    BY <2>1, <2>3, <2>4
  <2>7. (\E q \in Parts : written'[q] # 0) => Mapped(Usable(job.part.off, job.part.len))'
    BY <2>3, <2>4, <2>5
  <2> QED BY <2>4, <2>5, <2>6, <2>7 DEF WriteInv
<1>6. ASSUME NEW L \in Blocks, block_markbad(L) \/ scrub(L) \/ Wear(L) PROVE WriteInv'
  BY <1>1, <1>6 DEF block_markbad, scrub, Wear, Idle
<1>7. CASE Reboot
  BY <1>1, <1>7 DEF Reboot, board_nand_init, NoJob
<1>8. CASE UNCHANGED vars
  BY <1>8 DEF vars, tableVars, WriteInv, Fits, UsableIn, block_bad, get_good_block, Mapped, Usable
<1> QED BY <1>2, <1>3, <1>4, <1>5, <1>6, <1>7, <1>8 DEF Next

\* Erasing or writing a block with a good tag changes nothing for a new table.
LEMMA SameBbt ==
    ASSUME \A x \in Blocks : flash'[x] = flash[x] \/ (flash[x].tag = "FF" /\ flash'[x].tag = "FF")
    PROVE  create_bbt' = create_bbt
<1>1. \A x \in Blocks : BadTag(x, flash'[x]) = BadTag(x, flash[x])
  BY DEF BadTag
<1> QED BY <1>1 DEF create_bbt

\* A block is only written when its tag is good.
LEMMA WritesGood ==
    ASSUME TableInv, TableCount, DataType, WriteInv, nand_write_block
    PROVE  /\ job \in JobType /\ job.part \in Parts /\ job.part.off \in Blocks /\ job.part.len \in Nat \ {0}
           /\ job.k \in 1 .. job.part.len /\ Fits(job.part.off, job.part.len)
           /\ \A x \in Blocks : flash'[x] = flash[x] \/ (flash[x].tag = "FF" /\ flash'[x].tag = "FF")
<1> DEFINE u == Usable(job.part.off, job.k)
<1>1. /\ \A x \in Blocks : flash'[x].tag = flash[x].tag /\ (x # get_good_block(u) => flash'[x] = flash[x])
      /\ pc = "up" /\ job.k > 0
  BY WriteStep
<1>2. job \in JobType
  BY <1>1 DEF DataType
<1>3. job.part \in Parts /\ job.k \in Nat
  BY <1>2, Constants DEF JobType
<1>4. job.part.off \in Blocks /\ job.part.len \in Nat \ {0}
  BY <1>3, SkipTableAssumption
<1>5. job.k <= job.part.len /\ Fits(job.part.off, job.part.len)
  BY <1>1 DEF WriteInv
<1>6. job.k \in 1 .. job.part.len
  BY <1>1, <1>3, <1>4, <1>5
<1>7. ~block_bad(u)
  BY <1>4, <1>5, <1>6, UsableIs
<1>8. flash[get_good_block(u)].tag = "FF"
  BY <1>7 DEF block_bad
<1> HIDE DEF u
<1> QED BY <1>1, <1>2, <1>3, <1>4, <1>5, <1>6, <1>8

\* The end of a write that was read back.
LEMMA WriteEnds ==
    ASSUME DataType, nand_write_block, job.part \in Parts, written[job.part] = 0, written'[job.part] # 0
    PROVE  /\ Settled(job.part) /\ written'[job.part] = job.v
           /\ \A k \in 1 .. job.part.len :
                 /\ flash'[get_good_block(Usable(job.part.off, k))].ecc
                 /\ flash'[get_good_block(Usable(job.part.off, k))].data = Data(job.part, job.v, k)
<1> DEFINE p == job.part
           good == \A k \in 1 .. p.len :
                      /\ flash'[get_good_block(Usable(p.off, k))].ecc
                      /\ flash'[get_good_block(Usable(p.off, k))].data = Data(p, job.v, k)
<1>1. written' = written \/ written' = [written EXCEPT ![p] = IF good /\ Settled(p) THEN job.v ELSE 0]
  <2> HIDE DEF Settled, Usable, get_good_block, Data
  <2> QED BY DEF nand_write_block
<1>2. p \in Parts /\ written \in [Parts -> Versions \cup {0}] /\ written[p] = 0 /\ written'[p] # 0
  BY DEF DataType
<1> HIDE DEF p, good, Settled
<1>3. good /\ Settled(p) /\ written'[p] = job.v
  BY <1>1, <1>2
<1> QED BY <1>3 DEF p, good

LEMMA WritePlaces ==
    ASSUME TableInv, TableCount, DataType, WriteInv, nand_write_block,
           NEW p, p = job.part, written'[p] # 0
    PROVE  \E s, f : Placed(p, written[p], s, f)'
<1> DEFINE N == p.len
           off == p.off
           v == job.v
           s == get_good_block(off)
           f == [k \in 1 .. N |-> get_good_block(Usable(off, k))]
           e == f[N]
<1>1. /\ p \in Parts /\ off \in Blocks /\ N \in Nat \ {0} /\ Fits(off, N)
      /\ \A x \in Blocks : flash'[x] = flash[x] \/ (flash[x].tag = "FF" /\ flash'[x].tag = "FF")
  BY WritesGood
<1>2. create_bbt' = create_bbt
  BY <1>1, SameBbt
<1>3. pc = "up" /\ UNCHANGED tableVars /\ job.k > 0 /\ \A x \in Blocks : flash'[x].tag = flash[x].tag
  BY WriteStep
<1>4. written[p] = 0
  BY <1>3 DEF WriteInv
<1>5. /\ Settled(p) /\ written'[p] = v
      /\ \A k \in 1 .. N : /\ flash'[get_good_block(Usable(off, k))].ecc
                           /\ flash'[get_good_block(Usable(off, k))].data = Data(p, v, k)
  BY <1>1, <1>4, WriteEnds
<1>6. bbt' = bbt
  BY <1>3 DEF tableVars
<1>7. N \in 1 .. N /\ 1 \in 1 .. N /\ off \in Nat /\ \A x \in Blocks : x \in Nat
  BY <1>1, Numbers
<1>8. \A k \in 1 .. N : /\ Usable(off, k) \in Blocks /\ off <= Usable(off, k)
                        /\ ~block_bad(Usable(off, k)) /\ Usable(off, k) \in Usables(off)
  BY <1>1, UsableIs
<1>9. Mapped(Usable(off, N)) /\ Last(p) = e
  BY <1>5, <1>7 DEF Settled, Last
<1>10. \A k \in 1 .. N : Mapped(Usable(off, k))
  <2> SUFFICES ASSUME NEW k \in 1 .. N PROVE Mapped(Usable(off, k))
    OBVIOUS
  <2>1. k < N <=> Usable(off, k) < Usable(off, N)
    BY <1>1, <1>7, UsableOrder
  <2>2. k = N \/ k < N
    BY <1>1
  <2>3. k < N => Mapped(Usable(off, k))
    BY <1>3, <1>7, <1>8, <1>9, <2>1, UpTable
  <2> QED BY <1>9, <2>2, <2>3
<1>11. \A k \in 1 .. N : f[k] = get_good_block(Usable(off, k)) /\ f[k] \in Blocks /\ f[k] \in Nat
  BY <1>3, <1>7, <1>8, UpTable
<1>12. Mapped(off) /\ s \in Blocks /\ s \in Nat
  <2>1. off = Usable(off, 1) \/ off < Usable(off, 1)
    BY <1>7, <1>8
  <2>2. Mapped(Usable(off, 1)) /\ Usable(off, 1) \in Blocks
    BY <1>7, <1>8, <1>10
  <2>3. Mapped(off)
    BY <1>1, <1>3, <2>1, <2>2, UpTable
  <2> QED BY <1>1, <1>3, <1>7, <2>3, UpTable
<1>13. \A k \in 1 .. N : s <= f[k]
  <2> SUFFICES ASSUME NEW k \in 1 .. N PROVE s <= f[k]
    OBVIOUS
  <2> DEFINE u == Usable(off, k)
  <2>1. u \in Blocks /\ Mapped(u) /\ off <= u /\ f[k] = get_good_block(u) /\ f[k] \in Nat
    BY <1>8, <1>10, <1>11
  <2> HIDE DEF u, f
  <2>2. off = u \/ off < u
    BY <1>7, <2>1
  <2>3. off < u => s < f[k]
    BY <1>1, <1>3, <2>1, UpTable
  <2>4. off = u => s = f[k]
    BY <2>1
  <2> HIDE DEF s
  <2> QED BY <1>12, <2>1, <2>2, <2>3, <2>4
<1>14. \A j, k \in 1 .. N : j < k => f[j] < f[k]
  <2> SUFFICES ASSUME NEW j \in 1 .. N, NEW k \in 1 .. N, j < k PROVE f[j] < f[k]
    OBVIOUS
  <2>1. Usable(off, j) < Usable(off, k)
    BY <1>1, UsableOrder
  <2>2. get_good_block(Usable(off, j)) < get_good_block(Usable(off, k))
    BY <1>3, <1>8, <1>10, <2>1, UpTable
  <2> QED BY <1>11, <2>2
<1> DEFINE C == create_bbt
<1>15. /\ C \in SUBSET Nat /\ bbt \in SUBSET Nat /\ C \subseteq Blocks /\ bbt \subseteq Blocks
       /\ e \in Blocks /\ e \in Nat /\ s <= e /\ SkipNone \in Nat
  BY <1>7, <1>11, <1>13, Numbers, Constants DEF TableInv, create_bbt
<1>16. /\ \A b \in Blocks : b <= e /\ b \in bbt => b \in C
       /\ \A b \in Blocks : b < s /\ b \in C => b \in bbt
       /\ Below(C, e + 1) < SkipNone
  <2> HIDE DEF e, s
  <2>1. \A b \in Blocks : b <= e => b \in 0 .. e
    BY <1>7, <1>15
  <2>2. \A b \in Blocks : b < s => b \in 0 .. e
    BY <1>7, <1>12, <1>15
  <2>3. \A b \in 0 .. e : /\ b \in bbt => BadTag(b, flash[b])
                          /\ b < s /\ BadTag(b, flash[b]) => b \in bbt
    BY <1>5, <1>9 DEF Settled, s
  <2>4. Cardinality({b \in 0 .. e : BadTag(b, flash[b])}) < SkipNone
    BY <1>5, <1>9 DEF Settled
  <2>5. {b \in 0 .. e : BadTag(b, flash[b])} = {x \in C : x < e + 1}
    <3>1. \A x \in 0 .. e : x \in Blocks /\ x < e + 1
      BY <1>15, Constants DEF Blocks
    <3>2. \A x \in C : x < e + 1 => x \in 0 .. e
      BY <1>15
    <3>3. \A x \in Blocks : x \in C <=> BadTag(x, flash[x])
      BY DEF create_bbt
    <3> HIDE DEF C, BadTag
    <3> QED BY <1>15, <3>1, <3>2, <3>3
  <2>6. \A x \in Blocks : x \in C <=> BadTag(x, flash[x])
    BY DEF create_bbt
  <2> HIDE DEF C, BadTag
  <2>7. Below(C, e + 1) < SkipNone
    BY <2>4, <2>5 DEF Below
  <2> QED BY <2>1, <2>2, <2>3, <2>6, <2>7
<1> HIDE DEF C
<1>17. s = off + Below(bbt, s) /\ s = off + Below(C, s)
  <2>1. s = off + Below(bbt, s)
    BY <1>1, <1>3, <1>12, UpTable
  <2> HIDE DEF s, e
  <2>2. \A x \in Nat : x < s => x <= e
    BY <1>12, <1>15
  <2>3. \A x \in Nat : x < s => (x \in bbt <=> x \in C)
    BY <1>15, <1>16, <2>2
  <2>4. Below(bbt, s) = Below(C, s)
    BY <1>12, <1>15, <2>3, BelowSame
  <2> QED BY <2>1, <2>4
<1>18. ASSUME NEW b \in Blocks, s <= b, b <= e, flash'[b].tag = "FF" PROVE \E k \in 1 .. N : f[k] = b
  <2>1. flash[b].tag = "FF" /\ b \in Nat
    BY <1>3, <1>7, <1>18
  <2>2. b \notin C
    BY <2>1 DEF C, create_bbt, BadTag
  <2>3. b \in Blocks \ bbt
    BY <1>16, <1>18, <2>2
  <2> HIDE DEF e, s, f
  <2>4. Below(bbt, b) < SkipNone
    <3>1. e + 1 \in Nat /\ b <= e + 1
      BY <1>15, <1>18, <2>1
    <3>2. Below(bbt, b) <= Below(bbt, e + 1)
      BY <1>15, <2>1, <3>1, BelowGrows
    <3>3. \A x \in bbt : x < e + 1 => x \in C
      <4>1. \A x \in bbt : x \in Blocks /\ x \in Nat
        BY <1>15
      <4>2. \A x \in Nat : x < e + 1 => x <= e
        BY <1>15
      <4> QED BY <1>16, <4>1, <4>2
    <3>4. Below(bbt, e + 1) <= Below(C, e + 1)
      BY <1>15, <3>1, <3>3, BelowSubset
    <3>5. Below(bbt, b) \in Nat /\ Below(bbt, e + 1) \in Nat /\ Below(C, e + 1) \in Nat
      BY <1>15, <2>1, <3>1, BelowFinite
    <3> QED BY <1>15, <1>16, <3>2, <3>4, <3>5
  <2>5. PICK L \in Blocks : Mapped(L) /\ get_good_block(L) = b
    BY <1>3, <2>3, <2>4, UpTable
  <2>6. L >= off <=> get_good_block(L) >= s
    BY <1>3, <1>7, <1>12, <1>17, <2>5, StartOrder
  <2>7. off <= L
    <3>1. b >= s /\ L \in Nat
      BY <1>7, <1>12, <1>18, <2>1
    <3> QED BY <1>7, <2>5, <2>6, <3>1
  <2>8. ~block_bad(L)
    BY <2>1, <2>5 DEF block_bad
  <2>9. L \in Usables(off)
    BY <1>1, <2>7, <2>8, UsablesAre
  <2>10. L <= Usable(off, N)
    <3> DEFINE u == Usable(off, N)
    <3>1. u \in Blocks /\ Mapped(u) /\ get_good_block(u) = e
      BY <1>7, <1>8, <1>9 DEF e, f
    <3>2. u < L => get_good_block(u) < get_good_block(L)
      BY <1>3, <2>5, <3>1, UpTable
    <3>3. ~(e < b)
      BY <1>15, <1>18, <2>1
    <3> HIDE DEF u
    <3>4. ~(u < L) /\ u \in Nat /\ L \in Nat
      BY <1>7, <2>5, <3>1, <3>2, <3>3
    <3>5. L <= u
      BY <3>4
    <3> QED BY <3>5 DEF u
  <2>11. PICK j \in 1 .. N : L = Usable(off, j)
    BY <1>1, <1>7, <2>9, <2>10, UsableOrder
  <2>12. f[j] = b
    BY <2>5, <2>11 DEF f
  <2> QED BY <2>12
<1>19. ASSUME NEW k \in 1 .. N
       PROVE  flash'[f[k]] = [tag |-> "FF", ecc |-> TRUE, data |-> Data(p, v, k)]
  <2> DEFINE x == get_good_block(Usable(off, k))
  <2>1. x \in Blocks /\ f[k] = x
    BY <1>11
  <2>2. flash[x].tag = "FF"
    BY <1>8 DEF block_bad
  <2>3. flash'[x].ecc /\ flash'[x].data = Data(p, v, k)
    BY <1>5
  <2>4. DataType'
    BY WriteBlockType
  <2> HIDE DEF x, f, Data
  <2>5. flash'[x] \in [tag : Tags, ecc : BOOLEAN, data : Contents]
    BY <2>1, <2>4 DEF DataType, FlashType
  <2>6. flash'[x].tag = "FF"
    BY <1>3, <2>1, <2>2
  <2>7. flash'[x].ecc = TRUE
    BY <2>3, <2>5
  <2> HIDE DEF Contents
  <2>8. flash'[x] = [tag |-> flash'[x].tag, ecc |-> flash'[x].ecc, data |-> flash'[x].data]
    BY <2>5
  <2> QED BY <2>1, <2>3, <2>6, <2>7, <2>8
<1>20. f \in [1 .. N -> Blocks]
  BY <1>11
<1> HIDE DEF f, s, Data
<1>21. C' = C
  BY <1>2 DEF C
<1>22. /\ s \in Blocks /\ f \in [1 .. N -> Blocks]
       /\ s = p.off + Below(C', s)
       /\ \A j, k \in 1 .. p.len : j < k => f[j] < f[k]
       /\ \A k \in 1 .. p.len : s <= f[k]
       /\ \A b \in Blocks : s <= b /\ b <= f[p.len] /\ flash'[b].tag = "FF" =>
             \E k \in 1 .. p.len : f[k] = b
       /\ \A k \in 1 .. p.len : flash'[f[k]] = [tag |-> "FF", ecc |-> TRUE, data |-> Data(p, written'[p], k)]
       /\ Below(C', f[p.len] + 1) < SkipNone
       /\ \A b \in Blocks : b <= f[p.len] /\ b \in bbt' => b \in C'
       /\ \A b \in Blocks : b < s /\ b \in C' => b \in bbt'
  BY <1>5, <1>6, <1>12, <1>13, <1>14, <1>16, <1>17, <1>18, <1>19, <1>20, <1>21
<1>23. ASSUME NEW S, NEW F, NEW w,
              /\ S \in Blocks /\ F \in [1 .. N -> Blocks]
              /\ S = p.off + Below(C', S)
              /\ \A j, k \in 1 .. p.len : j < k => F[j] < F[k]
              /\ \A k \in 1 .. p.len : S <= F[k]
              /\ \A b \in Blocks : S <= b /\ b <= F[p.len] /\ flash'[b].tag = "FF" =>
                    \E k \in 1 .. p.len : F[k] = b
              /\ \A k \in 1 .. p.len : flash'[F[k]] = [tag |-> "FF", ecc |-> TRUE, data |-> Data(p, w, k)]
              /\ Below(C', F[p.len] + 1) < SkipNone
              /\ \A b \in Blocks : b <= F[p.len] /\ b \in bbt' => b \in C'
              /\ \A b \in Blocks : b < S /\ b \in C' => b \in bbt'
       PROVE  Placed(p, w, S, F)'
  BY <1>23 DEF Placed, C
<1> QED BY <1>22, <1>23

\* Erasing and writing in one partition leaves the images of the others where
\* they are.
LEMMA ErasePlaced ==
    ASSUME RoomForFaults, TableInv, TableCount, DataType, WornInv,
           NEW q \in Parts, nand_erase(q), NEW p \in Parts, written'[p] # 0,
           NEW v, NEW s, NEW f, Placed(p, v, s, f)
    PROVE  Placed(p, v, s, f)' /\ written'[p] = written[p]
<1> DEFINE R == q.off .. q.off + q.size - 1
<1>1. /\ \A x \in Blocks :
            \/ flash'[x] = flash[x]
            \/ /\ flash[x].tag = "FF" /\ flash'[x] = Block("FF")
               /\ \E L \in UsableIn(R) : x = get_good_block(L)
      /\ UNCHANGED tableVars /\ pc = "up"
  BY EraseStep
<1>2. \A L \in R : Mapped(L)
  <2> HIDE DEF Mapped
  <2> QED BY DEF nand_erase, Lost
<1>3. p # q /\ written'[p] = written[p]
  <2>1. written' = [written EXCEPT ![q] = 0]
    BY <1>2 DEF nand_erase
  <2> QED BY <2>1 DEF DataType
<1>4. /\ Fits(p.off, p.len) /\ p.len \in 1 .. p.len
      /\ \A k \in 1 .. p.len : /\ Usable(p.off, k) \in Blocks /\ Mapped(Usable(p.off, k))
                               /\ get_good_block(Usable(p.off, k)) = f[k] /\ f[k] \in Blocks
  BY <1>1, PlacedUsable, PlacedOrder
<1>5. \A x \in Blocks : flash'[x] = flash[x] \/ (flash[x].tag = "FF" /\ flash'[x].tag = "FF")
  BY <1>1 DEF Block
<1>6. create_bbt' = create_bbt
  BY <1>5, SameBbt
<1>7. ASSUME NEW k \in 1 .. p.len PROVE flash'[f[k]] = flash[f[k]]
  <2> DEFINE u == Usable(p.off, k)
  <2>1. u \in p.off .. p.off + p.size - 1 /\ Mapped(u) /\ get_good_block(u) = f[k]
    BY <1>1, <1>4, ImageInPart
  <2> HIDE DEF u
  <2>2. \A L \in R : f[k] # get_good_block(L)
    BY <1>1, <1>2, <1>3, <2>1, Apart
  <2>3. \A L \in UsableIn(R) : f[k] # get_good_block(L)
    BY <2>2 DEF UsableIn
  <2> HIDE DEF get_good_block, R
  <2> QED BY <1>1, <1>4, <2>3
<1>8. bbt' = bbt /\ \A x \in Blocks : flash'[x].tag = "FF" => flash[x].tag = "FF"
  BY <1>1, <1>5 DEF tableVars
<1> QED BY <1>3, <1>6, <1>7, <1>8, PlacedStays

LEMMA WritePlaced ==
    ASSUME RoomForFaults, TableInv, TableCount, DataType, WornInv, WriteInv, nand_write_block,
           NEW p \in Parts, p # job.part, written'[p] # 0,
           NEW v, NEW s, NEW f, Placed(p, v, s, f)
    PROVE  Placed(p, v, s, f)'
<1> DEFINE q == job.part
           w == Usable(q.off, job.k)
<1>1. /\ q \in Parts /\ job.k \in 1 .. q.len /\ Fits(q.off, q.len)
      /\ \A x \in Blocks : flash'[x] = flash[x] \/ (flash[x].tag = "FF" /\ flash'[x].tag = "FF")
  BY WritesGood
<1>2. /\ \A x \in Blocks : x # get_good_block(w) => flash'[x] = flash[x]
      /\ UNCHANGED tableVars /\ pc = "up" /\ job.k > 0
  BY WriteStep
<1>3. written'[p] = written[p]
  <2>1. written' = written \/ \E y : written' = [written EXCEPT ![q] = y]
    <3> HIDE DEF Settled, Usable, get_good_block, Data
    <3> QED BY DEF nand_write_block
  <2> QED BY <2>1 DEF DataType
<1>4. Mapped(Usable(q.off, q.len))
  BY <1>2, <1>3 DEF WriteInv
<1>5. w \in q.off .. q.off + q.size - 1 /\ Mapped(w)
  BY <1>1, <1>2, <1>4, ImageInPart
<1>6. /\ Fits(p.off, p.len) /\ p.len \in 1 .. p.len
      /\ \A k \in 1 .. p.len : /\ Usable(p.off, k) \in Blocks /\ Mapped(Usable(p.off, k))
                               /\ get_good_block(Usable(p.off, k)) = f[k] /\ f[k] \in Blocks
  BY <1>2, PlacedUsable, PlacedOrder
<1>7. create_bbt' = create_bbt
  BY <1>1, SameBbt
<1>a. p # q
  OBVIOUS
<1> HIDE DEF w, q
<1>8. ASSUME NEW k \in 1 .. p.len PROVE flash'[f[k]] = flash[f[k]]
  <2> DEFINE u == Usable(p.off, k)
  <2>1. u \in p.off .. p.off + p.size - 1 /\ Mapped(u) /\ get_good_block(u) = f[k]
    BY <1>2, <1>6, ImageInPart
  <2> HIDE DEF u
  <2>2. f[k] # get_good_block(w)
    BY <1>1, <1>2, <1>5, <1>a, <2>1, Apart
  <2> QED BY <1>2, <1>6, <2>2
<1>9. bbt' = bbt /\ \A x \in Blocks : flash'[x].tag = "FF" => flash[x].tag = "FF"
  BY <1>1, <1>2 DEF tableVars
<1> QED BY <1>7, <1>8, <1>9, PlacedStays

ImageInv == TableInv /\ TableCount /\ DataType /\ WornInv /\ WriteInv /\ PlaceInv

LEMMA StepPlace == RoomForFaults /\ ImageInv /\ [Next]_vars => PlaceInv'
<1> SUFFICES ASSUME RoomForFaults, ImageInv, [Next]_vars PROVE PlaceInv'
  OBVIOUS
<1> USE DEF ImageInv
<1>1. ASSUME NEW p \in Parts, written'[p] # 0, written'[p] = written[p],
             \A s, f : Placed(p, written[p], s, f) => Placed(p, written[p], s, f)'
      PROVE  \E s, f : Placed(p, written[p], s, f)'
  <2>1. PICK s, f : Placed(p, written[p], s, f)
    BY <1>1 DEF PlaceInv
  <2> QED BY <1>1, <2>1
<1>2. SUFFICES ASSUME NEW p \in Parts, written'[p] # 0
               PROVE  \E s, f : Placed(p, written[p], s, f)'
  BY DEF PlaceInv
<1>3. ASSUME UNCHANGED <<flash, bbt>>, NEW v, NEW s, NEW f, Placed(p, v, s, f)
      PROVE  Placed(p, v, s, f)'
  BY <1>3 DEF Placed, create_bbt
<1>4. CASE create_skip_table \/ fill_skip_table \/ UNCHANGED vars
  <2>1. UNCHANGED <<flash, bbt, written>>
    BY <1>4 DEF create_skip_table, fill_skip_table, vars, tableVars
  <2> QED BY <1>1, <1>2, <1>3, <2>1
<1>5. CASE nand_write_block
  <2>1. CASE p = job.part
    BY <1>2, <1>5, <2>1, WritePlaces
  <2>2. CASE p # job.part
    <3>1. written'[p] = written[p]
      <4>1. written' = written \/ \E y : written' = [written EXCEPT ![job.part] = y]
        <5> HIDE DEF Settled, Usable, get_good_block, Data
        <5> QED BY <1>5 DEF nand_write_block
      <4> QED BY <2>2, <4>1 DEF DataType
    <3>2. ASSUME NEW v, NEW s, NEW f, Placed(p, v, s, f) PROVE Placed(p, v, s, f)'
      BY <1>2, <1>5, <2>2, <3>2, WritePlaced
    <3> QED BY <1>1, <1>2, <3>1, <3>2
  <2> QED BY <2>1, <2>2
<1>6. ASSUME NEW q \in Parts, nand_erase(q) PROVE \E s, f : Placed(p, written[p], s, f)'
  <2>1. ASSUME NEW v, NEW s, NEW f, Placed(p, v, s, f)
        PROVE  Placed(p, v, s, f)' /\ written'[p] = written[p]
    BY <1>2, <1>6, <2>1, ErasePlaced
  <2>2. written[p] # 0
    <3> HIDE DEF Mapped
    <3> QED BY <1>2, <1>6 DEF nand_erase, Lost, DataType
  <2>3. PICK s, f : Placed(p, written[p], s, f)
    BY <2>2 DEF PlaceInv
  <2>4. written'[p] = written[p]
    BY <2>1, <2>3
  <2> QED BY <2>1, <2>3, <2>4
<1>7. ASSUME NEW q \in Parts, NEW v \in Versions, nand_write_start(q, v)
      PROVE  \E s, f : Placed(p, written[p], s, f)'
  <2>1. UNCHANGED <<flash, bbt>>
    BY <1>7 DEF nand_write_start, tableVars
  <2>2. written'[p] = written[p]
    <3> HIDE DEF Mapped
    <3> QED BY <1>2, <1>7 DEF nand_write_start, Lost, DataType
  <2> QED BY <1>1, <1>2, <1>3, <2>1, <2>2
<1>8. ASSUME NEW L \in Blocks, block_markbad(L) \/ scrub(L) \/ Wear(L)
      PROVE  \E s, f : Placed(p, written[p], s, f)'
  <2>1. PICK b \in Blocks : \E c : Disturb(b, c)
    BY <1>8, DisturbStep
  <2>2. PICK c : Disturb(b, c)
    BY <2>1
  <2>3. pc = "up" /\ bbt' = bbt
    BY <1>8, DisturbStep DEF tableVars
  <2>4. written[p] # 0
    <3> HIDE DEF Last, get_good_block, BadTag
    <3> QED BY <1>2, <2>2 DEF Disturb
  <2>5. PICK s, f : Placed(p, written[p], s, f)
    BY <2>4 DEF PlaceInv
  <2> QED BY <1>2, <2>2, <2>3, <2>5, PlacedDisturbed
<1>9. CASE Reboot
  <2>1. flash' = flash /\ bbt' = create_bbt /\ written' = written
    BY <1>9 DEF Reboot, board_nand_init
  <2>2. ASSUME NEW v, NEW s, NEW f, Placed(p, v, s, f) PROVE Placed(p, v, s, f)'
    BY <2>1, <2>2, PlacedReboot
  <2> QED BY <1>1, <1>2, <2>1, <2>2
<1> QED BY <1>4, <1>5, <1>6, <1>7, <1>8, <1>9 DEF Next

\* What nand_write_skip_bad wrote and read back is what nand_read_skip_bad
\* returns, in this session and after every restart, for any number of blocks
\* and pattern of bad ones, any partitions and images and any number of faults:
\* wherever power fails, whatever the other partitions are erased and written
\* with, and whichever blocks behind the image are marked, scrubbed or worn.  The
\* hypothesis is that each partition has room for its image and for as many
\* blocks as may go bad: nand_write_skip_bad looks for usable blocks up to the end
\* of the device, so an image in a smaller partition may reach into the next one.
THEOREM WrittenImageReadsBack == RoomForFaults => (Spec => []ImageReadsBack)
<1> SUFFICES ASSUME RoomForFaults PROVE Spec => []ImageReadsBack
  OBVIOUS
<1>1. Init => ImageInv
  <2> SUFFICES ASSUME Init PROVE ImageInv
    OBVIOUS
  <2>1. job.k = 0 /\ \A p \in Parts : written[p] = 0
    BY DEF Init, NoJob
  <2>2. WriteInv /\ PlaceInv
    BY <2>1 DEF WriteInv, PlaceInv
  <2> QED BY <2>2, InitTable, InitCount, InitData, InitWorn DEF ImageInv
<1>2. ImageInv /\ [Next]_vars => ImageInv'
  <2> SUFFICES ASSUME ImageInv, [Next]_vars PROVE ImageInv'
    OBVIOUS
  <2>1. TableInv' /\ TableCount' /\ DataType'
    BY StepTable, StepCount, StepData DEF ImageInv
  <2>2. WornInv' /\ WriteInv'
    BY StepWorn, StepWrite DEF ImageInv
  <2>3. PlaceInv'
    BY StepPlace
  <2> QED BY <2>1, <2>2, <2>3 DEF ImageInv
<1>3. ImageInv => ImageReadsBack
  BY PlaceReads DEF ImageInv
<1> QED BY <1>1, <1>2, <1>3, PTL DEF Spec
=============================================================================
