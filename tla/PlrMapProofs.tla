---------------------------- MODULE PlrMapProofs ----------------------------
(***************************************************************************)
(* Proofs about the preloader's chunk table, for every image size, number  *)
(* of copies, geometry of the device and pattern of damage: a table that   *)
(* nsu_init reports complete maps every chunk, and a logical page read     *)
(* that reports success delivers exactly the chunks of its page.           *)
(***************************************************************************)
EXTENDS PlrMap, FiniteSetTheorems, TLAPS

\* What bchenc guarantees of a page with one of the preloader's signatures.
PageOK(p) ==
    /\ p.sig = "plr" => p.total_chunk = Total
    /\ p.sig \in {"plr", "plr_fl"} => p.idx_chunk \in 0 .. Total - 1 /\ p.data = p.idx_chunk

\* The image is in front of the pages that an entry of the table cannot name.
InReach(f, a) == f[a].sig \in {"plr", "plr_fl"} => a < AllOnes

\* The entries of the table that have been filled.
Filled == {k \in Indices : plr_vmpage_table[k] # EMPTY}

\* An entry names a page of its chunk.
EntryOK(k) ==
    plr_vmpage_table[k] # EMPTY =>
        /\ flash[plr_vmpage_table[k]].sig \in {"plr", "plr_fl"}
        /\ flash[plr_vmpage_table[k]].idx_chunk = k

\* The inductive invariant: the counter is the number of filled entries, which
\* is what makes reaching the total mean that none is missing.
PlrInv ==
    /\ TypeOK
    /\ cnt_pge <= blk_pge_addr
    /\ \A a \in Addrs : PageOK(flash[a])
    /\ \A a \in Addrs : InReach(flash, a)
    /\ \A k \in Indices : EntryOK(k)
    /\ cnt_valid_chunk = Cardinality(Filled)
    /\ phase = "ready" => cnt_valid_chunk = Total
    /\ ReadsAreExact

\* The sizes are positive numbers.
LEMMA Sizes ==
    /\ Total \in Nat \ {0}
    /\ Written \in Nat \ {0}
    /\ Total <= TableSize
    /\ NumVPages \in Nat \ {0}
    /\ NumRest <= NumVPages * ChunksPerPage
<1>1. Total \in Nat \ {0} /\ Total = NumFl + NumRest
  BY PlrAssumption DEF Total
<1>2. Written \in Nat \ {0}
  BY <1>1, PlrAssumption DEF Written
<1>3. NumVPages \in Nat \ {0} /\ NumRest <= NumVPages * ChunksPerPage
  BY PlrAssumption DEF NumVPages
<1>4. Total <= TableSize
  BY <1>1, <1>3, PlrAssumption
<1> QED BY <1>1, <1>2, <1>3, <1>4

\* A page of the image fits an entry of the table, which is then not taken for
\* an empty one.
LEMMA CastFits ==
    ASSUME NEW a \in Nat, a < AllOnes
    PROVE  u16_t(a) = a /\ u16_t(a) # EMPTY
BY DEF u16_t, EMPTY, AllOnes

\* A virtual page of the area has at least one chunk, and its entries are in
\* the table.
LEMMA VPageEntries ==
    ASSUME NEW n \in 0 .. NumVPages - 1
    PROVE  /\ n * ChunksPerPage \in Nat
           /\ n * ChunksPerPage < NumRest
           /\ NumFl + n * ChunksPerPage + ChunksPerPage <= TableSize
<1>0. ChunksPerPage \in Nat \ {0} /\ NumRest \in Nat \ {0} /\ n \in Nat /\ NumVPages \in Nat \ {0}
  BY Sizes, PlrAssumption
<1>1. (n + 1) * ChunksPerPage <= NumVPages * ChunksPerPage
  BY <1>0
<1>2. (NumVPages - 1) * ChunksPerPage < NumRest
  BY <1>0 DEF NumVPages
<1>3. n * ChunksPerPage <= (NumVPages - 1) * ChunksPerPage
  BY <1>0
<1>4. n * ChunksPerPage \in Nat /\ (NumVPages - 1) * ChunksPerPage \in Nat
      /\ (n + 1) * ChunksPerPage = n * ChunksPerPage + ChunksPerPage
      /\ ChunksPerPage * NumVPages = NumVPages * ChunksPerPage
      /\ NumVPages * ChunksPerPage \in Nat
  BY <1>0
<1>5. n * ChunksPerPage < NumRest
  BY <1>0, <1>2, <1>3, <1>4
<1>6. NumFl + n * ChunksPerPage + ChunksPerPage <= TableSize
  BY <1>0, <1>1, <1>4, PlrAssumption
<1> QED BY <1>4, <1>5, <1>6

\* An erased page is a page.
LEMMA BlankIsPage == BlankPage \in Page /\ BlankPage.sig = "none"
BY DEF BlankPage, Page, Signatures, AllOnes, Sectors

\* The pages bchenc writes.
LEMMA WrittenPages ==
    ASSUME NEW off \in Nat
    PROVE  write_out_plr(off) \in Page /\ PageOK(write_out_plr(off))
<1>1. CASE off < Written
  <2> DEFINE r == off \div Total
             k == off % Total
  <2>1. r \in Nat /\ k \in 0 .. Total - 1
    BY Sizes
  <2>2. write_out_plr(off) = PlrPage(r, k)
    BY <1>1 DEF write_out_plr
  <2> HIDE DEF r, k
  <2>3. Total \in Nat /\ Copies \in Nat /\ NumFl \in Nat /\ k \in Nat
    BY <2>1, Sizes, PlrAssumption
  <2>4. CASE k < NumFl
    <3>1. PlrPage(r, k) = [BlankPage EXCEPT !.sig = "plr_fl", !.idx_chunk = k, !.data = k]
      BY <2>4 DEF PlrPage
    <3>2. PlrPage(r, k) =
            [sig |-> "plr_fl", idx_copy |-> AllOnes, idx_chunk |-> k,
             total_chunk |-> AllOnes, num_copy |-> AllOnes, data |-> k, bad |-> {}]
      BY <3>1 DEF BlankPage
    <3> QED BY <2>1, <2>2, <2>3, <3>2 DEF PageOK, Page, Signatures, AllOnes
  <2>5. CASE ~(k < NumFl)
    <3>1. PlrPage(r, k) =
            [sig |-> "plr", idx_copy |-> r, idx_chunk |-> k, total_chunk |-> Total,
             num_copy |-> Copies, data |-> k, bad |-> {}]
      BY <2>5 DEF PlrPage
    <3> QED BY <2>1, <2>2, <2>3, <3>1 DEF PageOK, Page, Signatures
  <2> QED BY <2>4, <2>5
<1>2. CASE ~(off < Written)
  BY <1>2, BlankIsPage DEF write_out_plr, PageOK
<1> QED BY <1>1, <1>2

\* Damage does not change what a page with a signature holds.
LEMMA DamagedPage ==
    ASSUME NEW p \in Page, PageOK(p), NEW B \in SUBSET Sectors
    PROVE  [p EXCEPT !.bad = B] \in Page /\ PageOK([p EXCEPT !.bad = B])
BY DEF Page, PageOK

\* Every initial content of the device.
LEMMA InitialFlash ==
    ASSUME NEW h \in Nat, NEW D, NEW lost \in BOOLEAN, NEW a \in Addrs
    PROVE  /\ Damaged(Programmed(h), D, lost)[a] \in Page
           /\ PageOK(Damaged(Programmed(h), D, lost)[a])
           /\ h <= Written => InReach(Damaged(Programmed(h), D, lost), a)
<1>0. a \in Nat /\ PagesPerBlock \in Nat /\ NumSectors \in Nat \ {0}
  BY FlashAssumption, PlrAssumption DEF Addrs
<1>1. BlankPage \in Page /\ PageOK(BlankPage)
  BY BlankIsPage DEF PageOK
<1>2. {0} \in SUBSET Sectors /\ Sectors \in SUBSET Sectors
  BY <1>0 DEF Sectors
<1> DEFINE f == Programmed(h)
<1>3. f[a] \in Page /\ PageOK(f[a])
  <2>1. f[a] = IF a < h THEN write_out_plr(a)
               ELSE IF h >= Written THEN BlankPage
               ELSE IF a < h + PagesPerBlock THEN [BlankPage EXCEPT !.bad = Sectors]
               ELSE write_out_plr(a - PagesPerBlock)
    BY DEF Programmed
  <2>2. CASE a < h
    BY <1>0, <2>1, <2>2, WrittenPages
  <2>3. CASE ~(a < h) /\ h >= Written
    BY <1>1, <2>1, <2>3
  <2>4. CASE ~(a < h) /\ ~(h >= Written) /\ a < h + PagesPerBlock
    BY <1>1, <1>2, <2>1, <2>4, DamagedPage
  <2>5. CASE ~(a < h) /\ ~(h >= Written) /\ ~(a < h + PagesPerBlock)
    <3>1. a - PagesPerBlock \in Nat
      BY <1>0, <2>5
    <3> QED BY <2>1, <2>5, <3>1, WrittenPages
  <2> QED BY <2>2, <2>3, <2>4, <2>5
<1> HIDE DEF f
<1>4. Damaged(f, D, lost)[a] =
        IF a \notin D THEN f[a]
        ELSE [(IF lost THEN BlankPage ELSE f[a]) EXCEPT !.bad = {0}]
  BY DEF Damaged
<1>5. (IF lost THEN BlankPage ELSE f[a]) \in Page /\ PageOK(IF lost THEN BlankPage ELSE f[a])
  BY <1>1, <1>3
<1>6. /\ [(IF lost THEN BlankPage ELSE f[a]) EXCEPT !.bad = {0}] \in Page
      /\ PageOK([(IF lost THEN BlankPage ELSE f[a]) EXCEPT !.bad = {0}])
  BY <1>2, <1>5, DamagedPage
<1>7. Damaged(f, D, lost)[a] \in Page /\ PageOK(Damaged(f, D, lost)[a])
  BY <1>3, <1>4, <1>6
<1>8. Damaged(f, D, lost)[a].sig \in {f[a].sig, "none"}
  <2>1. CASE a \in D
    <3>1. [(IF lost THEN BlankPage ELSE f[a]) EXCEPT !.bad = {0}].sig = (IF lost THEN BlankPage ELSE f[a]).sig
      BY <1>5 DEF Page
    <3> QED BY <1>4, <2>1, <3>1, BlankIsPage
  <2>2. CASE a \notin D
    BY <1>4, <2>2
  <2> QED BY <2>1, <2>2
<1>9. h <= Written /\ a >= AllOnes => f[a].sig = "none"
  <2> SUFFICES ASSUME h <= Written, a >= AllOnes PROVE f[a].sig = "none"
    OBVIOUS
  <2>1. /\ ~(a < h) /\ ~(a < h + PagesPerBlock) /\ ~(a - PagesPerBlock < Written)
        /\ a - PagesPerBlock \in Nat
    BY <1>0, Sizes, PlrAssumption DEF AllOnes
  <2> QED BY <2>1, BlankIsPage DEF f, Programmed, write_out_plr
<1>10. h <= Written => InReach(Damaged(f, D, lost), a)
  BY <1>0, <1>8, <1>9 DEF InReach, AllOnes
<1> QED BY <1>7, <1>10 DEF f

\* The invariant holds when nsu_init starts.
LEMMA InitPlrInv == Init => PlrInv
<1> SUFFICES ASSUME Init PROVE PlrInv
  OBVIOUS
<1>0. PICK h \in {a \in 0 .. Written : a % PagesPerBlock = 0 \/ a = Written},
           D \in SUBSET (0 .. Written - 1), lost \in BOOLEAN :
           flash = Damaged(Programmed(h), D, lost) /\ hole = (h < Written)
  BY DEF Init
<1>1. h \in Nat /\ h <= Written
  BY <1>0, Sizes
<1>2. \A a \in Addrs : flash[a] \in Page /\ PageOK(flash[a]) /\ InReach(flash, a)
  BY <1>0, <1>1, InitialFlash
<1>3. flash \in [Addrs -> Page]
  BY <1>0, <1>2 DEF Damaged
<1>4. Filled = {} /\ \A k \in Indices : EntryOK(k)
  BY DEF Init, Filled, EntryOK
<1>5. plr_vmpage_table \in [Indices -> Addrs \union {EMPTY}]
  BY DEF Init
<1>6. got \in [page : 0 .. NumVPages - 1, ret : {0, -1}, data : Seq(Nat)]
  BY Sizes DEF Init
<1>7. cnt_valid_chunk = Cardinality(Filled)
  BY <1>4, FS_EmptySet DEF Init
<1>8. TypeOK
  BY <1>0, <1>3, <1>5, <1>6, Sizes, PlrAssumption DEF Init, TypeOK
<1>9. ReadsAreExact
  BY DEF Init, ReadsAreExact
<1> QED BY <1>2, <1>4, <1>7, <1>8, <1>9 DEF PlrInv, Init

\* The end-of-copy test moves the page count on by at most one page and never
\* declares the table complete.
LEMMA EndOfCopyType ==
    ASSUME NEW total \in {0, Total}, NEW p, cnt_pge \in Nat, EndOfCopy(total, p)
    PROVE  /\ cnt_pge' \in Nat
           /\ cnt_pge' <= cnt_pge + 1
           /\ phase' \in {"scan", "failed"}
<1>1. CASE cnt_pge >= total /\ total # 0
  <2>1. total \in Nat \ {0}
    BY <1>1, Sizes
  <2>2. cnt_pge % total \in Nat /\ cnt_pge % total <= cnt_pge
    BY <2>1, <1>1
  <2>3. cnt_pge' = (cnt_pge % total) + 1 /\ phase' \in {"scan", "failed"}
    BY <1>1 DEF EndOfCopy
  <2> QED BY <2>2, <2>3
<1>2. CASE ~(cnt_pge >= total /\ total # 0)
  BY <1>2 DEF EndOfCopy
<1> QED BY <1>1, <1>2

\* In a state of the invariant the filled entries are chunks of the image; once
\* there are Total of them they are all the chunks.
LEMMA FilledEntries ==
    ASSUME PlrInv
    PROVE  /\ Filled \subseteq 0 .. Total - 1
           /\ IsFiniteSet(Filled)
           /\ IsFiniteSet(0 .. Total - 1) /\ Cardinality(0 .. Total - 1) = Total
           /\ phase = "ready" => Filled = 0 .. Total - 1
<1>1. IsFiniteSet(0 .. Total - 1) /\ Cardinality(0 .. Total - 1) = Total
  BY FS_Interval, Sizes
<1>2. Filled \subseteq 0 .. Total - 1
  <2> SUFFICES ASSUME NEW k \in Filled PROVE k \in 0 .. Total - 1
    OBVIOUS
  <2>1. k \in Indices /\ plr_vmpage_table[k] # EMPTY
    BY DEF Filled
  <2>2. plr_vmpage_table[k] \in Addrs
    BY <2>1 DEF PlrInv, TypeOK
  <2> QED BY <2>1, <2>2 DEF PlrInv, EntryOK, PageOK
<1>3. IsFiniteSet(Filled) /\ (Cardinality(0 .. Total - 1) = Cardinality(Filled) => 0 .. Total - 1 = Filled)
  BY <1>1, <1>2, FS_Subset
<1> QED BY <1>1, <1>2, <1>3 DEF PlrInv

\* In a complete table the entries of a virtual page are its chunks, and the
\* read stops behind them.
LEMMA MappingOfPage ==
    ASSUME PlrInv, phase = "ready", NEW n \in 0 .. NumVPages - 1
    PROVE  /\ VPageChunks(n) \in Nat
           /\ DOMAIN Mapping(n) = 1 .. VPageChunks(n)
           /\ Mapping(n) = [i \in 1 .. VPageChunks(n) |->
                               plr_vmpage_table[NumFl + n * ChunksPerPage + i - 1]]
           /\ \A i \in 1 .. VPageChunks(n) :
                 /\ Mapping(n)[i] \in Addrs
                 /\ flash[Mapping(n)[i]].data = NumFl + n * ChunksPerPage + i - 1
<1> DEFINE index == n * ChunksPerPage + tlb_start_idx
           Stops(l) == /\ \A i \in 0 .. l - 1 : plr_vmpage_table[index + i] # EMPTY
                       /\ l = ChunksPerPage \/ plr_vmpage_table[index + l] = EMPTY
           L == VPageChunks(n)
<1>0. /\ ChunksPerPage \in Nat \ {0} /\ NumRest \in Nat \ {0} /\ NumFl \in Nat \ {0}
      /\ TableSize \in Nat /\ Total = NumFl + NumRest
  BY PlrAssumption DEF Total
<1>1. index \in Nat /\ index = NumFl + n * ChunksPerPage
      /\ index + ChunksPerPage <= TableSize /\ index < Total
      /\ n * ChunksPerPage \in Nat
  BY <1>0, VPageEntries DEF tlb_start_idx
<1>2. /\ L \in 0 .. ChunksPerPage
      /\ index + L <= Total
      /\ L = ChunksPerPage \/ index + L = Total
  BY <1>0, <1>1 DEF VPageChunks
<1> HIDE DEF index, L
<1>3. \A k \in Indices : plr_vmpage_table[k] # EMPTY <=> k \in 0 .. Total - 1
  BY FilledEntries DEF Filled
<1>4. \A i \in 0 .. ChunksPerPage - 1 : index + i \in Indices
  BY <1>0, <1>1 DEF Indices
<1>5. Stops(L)
  <2>1. ASSUME NEW i \in 0 .. L - 1 PROVE plr_vmpage_table[index + i] # EMPTY
    <3>1. i \in 0 .. ChunksPerPage - 1 /\ index + i \in 0 .. Total - 1
      BY <1>0, <1>1, <1>2
    <3> QED BY <3>1, <1>3, <1>4
  <2>2. ASSUME L # ChunksPerPage PROVE plr_vmpage_table[index + L] = EMPTY
    <3>1. L \in 0 .. ChunksPerPage - 1 /\ index + L \notin 0 .. Total - 1
      BY <1>0, <1>1, <1>2, <2>2
    <3> QED BY <3>1, <1>3, <1>4
  <2> QED BY <2>1, <2>2
<1>6. ASSUME NEW l \in 0 .. ChunksPerPage, Stops(l) PROVE l = L
  <2>1. CASE l < L
    <3>1. l \in 0 .. L - 1 /\ l # ChunksPerPage
      BY <1>0, <1>2, <2>1
    <3> QED BY <1>5, <1>6, <3>1
  <2>2. CASE L < l
    <3>1. L \in 0 .. l - 1 /\ L # ChunksPerPage
      BY <1>0, <1>2, <2>2
    <3> QED BY <1>5, <1>6, <3>1
  <2> QED BY <1>0, <1>2, <2>1, <2>2
<1>7. (CHOOSE l \in 0 .. ChunksPerPage : Stops(l)) = L
  <2> HIDE DEF Stops
  <2> QED BY <1>2, <1>5, <1>6
<1>8. Mapping(n) = [i \in 1 .. L |-> plr_vmpage_table[index + i - 1]]
  BY <1>7 DEF Mapping, index
<1>9. ASSUME NEW i \in 1 .. L
      PROVE  /\ plr_vmpage_table[index + i - 1] \in Addrs
             /\ flash[plr_vmpage_table[index + i - 1]].data = index + i - 1
  <2> DEFINE k == index + i - 1
  <2>1. k \in Indices /\ k \in 0 .. Total - 1
    BY <1>0, <1>1, <1>2 DEF Indices
  <2> HIDE DEF k
  <2>2. plr_vmpage_table[k] # EMPTY /\ EntryOK(k)
    BY <1>3, <2>1 DEF PlrInv
  <2>3. plr_vmpage_table[k] \in Addrs
    BY <2>1, <2>2 DEF PlrInv, TypeOK
  <2>4. flash[plr_vmpage_table[k]].data = k
    BY <2>2, <2>3 DEF PlrInv, PageOK, EntryOK
  <2> QED BY <2>3, <2>4 DEF k
<1> QED BY <1>1, <1>2, <1>8, <1>9 DEF L

\* One step of the program or of the flash keeps the invariant.
LEMMA StepPlrInv == PlrInv /\ [Next]_vars => PlrInv'
<1> SUFFICES ASSUME PlrInv, [Next]_vars PROVE PlrInv'
  OBVIOUS
<1> USE DEF PlrInv
<1>0. /\ NumPages \in Nat /\ Total \in Nat \ {0} /\ cnt_valid_chunk \in 0 .. Total
      /\ cnt_pge \in Nat /\ blk_pge_addr \in Nat
  BY Sizes, PlrAssumption DEF TypeOK
<1>1. CASE FillEntry
  <2> DEFINE p == flash[blk_pge_addr]
             total == IF ~is_plr_first_load_part(p) /\ total_num_of_chunk = 0
                      THEN p.total_chunk ELSE total_num_of_chunk
  <2>2. /\ p.sig \in {"plr", "plr_fl"}
        /\ ~is_plr_first_load_part(p) => p.sig = "plr"
        /\ plr_vmpage_table[p.idx_chunk] = EMPTY
    BY <1>1 DEF FillEntry, fill_table, is_plr_first_load_part, IsPlr
  <2>1. /\ blk_pge_addr \in Addrs /\ phase = "scan"
        /\ blk_pge_addr # EMPTY /\ u16_t(blk_pge_addr) = blk_pge_addr
    <3>1. blk_pge_addr \in Addrs /\ phase = "scan"
      BY <1>0, <1>1 DEF FillEntry, Scanning, Addrs, TypeOK
    <3>2. blk_pge_addr < AllOnes
      BY <2>2, <3>1 DEF InReach
    <3> QED BY <1>0, <3>1, <3>2, CastFits
  <2>3. p.idx_chunk \in 0 .. Total - 1 /\ p.idx_chunk \in Indices /\ p.idx_chunk \notin Filled
    BY <1>0, <2>1, <2>2, Sizes, PlrAssumption DEF PageOK, Indices, Filled
  <2>4. total \in {0, Total}
    BY <2>1, <2>2 DEF TypeOK, PageOK
  <2>5. plr_vmpage_table' = [plr_vmpage_table EXCEPT ![p.idx_chunk] = blk_pge_addr]
        /\ plr_vmpage_table' \in [Indices -> Addrs \union {EMPTY}]
    BY <1>1, <2>1, <2>3 DEF FillEntry, TypeOK
  <2>6. Filled' = Filled \union {p.idx_chunk}
    BY <2>1, <2>3, <2>5 DEF Filled, TypeOK
  <2>7. cnt_valid_chunk' = cnt_valid_chunk + 1 /\ cnt_valid_chunk' = Cardinality(Filled')
    BY <1>1, <2>3, <2>6, FilledEntries, FS_AddElement DEF FillEntry
  <2>8. cnt_valid_chunk' \in 0 .. Total
    <3>1. Filled' \subseteq 0 .. Total - 1
      BY <2>3, <2>6, FilledEntries
    <3>2. Cardinality(Filled') <= Total
      BY <3>1, FilledEntries, FS_Subset
    <3> QED BY <1>0, <2>7, <3>2
  <2>9. \A k \in Indices : EntryOK(k)'
    <3> SUFFICES ASSUME NEW k \in Indices PROVE EntryOK(k)'
      OBVIOUS
    <3>0. flash' = flash
      BY <1>1 DEF FillEntry
    <3>1. CASE k = p.idx_chunk
      <4>1. plr_vmpage_table'[k] = blk_pge_addr
        BY <2>3, <2>5, <3>1 DEF TypeOK
      <4> QED BY <2>2, <3>0, <3>1, <4>1 DEF EntryOK
    <3>2. CASE k # p.idx_chunk
      <4>1. plr_vmpage_table'[k] = plr_vmpage_table[k]
        BY <2>5, <3>2 DEF TypeOK
      <4> QED BY <3>0, <4>1 DEF EntryOK
    <3> QED BY <3>1, <3>2
  <2>10. /\ total_num_of_chunk' = total
         /\ blk_pge_addr' = blk_pge_addr + 1
         /\ UNCHANGED <<flash, got, faults, hole>>
         /\ IF cnt_valid_chunk + 1 = total
            THEN phase' = "ready" /\ UNCHANGED cnt_pge
            ELSE EndOfCopy(total, p)
    BY <1>1 DEF FillEntry, NextPage
  <2> HIDE DEF p, total
  <2>11. /\ cnt_pge' \in Nat /\ cnt_pge' <= cnt_pge + 1
         /\ phase' \in {"scan", "ready", "failed"}
         /\ phase' = "ready" => cnt_valid_chunk' = Total
    <3>1. CASE cnt_valid_chunk + 1 = total
      <4>1. total = Total
        BY <1>0, <2>4, <3>1
      <4> QED BY <1>0, <2>7, <2>10, <3>1, <4>1
    <3>2. CASE cnt_valid_chunk + 1 # total
      BY <1>0, <2>4, <2>10, <3>2, EndOfCopyType
    <3> QED BY <3>1, <3>2
  <2>12. blk_pge_addr' \in 0 .. NumPages /\ cnt_pge' <= blk_pge_addr'
    BY <1>0, <2>1, <2>10, <2>11 DEF Addrs
  <2>13. cnt_pge' \in 0 .. NumPages
    BY <1>0, <2>11, <2>12
  <2>14. TypeOK'
    BY <2>4, <2>5, <2>8, <2>10, <2>11, <2>12, <2>13 DEF TypeOK
  <2> QED BY <2>7, <2>9, <2>10, <2>11, <2>12, <2>14 DEF InReach, ReadsAreExact
<1>2. CASE PassPage
  <2> DEFINE p == flash[blk_pge_addr]
             total == IF IsPlr(p) /\ total_num_of_chunk = 0
                      THEN p.total_chunk ELSE total_num_of_chunk
  <2>1. blk_pge_addr \in Addrs
    BY <1>0, <1>2 DEF PassPage, Scanning, Addrs, TypeOK
  <2>2. total \in {0, Total}
    BY <2>1 DEF TypeOK, PageOK, IsPlr
  <2>3. /\ total_num_of_chunk' = total
        /\ blk_pge_addr' = blk_pge_addr + 1
        /\ EndOfCopy(total, p)
        /\ UNCHANGED <<flash, cnt_valid_chunk, plr_vmpage_table, got, faults, hole>>
    BY <1>2 DEF PassPage, NextPage
  <2> HIDE DEF p, total
  <2>4. cnt_pge' \in Nat /\ cnt_pge' <= cnt_pge + 1 /\ phase' \in {"scan", "failed"}
    BY <1>0, <2>2, <2>3, EndOfCopyType
  <2>5. blk_pge_addr' \in 0 .. NumPages /\ cnt_pge' <= blk_pge_addr'
    BY <1>0, <2>1, <2>3, <2>4 DEF Addrs
  <2>6. cnt_pge' \in 0 .. NumPages
    BY <1>0, <2>4, <2>5
  <2>7. TypeOK'
    BY <2>2, <2>3, <2>4, <2>5, <2>6 DEF TypeOK
  <2> QED BY <2>3, <2>4, <2>5, <2>7 DEF Filled, EntryOK, InReach, ReadsAreExact
<1>3. CASE SkipOther
  <2>1. /\ blk_pge_addr \in Addrs
        /\ blk_pge_addr' = blk_pge_addr + 1
        /\ cnt_pge' = cnt_pge + 1
        /\ UNCHANGED <<flash, total_num_of_chunk, cnt_valid_chunk, plr_vmpage_table,
                        phase, got, faults, hole>>
    BY <1>0, <1>3 DEF SkipOther, NextPage, Scanning, Addrs, TypeOK
  <2>2. blk_pge_addr' \in 0 .. NumPages /\ cnt_pge' <= blk_pge_addr' /\ cnt_pge' \in 0 .. NumPages
    BY <1>0, <2>1 DEF Addrs
  <2>3. TypeOK'
    BY <2>1, <2>2 DEF TypeOK
  <2> QED BY <2>1, <2>2, <2>3 DEF Filled, EntryOK, InReach, ReadsAreExact
<1>4. CASE EndOfFlash
  BY <1>4 DEF EndOfFlash, TypeOK, Filled, EntryOK, InReach, ReadsAreExact
<1>5. ASSUME NEW n \in 0 .. NumVPages - 1, nsu_logical_page_read(n) PROVE PlrInv'
  <2> DEFINE m == Mapping(n)
             L == VPageChunks(n)
  <2>1. /\ phase = "ready" /\ got' = LogicalRead(n)
        /\ UNCHANGED <<flash, blk_pge_addr, cnt_pge, total_num_of_chunk, cnt_valid_chunk,
                        plr_vmpage_table, phase, faults, hole>>
    BY <1>5 DEF nsu_logical_page_read
  <2>2. /\ L \in Nat /\ DOMAIN m = 1 .. L
        /\ \A i \in 1 .. L : m[i] \in Addrs /\ flash[m[i]].data = NumFl + n * ChunksPerPage + i - 1
    BY <2>1, MappingOfPage
  <2> HIDE DEF m, L
  <2>3. got' = [page |-> n, ret |-> -1, data |-> <<>>]
        \/ got' = [page |-> n, ret |-> 0, data |-> [i \in DOMAIN m |-> flash[m[i]].data]]
    BY <2>1 DEF LogicalRead, m
  <2>4. [i \in DOMAIN m |-> flash[m[i]].data] = VPageContents(n)
    BY <2>2 DEF VPageContents, L
  <2>5. VPageContents(n) \in Seq(Nat)
    <3>0. n * ChunksPerPage \in Nat /\ NumFl \in Nat
      BY VPageEntries, PlrAssumption
    <3>1. \A i \in 1 .. L : NumFl + n * ChunksPerPage + i - 1 \in Nat
      BY <2>2, <3>0
    <3> QED BY <2>2, <3>1 DEF VPageContents, L
  <2>6. got' \in [page : 0 .. NumVPages - 1, ret : {0, -1}, data : Seq(Nat)] /\ ReadsAreExact'
    <3> DEFINE c == VPageContents(n)
    <3>1. c \in Seq(Nat)
      BY <2>5
    <3>2. got' = [page |-> n, ret |-> -1, data |-> <<>>] \/ got' = [page |-> n, ret |-> 0, data |-> c]
      BY <2>3, <2>4
    <3>3. (got'.ret = 0 => got'.data = VPageContents(got'.page)) => ReadsAreExact'
      BY DEF ReadsAreExact, VPageContents, VPageChunks
    <3>4. got'.ret = 0 => got'.page = n /\ got'.data = c
      <4> HIDE DEF c
      <4> QED BY <3>2
    <3>5. got' \in [page : 0 .. NumVPages - 1, ret : {0, -1}, data : Seq(Nat)]
      <4> DEFINE e == << >>
                 S == Seq(Nat)
      <4>1. e \in S /\ c \in S
        BY <3>1
      <4>2. \E d \in {e, c}, r \in {0, -1} : got' = [page |-> n, ret |-> r, data |-> d]
        BY <3>2
      <4> HIDE DEF c, e, S
      <4>3. got' \in [page : 0 .. NumVPages - 1, ret : {0, -1}, data : S]
        BY <4>1, <4>2
      <4> QED BY <4>3 DEF S
    <3> QED BY <3>3, <3>4, <3>5
  <2>7. TypeOK'
    BY <2>1, <2>6 DEF TypeOK
  <2> QED BY <2>1, <2>6, <2>7 DEF Filled, EntryOK, InReach
<1>6. ASSUME NEW a \in 0 .. Written - 1, GoesBad(a) PROVE PlrInv'
  <2>1. a \in Addrs /\ {0} \in SUBSET Sectors
    BY Sizes, PlrAssumption, FlashAssumption DEF Addrs, Sectors
  <2>2. /\ flash' = [flash EXCEPT ![a] = [flash[a] EXCEPT !.bad = {0}]]
        /\ faults < MaxFaults /\ faults' = faults + 1
        /\ UNCHANGED <<blk_pge_addr, cnt_pge, total_num_of_chunk, cnt_valid_chunk,
                        plr_vmpage_table, phase, got, hole>>
    BY <1>6 DEF GoesBad
  <2> DEFINE q == [flash[a] EXCEPT !.bad = {0}]
  <2>3. q \in Page /\ PageOK(q)
    BY <2>1, DamagedPage DEF TypeOK
  <2>4. q.sig = flash[a].sig /\ q.idx_chunk = flash[a].idx_chunk
    BY <2>1 DEF TypeOK, Page
  <2> HIDE DEF q
  <2>5. flash' = [flash EXCEPT ![a] = q]
    BY <2>2 DEF q
  <2>6. flash' \in [Addrs -> Page] /\ \A b \in Addrs : PageOK(flash'[b])
    BY <2>1, <2>3, <2>5 DEF TypeOK
  <2>7. \A b \in Addrs : flash'[b].sig = flash[b].sig /\ flash'[b].idx_chunk = flash[b].idx_chunk
    BY <2>1, <2>4, <2>5 DEF TypeOK
  <2>8. \A k \in Indices : EntryOK(k)'
    <3> SUFFICES ASSUME NEW k \in Indices, plr_vmpage_table[k] # EMPTY
                 PROVE  /\ flash'[plr_vmpage_table[k]].sig \in {"plr", "plr_fl"}
                        /\ flash'[plr_vmpage_table[k]].idx_chunk = k
      BY <2>2 DEF EntryOK
    <3>1. plr_vmpage_table[k] \in Addrs
      BY DEF TypeOK
    <3> QED BY <2>7, <3>1 DEF EntryOK
  <2>9. faults' \in 0 .. MaxFaults
    BY <2>2, PlrAssumption DEF TypeOK
  <2>10. TypeOK'
    BY <2>2, <2>6, <2>9 DEF TypeOK
  <2>11. \A b \in Addrs : InReach(flash', b)
    BY <2>7 DEF InReach
  <2>12. ReadsAreExact' /\ Filled' = Filled
    BY <2>2 DEF Filled, ReadsAreExact
  <2> QED BY <2>2, <2>6, <2>8, <2>10, <2>11, <2>12
<1>7. CASE UNCHANGED vars
  BY <1>7 DEF vars, TypeOK, Filled, EntryOK, InReach, ReadsAreExact
<1> QED BY <1>1, <1>2, <1>3, <1>4, <1>5, <1>6, <1>7 DEF Next, nsu_init

\* The invariant holds in every reachable state.
LEMMA PlrInvariant == Spec => []PlrInv
BY InitPlrInv, StepPlrInv, PTL DEF Spec

\* The types of nsu_init's variables and of its table (ab_spi_nand_util.c) are
\* kept for every image size, number of copies and damage.
THEOREM PlrTypeCorrect == Spec => []TypeOK
<1>1. PlrInv => TypeOK
  BY DEF PlrInv
<1> QED BY <1>1, PlrInvariant, PTL

\* When nsu_init returns 0 every chunk of the preloader has an entry that names
\* a page with this chunk: counting filled entries up to total_chunk is enough.
THEOREM TableComplete == Spec => []ReadyMeansMapped
<1>1. PlrInv => ReadyMeansMapped
  <2> SUFFICES ASSUME PlrInv, phase = "ready", NEW k \in 0 .. Total - 1
               PROVE  /\ plr_vmpage_table[k] # EMPTY
                      /\ flash[plr_vmpage_table[k]].sig \in {"plr", "plr_fl"}
                      /\ flash[plr_vmpage_table[k]].idx_chunk = k
    BY DEF ReadyMeansMapped
  <2>1. k \in Indices /\ plr_vmpage_table[k] # EMPTY
    BY FilledEntries DEF Filled
  <2> QED BY <2>1 DEF PlrInv, EntryOK
<1> QED BY <1>1, PlrInvariant, PTL

\* A successful nsu_logical_page_read delivered the chunks of the page asked for
\* in their order, whatever copies they were found in.
THEOREM LogicalReadExact == Spec => []ReadsAreExact
<1>1. PlrInv => ReadsAreExact
  BY DEF PlrInv
<1> QED BY <1>1, PlrInvariant, PTL

-----------------------------------------------------------------------------
(***************************************************************************)
(* Why nsu_init does not give up too early.                                *)
(***************************************************************************)

LastCopy == (Copies - 1) * Total

\* Where a page p of an image without a skipped block can be: only behind the
\* first page of the last copy do the copy numbers tell that it is the last.
Placed(p, a) ==
    /\ p.idx_copy + 1 = p.num_copy => LastCopy < a /\ a < Written
    /\ p.sig = "plr" /\ p.idx_copy + 1 < p.num_copy => a < LastCopy
    /\ p.sig = "plr_fl" => p.idx_chunk < NumFl
    /\ a < Written /\ p.bad = {} => p.sig \in {"plr", "plr_fl"}

Carries(p) == is_plr_first_load_part(p) \/ IsPlr(p)

\* Every chunk met so far has its entry, and the total is known once an ordinary
\* page was met.
Collected ==
    \A a \in Addrs : a < blk_pge_addr =>
        /\ Carries(flash[a]) => flash[a].idx_chunk \in Filled
        /\ IsPlr(flash[a]) => total_num_of_chunk # 0

\* The page count is the place within the copy, counted from 1, as soon as the
\* total is known.
InStep ==
    blk_pge_addr <= Written =>
        IF total_num_of_chunk = 0 THEN cnt_pge = blk_pge_addr
        ELSE /\ cnt_pge \in 1 .. Total
             /\ \E j \in Nat : blk_pge_addr = Total * j + cnt_pge

ScanInv ==
    /\ Collected
    /\ cnt_valid_chunk # Total
    /\ total_num_of_chunk = 0 => Filled \subseteq 0 .. NumFl - 1
    /\ InStep

GiveUpInv ==
    ~hole =>
        /\ phase # "ready" => \A a \in Addrs : Placed(flash[a], a)
        /\ phase = "scan" /\ KnownInTime => ScanInv
        /\ NoSpuriousFailure

\* The page bchenc writes at a place of the image.
LEMMA WrittenPlaced ==
    ASSUME NEW a \in Nat, a < Written
    PROVE  Placed(write_out_plr(a), a)
<1> DEFINE r == a \div Total
           k == a % Total
<1>1. /\ r \in Nat /\ k \in 0 .. Total - 1
      /\ a = Total * r + k
  BY Sizes
<1>2. write_out_plr(a) = PlrPage(r, k)
  BY DEF write_out_plr
<1>3. Total \in Nat \ {0} /\ Copies \in Nat \ {0} /\ NumFl \in Nat \ {0}
  BY Sizes, PlrAssumption
<1> HIDE DEF r, k
<1>4. CASE k < NumFl
  <2>1. PlrPage(r, k) =
          [sig |-> "plr_fl", idx_copy |-> AllOnes, idx_chunk |-> k,
           total_chunk |-> AllOnes, num_copy |-> AllOnes, data |-> k, bad |-> {}]
    BY <1>4 DEF PlrPage, BlankPage
  <2> QED BY <1>2, <1>4, <2>1 DEF Placed, AllOnes
<1>5. CASE ~(k < NumFl)
  <2>1. PlrPage(r, k) =
          [sig |-> "plr", idx_copy |-> r, idx_chunk |-> k, total_chunk |-> Total,
           num_copy |-> Copies, data |-> k, bad |-> {}]
    BY <1>5 DEF PlrPage
  <2>2. r + 1 = Copies => LastCopy < a
    <3> SUFFICES ASSUME r + 1 = Copies PROVE LastCopy < a
      OBVIOUS
    <3>1. Copies - 1 = r /\ LastCopy = r * Total
      BY <1>1, <1>3 DEF LastCopy
    <3>2. LastCopy = Total * r /\ Total * r \in Nat
      BY <1>1, <1>3, <3>1
    <3> QED BY <1>1, <1>3, <1>5, <3>2
  <2>3. r + 1 < Copies => a < LastCopy
    <3> SUFFICES ASSUME r + 1 < Copies PROVE a < LastCopy
      OBVIOUS
    <3>1. Copies - 1 \in Nat /\ r + 1 <= Copies - 1
      BY <1>1, <1>3
    <3>2. Total * (r + 1) <= Total * (Copies - 1)
      BY <1>1, <1>3, <3>1
    <3>3. Total * (r + 1) = Total * r + Total /\ Total * (Copies - 1) = LastCopy
          /\ Total * r \in Nat /\ LastCopy \in Nat
      BY <1>1, <1>3, <3>1 DEF LastCopy
    <3> QED BY <1>1, <1>3, <3>2, <3>3
  <2> QED BY <1>2, <2>1, <2>2, <2>3 DEF Placed
<1> QED BY <1>4, <1>5

\* Damage leaves a page where it is.
LEMMA DamagedPlaced ==
    ASSUME NEW p \in Page, NEW a, Placed(p, a), NEW B, B # {}
    PROVE  Placed([p EXCEPT !.bad = B], a)
<1> DEFINE q == [p EXCEPT !.bad = B]
<1>1. /\ q.sig = p.sig /\ q.idx_copy = p.idx_copy /\ q.num_copy = p.num_copy
      /\ q.idx_chunk = p.idx_chunk /\ q.bad = B
  BY DEF Page
<1> HIDE DEF q
<1>2. Placed(q, a)
  BY <1>1 DEF Placed
<1> QED BY <1>2 DEF q

\* A page whose contents are lost is at no particular place.
LEMMA BlankPlaced ==
    ASSUME NEW a, NEW B, B # {}
    PROVE  Placed([BlankPage EXCEPT !.bad = B], a)
<1>1. [BlankPage EXCEPT !.bad = B] =
        [sig |-> "none", idx_copy |-> AllOnes, idx_chunk |-> AllOnes,
         total_chunk |-> AllOnes, num_copy |-> AllOnes, data |-> 0, bad |-> B]
  BY DEF BlankPage
<1> QED BY <1>1 DEF Placed, AllOnes

\* Every initial content of the device without a skipped block.
LEMMA InitialPlaced ==
    ASSUME NEW D, D \subseteq 0 .. Written - 1, NEW lost \in BOOLEAN, NEW a \in Addrs
    PROVE  Placed(Damaged(Programmed(Written), D, lost)[a], a)
<1>0. a \in Nat /\ Written \in Nat /\ a \in Int /\ Written \in Int
  BY Sizes, PlrAssumption DEF Addrs
<1> DEFINE f == Programmed(Written)
           p == Damaged(f, D, lost)[a]
<1>1. f[a] = IF a < Written THEN write_out_plr(a) ELSE BlankPage
  BY <1>0 DEF Programmed
<1>3. f[a] \in Page /\ Placed(f[a], a)
  <2>1. CASE a < Written
    BY <1>0, <1>1, <2>1, WrittenPages, WrittenPlaced
  <2>2. CASE ~(a < Written)
    <3>1. Placed(BlankPage, a)
      BY <1>0, <2>2 DEF Placed, BlankPage, AllOnes
    <3> QED BY <1>1, <2>2, <3>1, BlankIsPage
  <2> QED BY <2>1, <2>2
<1> HIDE DEF f
<1>4. p = IF a \notin D THEN f[a]
          ELSE [(IF lost THEN BlankPage ELSE f[a]) EXCEPT !.bad = {0}]
  BY DEF Damaged
<1> HIDE DEF p
<1>5. CASE a \notin D
  BY <1>3, <1>4, <1>5 DEF p, f
<1>6. CASE a \in D /\ lost
  <2>1. {0} # {}
    OBVIOUS
  <2>2. Placed([BlankPage EXCEPT !.bad = {0}], a)
    BY <1>0, <2>1, BlankPlaced
  <2> QED BY <1>4, <1>6, <2>2 DEF p, f
<1>7. CASE a \in D /\ ~lost
  <2>1. {0} # {}
    OBVIOUS
  <2>2. Placed([f[a] EXCEPT !.bad = {0}], a)
    BY <1>3, <2>1, DamagedPlaced
  <2> QED BY <1>4, <1>7, <2>2 DEF p, f
<1> QED BY <1>5, <1>6, <1>7

\* Within the image no page looks like one of another kind.
LEMMA NoOtherInImage ==
    ASSUME FailuresFlagged, NEW p \in Page, NEW a, a < Written, Placed(p, a)
    PROVE  ~IsOther(p)
<1>0. ASSUME NEW B \in SUBSET Sectors, B # {}, NEW q, q.bad = B
      PROVE  IS_ECC_DECODE_FAIL(page_read_ecc(q))
  <2> DEFINE b == [BlankPage EXCEPT !.bad = B]
  <2>1. b.bad = B
    BY DEF BlankPage
  <2>2. IS_ECC_DECODE_FAIL(page_read_ecc(b))
    BY <1>0 DEF FailuresFlagged
  <2> HIDE DEF b
  <2>3. page_read_ecc(q) = page_read_ecc(b)
    BY <1>0, <2>1 DEF page_read_ecc
  <2> QED BY <2>2, <2>3
<1>1. CASE p.bad = {}
  <2>1. p.sig \in {"plr", "plr_fl"}
    BY <1>1 DEF Placed
  <2> QED BY <1>1, <2>1 DEF IsOther, is_plr_first_load_part
<1>2. CASE p.bad # {}
  <2>1. p.bad \in SUBSET Sectors /\ Sectors \in SUBSET Sectors /\ Sectors # {}
    BY FlashAssumption DEF Page, Sectors
  <2>2. CASE p.sig = "plr_fl"
    <3>1. [p EXCEPT !.bad = Sectors].bad = Sectors
      BY DEF Page
    <3>2. IS_ECC_DECODE_FAIL(page_read_ecc([p EXCEPT !.bad = Sectors]))
      BY <1>0, <2>1, <3>1
    <3> QED BY <2>2, <3>2 DEF IsOther, read_status
  <2>3. CASE p.sig # "plr_fl"
    BY <1>0, <1>2, <2>1, <2>3 DEF IsOther, read_status
  <2> QED BY <2>2, <2>3
<1> QED BY <1>1, <1>2

\* No multiple of Total lies strictly within a copy.
LEMMA NoMultipleWithin ==
    ASSUME NEW t \in Nat \ {0}, NEW c \in Nat \ {0}, NEW i \in Nat,
           (c - 1) * t < t * i, t * i < c * t
    PROVE  FALSE
<1>1. CASE i <= c - 1
  <2>1. t * i <= t * (c - 1)
    BY <1>1
  <2> QED BY <2>1
<1>2. CASE c <= i
  <2>1. t * c <= t * i
    BY <1>2
  <2> QED BY <2>1
<1> QED BY <1>1, <1>2

\* The end-of-copy test inside the image: the count stays in step, and nothing
\* is given up.  total is the number of chunks known after page p was read.
LEMMA EndOfCopyInStep ==
    ASSUME PlrInv, Scanning, InStep, Collected, KnownInTime,
           \A a \in Addrs : Placed(flash[a], a),
           NEW total \in {0, Total}, total_num_of_chunk # 0 => total = total_num_of_chunk,
           EndOfCopy(total, flash[blk_pge_addr]),
           blk_pge_addr' = blk_pge_addr + 1, total_num_of_chunk' = total
    PROVE  phase' = "scan" /\ InStep'
<1>0. /\ Total \in Nat \ {0} /\ cnt_pge \in Nat /\ blk_pge_addr \in Nat /\ Written \in Nat
      /\ blk_pge_addr \in Addrs /\ Copies \in Nat \ {0}
      /\ total_num_of_chunk \in {0, Total}
  BY Sizes, PlrAssumption DEF PlrInv, TypeOK, Scanning, Addrs
<1>1. Placed(flash[blk_pge_addr], blk_pge_addr)
  BY <1>0
<1>2. phase' = "scan"
  <2> SUFFICES ASSUME phase' # "scan" PROVE FALSE
    OBVIOUS
  <2>1. /\ cnt_pge >= total /\ total # 0
        /\ flash[blk_pge_addr].idx_copy + 1 = flash[blk_pge_addr].num_copy
    BY DEF EndOfCopy
  <2>2. LastCopy < blk_pge_addr /\ blk_pge_addr < Written
    BY <1>1, <2>1 DEF Placed
  <2>3. PICK a \in Addrs : IsPlr(flash[a]) /\ flash[a].idx_copy + 1 < flash[a].num_copy
    BY DEF KnownInTime
  <2>4. a < LastCopy
    BY <2>3 DEF Placed, IsPlr
  <2>5. LastCopy \in Nat /\ a \in Nat
    <3>1. Copies - 1 \in Nat
      BY <1>0
    <3>2. LastCopy \in Nat
      BY <1>0, <3>1 DEF LastCopy
    <3> QED BY <3>2, PlrAssumption DEF Addrs
  <2>6. total_num_of_chunk # 0
    BY <1>0, <2>2, <2>3, <2>4, <2>5 DEF Collected
  <2>7. cnt_pge \in 1 .. Total /\ \E j \in Nat : blk_pge_addr = Total * j + cnt_pge
    BY <1>0, <2>2, <2>6 DEF InStep
  <2>8. PICK j \in Nat : blk_pge_addr = Total * j + cnt_pge
    BY <2>7
  <2>9. cnt_pge = Total
    BY <1>0, <2>1, <2>6, <2>7
  <2>10. Total * (j + 1) = Total * j + Total /\ j + 1 \in Nat
    BY <1>0
  <2>11. blk_pge_addr = Total * (j + 1)
    BY <2>8, <2>9, <2>10
  <2> DEFINE i == j + 1
  <2>12. (Copies - 1) * Total < Total * i /\ Total * i < Copies * Total /\ i \in Nat
    BY <2>2, <2>10, <2>11 DEF LastCopy, Written
  <2> HIDE DEF i
  <2> QED BY <1>0, <2>12, NoMultipleWithin
<1>3. InStep'
  <2> SUFFICES ASSUME blk_pge_addr + 1 <= Written
               PROVE  IF total = 0 THEN cnt_pge' = blk_pge_addr + 1
                      ELSE /\ cnt_pge' \in 1 .. Total
                           /\ \E j \in Nat : blk_pge_addr + 1 = Total * j + cnt_pge'
    BY DEF InStep, Written, Total
  <2>1. /\ total_num_of_chunk = 0 => cnt_pge = blk_pge_addr
        /\ total_num_of_chunk # 0 => cnt_pge \in 1 .. Total
        /\ total_num_of_chunk # 0 => \E j \in Nat : blk_pge_addr = Total * j + cnt_pge
    BY <1>0 DEF InStep
  <2>2. CASE total = 0
    BY <1>0, <2>1, <2>2 DEF EndOfCopy
  <2>3. CASE total # 0
    <3>1. total = Total
      BY <2>3
    <3>2. PICK j \in Nat : blk_pge_addr = Total * j + cnt_pge
      <4>1. CASE total_num_of_chunk = 0
        <5>1. blk_pge_addr = Total * 0 + cnt_pge
          BY <1>0, <2>1, <4>1
        <5> QED BY <5>1
      <4> QED BY <2>1, <4>1
    <3>3. CASE cnt_pge < Total
      <4>1. cnt_pge' = cnt_pge + 1
        BY <1>0, <3>1, <3>3 DEF EndOfCopy
      <4>2. blk_pge_addr + 1 = Total * j + cnt_pge'
        BY <1>0, <3>2, <4>1
      <4> QED BY <1>0, <2>3, <3>3, <4>1, <4>2
    <3>4. CASE ~(cnt_pge < Total)
      <4> DEFINE q == cnt_pge \div Total
                 r == cnt_pge % Total
      <4>1. cnt_pge' = r + 1
        BY <1>0, <2>3, <3>1, <3>4 DEF EndOfCopy
      <4>2. cnt_pge = Total * q + r /\ q \in Nat /\ r \in 0 .. Total - 1
        BY <1>0
      <4> HIDE DEF q, r
      <4>3. Total * (j + q) = Total * j + Total * q /\ j + q \in Nat
            /\ Total * j \in Nat /\ Total * q \in Nat
        BY <1>0, <4>2
      <4>4. blk_pge_addr + 1 = Total * (j + q) + cnt_pge' /\ cnt_pge' \in 1 .. Total
        BY <1>0, <3>2, <4>1, <4>2, <4>3
      <4> QED BY <2>3, <4>3, <4>4
    <3> QED BY <3>3, <3>4
  <2> QED BY <2>2, <2>3
<1> QED BY <1>2, <1>3

\* Fewer entries than chunks: some chunk has none.
LEMMA MissingEntry ==
    ASSUME PlrInv, cnt_valid_chunk # Total
    PROVE  \E k \in 0 .. Total - 1 : k \notin Filled
<1> SUFFICES ASSUME 0 .. Total - 1 \subseteq Filled PROVE FALSE
  OBVIOUS
<1>1. Filled = 0 .. Total - 1
  BY FilledEntries
<1>2. Cardinality(0 .. Total - 1) = Total
  BY FilledEntries
<1> QED BY <1>1, <1>2 DEF PlrInv

\* Entries of first-load chunks alone are not all.
LEMMA FirstLoadIsNotAll ==
    ASSUME PlrInv, Filled \subseteq 0 .. NumFl - 1
    PROVE  cnt_valid_chunk # Total
<1>1. NumFl \in Nat /\ Total = NumFl + NumRest /\ NumRest \in Nat \ {0}
  BY PlrAssumption DEF Total
<1>2. NumFl \in 0 .. Total - 1 /\ NumFl \notin 0 .. NumFl - 1
  BY <1>1
<1>3. Filled # 0 .. Total - 1
  BY <1>2
<1>4. Cardinality(Filled) # Cardinality(0 .. Total - 1)
  BY <1>3, FilledEntries, FS_Subset
<1> QED BY <1>4, FilledEntries DEF PlrInv

\* Going on to the next page, with everything met so far in the table.
LEMMA NextPageScanInv ==
    ASSUME PlrInv, PlrInv', Scanning, Collected, flash' = flash,
           blk_pge_addr' = blk_pge_addr + 1,
           Filled \subseteq Filled',
           total_num_of_chunk # 0 => total_num_of_chunk' # 0,
           Carries(flash[blk_pge_addr]) => flash[blk_pge_addr].idx_chunk \in Filled',
           IsPlr(flash[blk_pge_addr]) => total_num_of_chunk' # 0
    PROVE  Collected'
<1> SUFFICES ASSUME NEW a \in Addrs, a < blk_pge_addr + 1
             PROVE  /\ Carries(flash[a]) => flash[a].idx_chunk \in Filled'
                    /\ IsPlr(flash[a]) => total_num_of_chunk' # 0
  BY DEF Collected, Carries, IsPlr, is_plr_first_load_part, read_status
<1>0. a \in Int /\ blk_pge_addr \in Int
  BY PlrAssumption DEF PlrInv, TypeOK, Addrs
<1>1. CASE a = blk_pge_addr
  BY <1>1
<1>2. CASE a < blk_pge_addr
  BY <1>2 DEF Collected
<1> QED BY <1>0, <1>1, <1>2

\* The page under the scan and the flags nsu_init derives from it.
LEMMA ScannedPage ==
    ASSUME PlrInv, Scanning
    PROVE  /\ blk_pge_addr \in Addrs
           /\ IsPlr(flash[blk_pge_addr]) => flash[blk_pge_addr].total_chunk = Total
           /\ Carries(flash[blk_pge_addr]) =>
                 /\ flash[blk_pge_addr].idx_chunk \in 0 .. Total - 1
                 /\ flash[blk_pge_addr].idx_chunk \in Indices
<1>1. blk_pge_addr \in Addrs
  BY PlrAssumption DEF PlrInv, TypeOK, Scanning, Addrs
<1>2. PageOK(flash[blk_pge_addr])
  BY <1>1 DEF PlrInv
<1>3. \A k \in 0 .. Total - 1 : k \in Indices
  BY Sizes, PlrAssumption DEF Indices
<1> QED BY <1>1, <1>2, <1>3 DEF PageOK, Carries, IsPlr, is_plr_first_load_part

\* A page that fills an entry: the scan is complete or goes on.
LEMMA FillKeepsOn ==
    ASSUME PlrInv, PlrInv', FillEntry, ScanInv, KnownInTime,
           \A a \in Addrs : Placed(flash[a], a)
    PROVE  phase' = "ready" \/ (phase' = "scan" /\ ScanInv')
<1> DEFINE p == flash[blk_pge_addr]
           total == IF ~is_plr_first_load_part(p) /\ total_num_of_chunk = 0
                    THEN p.total_chunk ELSE total_num_of_chunk
<1>1. /\ Scanning /\ Carries(p) /\ plr_vmpage_table[p.idx_chunk] = EMPTY
      /\ total_num_of_chunk' = total
      /\ plr_vmpage_table' = [plr_vmpage_table EXCEPT ![p.idx_chunk] = u16_t(blk_pge_addr)]
      /\ cnt_valid_chunk' = cnt_valid_chunk + 1
      /\ blk_pge_addr' = blk_pge_addr + 1
      /\ flash' = flash
  BY DEF FillEntry, fill_table, Carries, NextPage
<1>2. \/ phase' = "ready"
      \/ cnt_valid_chunk + 1 # total /\ EndOfCopy(total, p)
  BY DEF FillEntry
<1>3. /\ blk_pge_addr \in Addrs
      /\ p.idx_chunk \in 0 .. Total - 1 /\ p.idx_chunk \in Indices
      /\ total \in {0, Total}
      /\ total_num_of_chunk # 0 => total = total_num_of_chunk
      /\ total = 0 => is_plr_first_load_part(p) /\ total_num_of_chunk = 0
  BY <1>1, Sizes, ScannedPage DEF Carries, PlrInv, TypeOK
<1>4. IsPlr(p) => total # 0
  <2>1. IsPlr(p) => ~is_plr_first_load_part(p)
    BY DEF IsPlr, is_plr_first_load_part
  <2> QED BY <1>3, <2>1
<1>5. Filled' = Filled \union {p.idx_chunk}
  <2>1. u16_t(blk_pge_addr) # EMPTY
    <3>1. p.sig \in {"plr", "plr_fl"}
      BY <1>1 DEF Carries, IsPlr, is_plr_first_load_part
    <3>2. blk_pge_addr < AllOnes /\ blk_pge_addr \in Nat
      BY <1>3, <3>1, PlrAssumption DEF PlrInv, InReach, Addrs
    <3> QED BY <3>2, CastFits
  <2>2. plr_vmpage_table \in [Indices -> Addrs \union {EMPTY}]
    BY DEF PlrInv, TypeOK
  <2> QED BY <1>1, <1>3, <2>1, <2>2 DEF Filled
<1> HIDE DEF total
<1>6. ASSUME cnt_valid_chunk + 1 # total, EndOfCopy(total, p)
      PROVE  phase' = "scan" /\ ScanInv'
  <2>1. phase' = "scan" /\ InStep'
    BY <1>1, <1>3, <1>6, EndOfCopyInStep DEF ScanInv
  <2>2. Collected'
    <3>1. /\ Filled \subseteq Filled'
          /\ total_num_of_chunk # 0 => total_num_of_chunk' # 0
          /\ p.idx_chunk \in Filled'
          /\ IsPlr(p) => total_num_of_chunk' # 0
      BY <1>1, <1>3, <1>4, <1>5
    <3> QED BY <1>1, <3>1, NextPageScanInv DEF ScanInv
  <2>3. total_num_of_chunk' = 0 => Filled' \subseteq 0 .. NumFl - 1
    <3> SUFFICES ASSUME total = 0 PROVE Filled' \subseteq 0 .. NumFl - 1
      BY <1>1
    <3>1. Filled \subseteq 0 .. NumFl - 1
      BY <1>3 DEF ScanInv
    <3>2. p.idx_chunk < NumFl
      BY <1>3 DEF Placed, is_plr_first_load_part
    <3>3. p.idx_chunk \in 0 .. NumFl - 1
      BY <1>3, <3>2, PlrAssumption, Sizes
    <3> QED BY <1>5, <3>1, <3>3
  <2>4. cnt_valid_chunk' # Total
    <3>1. CASE total = 0
      <4>1. Filled' \subseteq 0 .. NumFl - 1
        BY <1>1, <2>3, <3>1
      <4>2. (PlrInv /\ Filled \subseteq 0 .. NumFl - 1 => cnt_valid_chunk # Total)'
        BY FirstLoadIsNotAll, PTL
      <4> QED BY <4>1, <4>2
    <3>2. CASE total = Total
      BY <1>1, <1>6, <3>2
    <3> QED BY <1>3, <3>1, <3>2
  <2> QED BY <2>1, <2>2, <2>3, <2>4 DEF ScanInv
<1> QED BY <1>2, <1>6

\* A page that fills no entry: the scan goes on.
LEMMA PassKeepsOn ==
    ASSUME PlrInv, PlrInv', PassPage, ScanInv, KnownInTime,
           \A a \in Addrs : Placed(flash[a], a)
    PROVE  phase' = "scan" /\ ScanInv'
<1> DEFINE p == flash[blk_pge_addr]
           total == IF IsPlr(p) /\ total_num_of_chunk = 0
                    THEN p.total_chunk ELSE total_num_of_chunk
<1>1. /\ Scanning /\ ~fill_table(p) /\ EndOfCopy(total, p)
      /\ total_num_of_chunk' = total
      /\ blk_pge_addr' = blk_pge_addr + 1
      /\ UNCHANGED <<flash, cnt_valid_chunk, plr_vmpage_table>>
  BY DEF PassPage, NextPage
<1>2. /\ blk_pge_addr \in Addrs
      /\ total \in {0, Total}
      /\ total_num_of_chunk # 0 => total = total_num_of_chunk
      /\ IsPlr(p) => total # 0
      /\ total = 0 => total_num_of_chunk = 0
  BY <1>1, Sizes, ScannedPage DEF PlrInv, TypeOK
<1>3. Filled' = Filled
  BY <1>1 DEF Filled
<1>4. Carries(p) => p.idx_chunk \in Filled
  BY <1>1, ScannedPage DEF fill_table, Carries, Filled
<1> HIDE DEF total
<1>5. phase' = "scan" /\ InStep'
  BY <1>1, <1>2, EndOfCopyInStep DEF ScanInv
<1>6. Collected'
  <2>1. /\ Filled \subseteq Filled'
        /\ total_num_of_chunk # 0 => total_num_of_chunk' # 0
        /\ Carries(p) => p.idx_chunk \in Filled'
        /\ IsPlr(p) => total_num_of_chunk' # 0
    BY <1>1, <1>2, <1>3, <1>4
  <2> QED BY <1>1, <2>1, NextPageScanInv DEF ScanInv
<1> QED BY <1>1, <1>2, <1>3, <1>5, <1>6 DEF ScanInv

\* Pages of another kind are met only behind the image.
LEMMA SkipKeepsOn ==
    ASSUME FailuresFlagged, PlrInv, PlrInv', SkipOther, ScanInv,
           \A a \in Addrs : Placed(flash[a], a)
    PROVE  ScanInv'
<1>1. /\ Scanning /\ IsOther(flash[blk_pge_addr])
      /\ blk_pge_addr' = blk_pge_addr + 1
      /\ UNCHANGED <<flash, total_num_of_chunk, cnt_valid_chunk, plr_vmpage_table, phase>>
  BY DEF SkipOther, NextPage
<1>2. blk_pge_addr \in Addrs /\ flash[blk_pge_addr] \in Page /\ blk_pge_addr \in Int
      /\ Written \in Int
  BY <1>1, Sizes, ScannedPage DEF PlrInv, TypeOK
<1>3. ~(blk_pge_addr < Written)
  BY <1>1, <1>2, NoOtherInImage
<1>4. InStep'
  BY <1>1, <1>2, <1>3 DEF InStep, Written, Total
<1>5. Filled' = Filled
  BY <1>1 DEF Filled
<1>6. ~Carries(flash[blk_pge_addr]) /\ ~IsPlr(flash[blk_pge_addr])
  BY <1>1 DEF IsOther, IsPlr, Carries
<1>7. Collected'
  BY <1>1, <1>5, <1>6, NextPageScanInv DEF ScanInv
<1> QED BY <1>1, <1>4, <1>5, <1>7 DEF ScanInv

\* At the end of the flash a chunk without an entry has no readable page.
LEMMA EndJustified ==
    ASSUME PlrInv, EndOfFlash, ScanInv
    PROVE  \E k \in 0 .. Total - 1 : ~Available(k)
<1>1. PICK k \in 0 .. Total - 1 : k \notin Filled
  BY MissingEntry DEF ScanInv
<1>2. \A a \in Addrs : a < blk_pge_addr
  BY PlrAssumption DEF EndOfFlash, Addrs
<1>3. ~Available(k)
  BY <1>1, <1>2 DEF ScanInv, Collected, Available, Carries
<1> QED BY <1>3

\* nsu_init returns an error only for an image of which no readable page holds
\* some chunk, if no block was skipped when it was programmed and an ordinary
\* page before the last copy is readable: the end-of-copy test, which looks at
\* one page and at a count, never ends the search of such an image.
THEOREM FailsOnlyIfIncomplete == FailuresFlagged => (Spec => []NoSpuriousFailure)
<1> SUFFICES ASSUME FailuresFlagged PROVE Spec => []NoSpuriousFailure
  OBVIOUS
<1>1. Init /\ PlrInv => GiveUpInv
  <2> SUFFICES ASSUME Init, PlrInv, ~hole PROVE GiveUpInv
    BY DEF GiveUpInv
  <2>1. PICK h \in {a \in 0 .. Written : a % PagesPerBlock = 0 \/ a = Written},
             D \in SUBSET (0 .. Written - 1), lost \in BOOLEAN :
             flash = Damaged(Programmed(h), D, lost) /\ hole = (h < Written)
    BY DEF Init
  <2>2. h = Written
    <3>1. ~(h < Written)
      BY <2>1, Zenon
    <3>2. h \in 0 .. Written
      OBVIOUS
    <3> QED BY <3>1, <3>2, Sizes
  <2>3. \A a \in Addrs : Placed(flash[a], a)
    BY <2>1, <2>2, InitialPlaced
  <2>4. Filled = {}
    BY DEF Init, Filled
  <2>5. ScanInv
    <3>1. Collected
      BY PlrAssumption DEF Init, Collected, Addrs
    <3> QED BY <2>4, <3>1, Sizes DEF Init, ScanInv, InStep
  <2> QED BY <2>3, <2>5 DEF GiveUpInv, NoSpuriousFailure, Init
<1>2. PlrInv /\ PlrInv' /\ GiveUpInv /\ [Next]_vars => GiveUpInv'
  <2> SUFFICES ASSUME PlrInv, PlrInv', GiveUpInv, [Next]_vars, ~hole' PROVE GiveUpInv'
    BY DEF GiveUpInv
  <2>1. hole' = hole
    BY DEF Next, nsu_init, vars, FillEntry, PassPage, SkipOther, EndOfFlash,
           nsu_logical_page_read, GoesBad
  <2>2. /\ phase # "ready" => \A a \in Addrs : Placed(flash[a], a)
        /\ phase = "scan" /\ KnownInTime => ScanInv
        /\ NoSpuriousFailure
    BY <2>1 DEF GiveUpInv
  <2>3. CASE phase' = "ready"
    BY <2>3 DEF GiveUpInv, NoSpuriousFailure
  <2>4. CASE phase' # "ready" /\ nsu_init
    <3>1. phase = "scan" /\ flash' = flash
      BY <2>4 DEF nsu_init, FillEntry, PassPage, SkipOther, EndOfFlash, Scanning
    <3>2. \A a \in Addrs : Placed(flash[a], a)
      BY <2>2, <3>1
    <3>3. \A a \in Addrs : Placed(flash[a], a)'
      BY <3>1, <3>2 DEF Placed, LastCopy, Written, Total
    <3>4. KnownInTime' = KnownInTime
      BY <3>1 DEF KnownInTime, IsPlr, read_status
    <3>5. CASE ~KnownInTime
      BY <3>3, <3>4, <3>5 DEF GiveUpInv, NoSpuriousFailure
    <3>6. CASE KnownInTime /\ FillEntry
      BY <2>2, <2>4, <3>1, <3>2, <3>3, <3>6, FillKeepsOn DEF GiveUpInv, NoSpuriousFailure
    <3>7. CASE KnownInTime /\ PassPage
      BY <2>2, <3>1, <3>2, <3>3, <3>7, PassKeepsOn DEF GiveUpInv, NoSpuriousFailure
    <3>8. CASE KnownInTime /\ SkipOther
      <4>1. phase' = "scan"
        BY <3>1, <3>8 DEF SkipOther
      <4> QED BY <2>2, <3>1, <3>2, <3>3, <3>8, <4>1, SkipKeepsOn DEF GiveUpInv, NoSpuriousFailure
    <3>9. CASE KnownInTime /\ EndOfFlash
      <4>1. \E k \in 0 .. Total - 1 : ~Available(k)
        BY <2>2, <3>1, <3>9, EndJustified
      <4>2. (\E k \in 0 .. Total - 1 : ~Available(k))'
        BY <3>1, <4>1 DEF Available, IsPlr, is_plr_first_load_part, read_status
      <4>3. phase' = "failed"
        BY <3>9 DEF EndOfFlash
      <4> QED BY <3>3, <4>2, <4>3 DEF GiveUpInv, NoSpuriousFailure
    <3> QED BY <2>4, <3>5, <3>6, <3>7, <3>8, <3>9 DEF nsu_init
  <2>5. ASSUME phase' # "ready", NEW n \in 0 .. NumVPages - 1, nsu_logical_page_read(n)
        PROVE  FALSE
    BY <2>5 DEF nsu_logical_page_read
  <2>6. ASSUME phase' # "ready", NEW a \in 0 .. Written - 1, GoesBad(a) PROVE FALSE
    BY <2>6 DEF GoesBad
  <2>7. CASE UNCHANGED vars
    <3>1. /\ flash' = flash /\ phase' = phase /\ UNCHANGED vars
      BY <2>7 DEF vars
    <3>2. (\A a \in Addrs : Placed(flash[a], a)) => (\A a \in Addrs : Placed(flash[a], a))'
      BY <3>1 DEF Placed, LastCopy, Written, Total
    <3>3. KnownInTime' = KnownInTime /\ (\A k : Available(k)' = Available(k))
      BY <3>1 DEF KnownInTime, Available, IsPlr, is_plr_first_load_part, read_status
    <3>4. NoSpuriousFailure'
      <4>1. (phase = "failed" /\ ~hole /\ KnownInTime) => \E k \in 0 .. Total - 1 : ~Available(k)
        BY <2>2 DEF NoSpuriousFailure
      <4>2. (phase' = "failed" /\ ~hole' /\ KnownInTime') => \E k \in 0 .. Total - 1 : ~Available(k)'
        BY <2>1, <3>1, <3>3, <4>1
      <4> QED BY <4>2 DEF NoSpuriousFailure, Total
    <3>5. ScanInv => ScanInv'
      BY <2>7 DEF vars, ScanInv, Collected, InStep, Filled, Carries, IsPlr,
                  is_plr_first_load_part, read_status, Written, Total
    <3> QED BY <2>2, <3>1, <3>2, <3>3, <3>4, <3>5 DEF GiveUpInv
  <2> QED BY <2>3, <2>4, <2>5, <2>6, <2>7 DEF Next
<1>3. GiveUpInv => NoSpuriousFailure
  BY DEF GiveUpInv, NoSpuriousFailure
<1> QED BY <1>1, <1>2, <1>3, InitPlrInv, PlrInvariant, PTL DEF Spec
=============================================================================
