------------------------------- MODULE PlrMap -------------------------------
(***************************************************************************)
(* The preloader's own image on flash: how bchenc writes it                *)
(* (write_out_plr), how nsu_init finds its chunks at start-up, and how     *)
(* nsu_logical_page_read serves the demand pager from the table nsu_init   *)
(* built (template/9603cvd_spi_nand/ab_spi_nand_util.c).                   *)
(*                                                                         *)
(* One copy is NumFl first-load pages, which the boot ROM reads and which  *)
(* have a page layout of their own, followed by NumRest ordinary pages.    *)
(* The copies follow each other without padding.  A block that is bad when *)
(* the image is programmed is skipped, so that everything behind it is     *)
(* found one block later (hole); further pages are damaged afterwards.     *)
(***************************************************************************)
EXTENDS FlashPage, Sequences

CONSTANTS
    NumFl,          \* num_of_fl_page
    NumRest,        \* ordinary pages of one copy
    Copies,         \* num_plr
    NumPages,       \* pages of the device
    TableSize,      \* PLR_MAP_TABLE_SIZE
    ChunksPerPage,  \* chunk_per_tlb_page: flash pages in one virtual page
    MaxFaults       \* bound: pages that go bad after nsu_init

Total == NumFl + NumRest

Written == Copies * Total

\* Virtual pages of the mapping area: the ordinary pages, rounded up.
NumVPages == (NumRest + ChunksPerPage - 1) \div ChunksPerPage

\* The Makefile refuses an image with more chunks than PLR_MAP_TABLE_SIZE; the
\* table also holds the unused entries of a partial last virtual page.  The device
\* may have more pages than a u16_t counts; the image is in front of the last of those.
ASSUME PlrAssumption ==
    /\ NumFl \in Nat \ {0}
    /\ NumRest \in Nat \ {0}
    /\ Copies \in Nat \ {0}
    /\ ChunksPerPage \in Nat \ {0}
    /\ NumPages \in Nat
    /\ NumPages >= Written + PagesPerBlock
    /\ Written + PagesPerBlock <= AllOnes
    /\ TableSize \in Nat
    /\ TableSize >= NumFl + ChunksPerPage * NumVPages
    /\ MaxFaults \in Nat

VARIABLES
    flash,              \* the pages of the device
    blk_pge_addr,       \* the page nsu_init is about to read
    cnt_pge,            \* pages counted since the last copy boundary
    total_num_of_chunk, \* from the first ordinary page; 0 until then
    cnt_valid_chunk,    \* chunks found so far
    plr_vmpage_table,   \* where each chunk was found; AllOnes: not found
    phase,              \* "scan", "ready" or "failed"
    got,                \* the last logical page read: number, status, chunks
    faults,             \* pages that went bad after nsu_init
    hole                \* whether a bad block was skipped when programming

vars == <<flash, blk_pge_addr, cnt_pge, total_num_of_chunk, cnt_valid_chunk,
          plr_vmpage_table, phase, got, faults, hole>>

Addrs == 0 .. NumPages - 1

Indices == 0 .. TableSize - 1

\* plr_vmpage_table is memset to 0xFF: 0xFFFF in each u16_t.
EMPTY == AllOnes

\* The cast of a page address to u16_t.
u16_t(a) == a % (AllOnes + 1)

-----------------------------------------------------------------------------
\* The k-th page of copy r.  A first-load page has its own signature and page
\* index and no ordinary out-of-band data.
PlrPage(r, k) ==
    IF k < NumFl
    THEN [BlankPage EXCEPT !.sig = "plr_fl", !.idx_chunk = k, !.data = k]
    ELSE [sig |-> "plr", idx_copy |-> r, idx_chunk |-> k, total_chunk |-> Total,
          num_copy |-> Copies, data |-> k, bad |-> {}]

write_out_plr(off) ==
    IF off < Written THEN PlrPage(off \div Total, off % Total) ELSE BlankPage

\* The image programmed from page 0, around a bad block that starts at page h
\* (none if h is at or behind the end of the image).
Programmed(h) ==
    [a \in Addrs |->
        IF a < h THEN write_out_plr(a)
        ELSE IF h >= Written THEN BlankPage
        ELSE IF a < h + PagesPerBlock THEN [BlankPage EXCEPT !.bad = Sectors]
        ELSE write_out_plr(a - PagesPerBlock)]

\* The pages of D can no longer be decoded; lost: neither can their out-of-band
\* data be recognised.
Damaged(f, D, lost) ==
    [a \in Addrs |->
        IF a \notin D THEN f[a]
        ELSE [(IF lost THEN BlankPage ELSE f[a]) EXCEPT !.bad = {0}]]

-----------------------------------------------------------------------------
\* The first-load layout of the page decodes and carries its signature.
is_plr_first_load_part(p) == p.bad = {} /\ p.sig = "plr_fl"

\* The status of the ordinary read.  The sectors of a first-load page are not
\* where that read expects them, so it cannot be decoded as an ordinary page.
read_status(p) ==
    page_read_ecc(IF p.sig = "plr_fl" THEN [p EXCEPT !.bad = Sectors] ELSE p)

IsPlr(p) == ~IS_ECC_DECODE_FAIL(read_status(p)) /\ p.sig = "plr"

\* A page of another kind that decodes: the loop continues at once.
IsOther(p) ==
    /\ ~is_plr_first_load_part(p)
    /\ ~IS_ECC_DECODE_FAIL(read_status(p))
    /\ p.sig # "plr"

\* Mutant: a chunk already found is counted again.
RefillAny(p) == is_plr_first_load_part(p) \/ IsPlr(p)

\* fill_table: the page carries a chunk that has not been found yet.
fill_table(p) ==
    /\ is_plr_first_load_part(p) \/ IsPlr(p)
    /\ plr_vmpage_table[p.idx_chunk] = EMPTY

Init ==
    /\ \E h \in {a \in 0 .. Written : a % PagesPerBlock = 0 \/ a = Written},
          D \in SUBSET (0 .. Written - 1), lost \in BOOLEAN :
          /\ flash = Damaged(Programmed(h), D, lost)
          /\ hole = (h < Written)
    /\ blk_pge_addr = 0
    /\ cnt_pge = 0
    /\ total_num_of_chunk = 0
    /\ cnt_valid_chunk = 0
    /\ plr_vmpage_table = [k \in Indices |-> EMPTY]
    /\ phase = "scan"
    /\ got = [page |-> 0, ret |-> -1, data |-> <<>>]
    /\ faults = 0

Scanning == phase = "scan" /\ blk_pge_addr < NumPages

\* Mutant: the scan gives up at every boundary once a copy has been read.
GiveUpAtOnce(total, p) ==
    IF cnt_pge >= total /\ total # 0
    THEN cnt_pge' = (cnt_pge % total) + 1 /\ phase' = "failed"
    ELSE cnt_pge' = cnt_pge + 1 /\ phase' = "scan"

\* The end-of-copy test after page p: every total pages the count starts over,
\* and on a page of the last copy the scan gives up.
EndOfCopy(total, p) ==
    IF cnt_pge >= total /\ total # 0
    THEN /\ cnt_pge' = (cnt_pge % total) + 1
         /\ phase' = IF p.idx_copy + 1 = p.num_copy THEN "failed" ELSE "scan"
    ELSE /\ cnt_pge' = cnt_pge + 1
         /\ phase' = "scan"

NextPage == blk_pge_addr' = blk_pge_addr + 1

\* A page that fills an entry.
FillEntry ==
    LET p == flash[blk_pge_addr]
        total == IF ~is_plr_first_load_part(p) /\ total_num_of_chunk = 0
                 THEN p.total_chunk ELSE total_num_of_chunk
    IN /\ Scanning
       /\ fill_table(p)
       /\ total_num_of_chunk' = total
       /\ plr_vmpage_table' = [plr_vmpage_table EXCEPT ![p.idx_chunk] = u16_t(blk_pge_addr)]
       /\ cnt_valid_chunk' = cnt_valid_chunk + 1
       /\ IF cnt_valid_chunk + 1 = total
          THEN phase' = "ready" /\ UNCHANGED cnt_pge
          ELSE EndOfCopy(total, p)
       /\ NextPage
       /\ UNCHANGED <<flash, got, faults, hole>>

\* A page of the image that fills none: known already, or not readable.
PassPage ==
    LET p == flash[blk_pge_addr]
        total == IF IsPlr(p) /\ total_num_of_chunk = 0
                 THEN p.total_chunk ELSE total_num_of_chunk
    IN /\ Scanning
       /\ ~fill_table(p)
       /\ ~IsOther(p)
       /\ total_num_of_chunk' = total
       /\ EndOfCopy(total, p)
       /\ NextPage
       /\ UNCHANGED <<flash, cnt_valid_chunk, plr_vmpage_table, got, faults, hole>>

\* Mutant: a page of another kind makes the scan skip a block.
SkipBlock ==
    /\ Scanning
    /\ IsOther(flash[blk_pge_addr])
    /\ cnt_pge' = cnt_pge + 1
    /\ blk_pge_addr' = blk_pge_addr + PagesPerBlock
    /\ UNCHANGED <<flash, total_num_of_chunk, cnt_valid_chunk, plr_vmpage_table,
                   phase, got, faults, hole>>

\* Mutant: the loop does not move on from a page of another kind.
StayOnOther ==
    /\ Scanning
    /\ IsOther(flash[blk_pge_addr])
    /\ UNCHANGED vars

\* A page of another kind is counted and skipped.
SkipOther ==
    /\ Scanning
    /\ IsOther(flash[blk_pge_addr])
    /\ cnt_pge' = cnt_pge + 1
    /\ NextPage
    /\ UNCHANGED <<flash, total_num_of_chunk, cnt_valid_chunk, plr_vmpage_table,
                   phase, got, faults, hole>>

\* The whole device was read without completing the table.
EndOfFlash ==
    /\ phase = "scan"
    /\ blk_pge_addr = NumPages
    /\ phase' = "failed"
    /\ UNCHANGED <<flash, blk_pge_addr, cnt_pge, total_num_of_chunk, cnt_valid_chunk,
                   plr_vmpage_table, got, faults, hole>>

-----------------------------------------------------------------------------
\* tlb_start_idx: the first-load part ends where the mapping area starts.
tlb_start_idx == NumFl

\* Mutant: the virtual page number is taken for the index of its first chunk.
UnscaledMapping(n) ==
    [i \in 1 .. ChunksPerPage |-> plr_vmpage_table[n + tlb_start_idx + i - 1]]

\* The table entries of virtual page n, up to the first empty one.
Mapping(n) ==
    LET index == n * ChunksPerPage + tlb_start_idx
        len == CHOOSE l \in 0 .. ChunksPerPage :
                  /\ \A i \in 0 .. l - 1 : plr_vmpage_table[index + i] # EMPTY
                  /\ l = ChunksPerPage \/ plr_vmpage_table[index + l] = EMPTY
    IN [i \in 1 .. len |-> plr_vmpage_table[index + i - 1]]

\* Mutant: a chunk that cannot be decoded is copied all the same.
ReadUnchecked(n) ==
    LET m == Mapping(n)
    IN [page |-> n, ret |-> 0,
        data |-> [i \in DOMAIN m |->
                    IF flash[m[i]].bad = {} THEN flash[m[i]].data ELSE AllOnes]]

\* The pages of virtual page n are read and copied one after the other; the
\* first that cannot be decoded ends the read with an error.
LogicalRead(n) ==
    LET m == Mapping(n)
    IN IF \E i \in DOMAIN m : IS_ECC_DECODE_FAIL(read_status(flash[m[i]]))
       THEN [page |-> n, ret |-> -1, data |-> <<>>]
       ELSE [page |-> n, ret |-> 0, data |-> [i \in DOMAIN m |-> flash[m[i]].data]]

nsu_logical_page_read(n) ==
    /\ phase = "ready"
    /\ got' = LogicalRead(n)
    /\ UNCHANGED <<flash, blk_pge_addr, cnt_pge, total_num_of_chunk, cnt_valid_chunk,
                   plr_vmpage_table, phase, faults, hole>>

\* A page goes bad while the preloader runs.
GoesBad(a) ==
    /\ phase = "ready"
    /\ faults < MaxFaults
    /\ flash[a].bad = {}
    /\ flash' = [flash EXCEPT ![a].bad = {0}]
    /\ faults' = faults + 1
    /\ UNCHANGED <<blk_pge_addr, cnt_pge, total_num_of_chunk, cnt_valid_chunk,
                   plr_vmpage_table, phase, got, hole>>

nsu_init == FillEntry \/ PassPage \/ SkipOther \/ EndOfFlash

Next ==
    \/ nsu_init
    \/ \E n \in 0 .. NumVPages - 1 : nsu_logical_page_read(n)
    \/ \E a \in 0 .. Written - 1 : GoesBad(a)

\* The start-up code runs to its end; the pager's requests need not come.
Spec == Init /\ [][Next]_vars /\ WF_vars(nsu_init)

-----------------------------------------------------------------------------
\* The variables of nsu_init and the table stay within their ranges.
TypeOK ==
    /\ flash \in [Addrs -> Page]
    /\ blk_pge_addr \in 0 .. NumPages
    /\ cnt_pge \in 0 .. NumPages
    /\ total_num_of_chunk \in {0, Total}
    /\ cnt_valid_chunk \in 0 .. Total
    /\ plr_vmpage_table \in [Indices -> Addrs \union {EMPTY}]
    /\ phase \in {"scan", "ready", "failed"}
    /\ got \in [page : 0 .. NumVPages - 1, ret : {0, -1}, data : Seq(Nat)]
    /\ faults \in 0 .. MaxFaults
    /\ hole \in BOOLEAN

\* nsu_init counts pages, the pager needs chunks: when it returns 0 every chunk
\* of the image has an entry, and the entry names a page that holds this chunk,
\* whichever copies the pages came from.
ReadyMeansMapped ==
    phase = "ready" =>
        \A k \in 0 .. Total - 1 :
            /\ plr_vmpage_table[k] # EMPTY
            /\ flash[plr_vmpage_table[k]].sig \in {"plr", "plr_fl"}
            /\ flash[plr_vmpage_table[k]].idx_chunk = k

\* A readable page that holds chunk k.
Available(k) ==
    \E a \in Addrs : /\ flash[a].idx_chunk = k
                     /\ is_plr_first_load_part(flash[a]) \/ IsPlr(flash[a])

\* An ordinary page of a copy other than the last is readable, so that the
\* number of chunks is known before the last copy is reached.
KnownInTime ==
    \E a \in Addrs : IsPlr(flash[a]) /\ flash[a].idx_copy + 1 < flash[a].num_copy

\* nsu_init returns an error only for an image that cannot be put together: one
\* readable page per chunk, in any of the copies, is enough.  This holds for an
\* image programmed without a skipped block and with a readable ordinary page
\* before the last copy; the end-of-copy test may give up early otherwise.
NoSpuriousFailure ==
    (phase = "failed" /\ ~hole /\ KnownInTime) => \E k \in 0 .. Total - 1 : ~Available(k)

\* The number of chunks of virtual page n: fewer in the last page.
VPageChunks(n) ==
    LET rest == NumRest - n * ChunksPerPage
    IN IF rest < ChunksPerPage THEN rest ELSE ChunksPerPage

\* What virtual page n holds: its chunks in their order.
VPageContents(n) ==
    [i \in 1 .. VPageChunks(n) |-> NumFl + n * ChunksPerPage + i - 1]

\* A logical page read that reports success has delivered exactly the chunks of
\* the page asked for, also when pages went bad after nsu_init; the demand pager
\* executes what it gets.
ReadsAreExact == got.ret = 0 => got.data = VPageContents(got.page)

\* Whatever is on the flash, nsu_init returns.
InitReturns == <>(phase # "scan")
=============================================================================
