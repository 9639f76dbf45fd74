------------------------------- MODULE MmuDrv -------------------------------
(***************************************************************************)
(* Demand paging of the SPI-NAND preloader: the TLB-miss handler           *)
(* (template/9603cvd_spi_nand/ab_tlb_isr.S) and the page-frame driver      *)
(* (soc/cpu/mipsiaup/mmu_drv.c).                                           *)
(*                                                                         *)
(* The preloader's .text and .rodata live in a virtual area of NumVa pages *)
(* that is read from flash page by page into NumFrames frames of SRAM.     *)
(* The TLB itself is the page table: entry i always belongs to the pages   *)
(* 2i and 2i+1, its valid bits say which of the two is resident, and the   *)
(* ASID is only used to make every entry miss once after each load, so     *)
(* that accesses can be counted.  The frames wait in four circular lists,  *)
(* linked by the driver through head and tail pointers; the next frame to  *)
(* be taken is the head of the lowest non-empty one.                       *)
(*                                                                         *)
(* A step of the CPU is one access of the instruction being executed.  The *)
(* handler runs with exceptions disabled, so it is one action per outcome. *)
(* Every path of it ends in tlb_update_badvaddr_entry, which also loads    *)
(* CP0_EntryHi: outside the handler the CPU's ASID is current_asid.        *)
(***************************************************************************)
EXTENDS Integers, Sequences

CONSTANTS
    NumFrames,   \* frames between mapped_physical_sram_start and the end of SRAM
    NumVa,       \* pages between start_of_mapping_area and end_of_mapping_area
    VmPages,     \* NUM_VA_PAGES: MMU_VM_SIZE in pages
    NumTlb,      \* TLB_NUM_TLB_ENTRY
    NumAsid,     \* number of ASIDs: TLB_ASID_MASK + 1
    Programs     \* the page references one instruction may make, in order

\* mmu_drv_init stops when the mapping area exceeds MMU_VM_SIZE, _init_tlb when
\* no frame is left for it.
ASSUME MmuAssumption ==
    /\ NumFrames \in Nat \ {0}
    /\ NumVa \in Nat \ {0}
    /\ VmPages \in Nat
    /\ NumVa <= VmPages
    /\ NumTlb \in Nat \ {0}
    /\ NumTlb % 2 = 0
    /\ NumAsid \in Nat \ {0}
    /\ Programs \subseteq Seq(0 .. NumVa - 1)

VARIABLES
    links,         \* the head and tail pointers of _list[] and of the page_t entries
    list,          \* what the links stand for: the frames of each level, head first
    lowest_level,  \* _lowest_level
    page,          \* _page: the virtual page each frame holds, and its half
    current_asid,  \* _current_asid
    tlb,           \* the TLB entries, by index
    mem,           \* the virtual page whose bytes are in each frame
    refs,          \* page references of the instruction being executed
    ref,           \* the next of them to translate
    cpu            \* "run", or "stopped" after a page could not be read

vars == <<links, list, lowest_level, page, current_asid, tlb, mem, refs, ref, cpu>>

-----------------------------------------------------------------------------
Frames == 1 .. NumFrames

Pages == 0 .. NumVa - 1

NUM_LEVEL == 4

Levels == 0 .. NUM_LEVEL - 1

\* pfn 0 in an EntryLo register: no frame was ever written there.
NoFrame == 0

PSVA_FREE == -1

\* The bytes of a frame before any page was read into it.
Garbage == -2

PROMO_LEVEL(l) == (l + 1) % NUM_LEVEL

PROMO_LEVEL_2(l) == (l + 2) % NUM_LEVEL

\* The level a touched page is promoted to.  No statement ever assigns list_num
\* after mmu_drv_init zeroed it, so the level it is computed from is 0.
promote_list_num == PROMO_LEVEL(0)

\* Mutant: a load does not change the ASID.
KeepAsid(a) == a

INCREASE_ASID(a) == (a + 1) % NumAsid

ENTRYLO_IDX(v) == v % 2

\* The page number the handler works with: the low bits of BadVAddr's page.
vpage_num(v) == v % NumTlb

\* The TLB index the handler keeps in k1.
tlb_index(n) == n \div 2

EntryLo == [v : BOOLEAN, pfn : Frames \cup {NoFrame}]

TlbEntry == [vpn2 : Nat, asid : 0 .. NumAsid - 1, lo : [0 .. 1 -> EntryLo]]

Invalid == [v |-> FALSE, pfn |-> NoFrame]

-----------------------------------------------------------------------------
\* The lists.  A node is a frame's entry or the header of a level, _list[l].
\* tail points to a head field, modelled by the node that field belongs to.

Header(l) == -l

Nodes == Frames \cup {Header(l) : l \in Levels}

Links == [head : [Nodes -> Nodes], tail : [Nodes -> Nodes]]

\* The headers are made to point to themselves, then the frames are inserted in
\* list 0 one after the other: its header, node 0, and the frames form one ring.
InitLinks ==
    [head |-> [n \in Nodes |-> IF n < 0 THEN n ELSE (n + 1) % (NumFrames + 1)],
     tail |-> [n \in Nodes |-> IF n < 0 THEN n ELSE (n + NumFrames) % (NumFrames + 1)]]

insert_to_list_tail(lk, l, p) ==
    LET last == lk.tail[Header(l)]
    IN [head |-> [lk.head EXCEPT ![p] = lk.head[last], ![last] = p],
        tail |-> [lk.tail EXCEPT ![p] = last, ![Header(l)] = p]]

\* Mutant: the frame behind p keeps p as its predecessor.
MoveWithoutBackLink(lk, l, p) ==
    insert_to_list_tail([lk EXCEPT !.head[lk.tail[p]] = lk.head[p]], l, p)

\* The two assignments that unlink p from the list it is in.
Unlink(lk, p) ==
    [head |-> [lk.head EXCEPT ![lk.tail[p]] = lk.head[p]],
     tail |-> [lk.tail EXCEPT ![lk.head[p]] = lk.tail[p]]]

move_to_list(lk, l, p) == insert_to_list_tail(Unlink(lk, p), l, p)

\* A touched page is promoted unless that would put it in the lowest level.
promote(lk, low, p) ==
    IF promote_list_num # low THEN move_to_list(lk, promote_list_num, p) ELSE lk

\* low is the level the search for a victim stops at: the first list from
\* lowest_level upwards, around the circle, whose header does not point to itself.
VictimLevel(low) ==
    /\ links.head[Header(low)] # Header(low)
    /\ \A k \in Levels :
          (k - lowest_level) % NUM_LEVEL < (low - lowest_level) % NUM_LEVEL
              => links.head[Header(k)] = Header(k)

\* vic: the frame the header of level low points to.
Victim(low) == links.head[Header(low)]

\* What moving a frame means for the lists: it leaves the one it is in and becomes
\* the last of another.
Without(s, p) ==
    IF \E i \in 1 .. Len(s) : s[i] = p
    THEN LET i == CHOOSE i \in 1 .. Len(s) : s[i] = p
         IN SubSeq(s, 1, i - 1) \o SubSeq(s, i + 1, Len(s))
    ELSE s

Moved(ls, l, p) ==
    [k \in Levels |-> IF k = l THEN Append(Without(ls[k], p), p) ELSE Without(ls[k], p)]

Promoted(ls, low, p) ==
    IF promote_list_num # low THEN Moved(ls, promote_list_num, p) ELSE ls

-----------------------------------------------------------------------------
\* The TLB, as the hardware looks it up.

Matching(v) ==
    {i \in 0 .. NumTlb - 1 : tlb[i].vpn2 = v \div 2 /\ tlb[i].asid = current_asid}

\* The access is translated: f is the frame it reads.
Translates(v, f) ==
    \E i \in Matching(v) : LET lo == tlb[i].lo[ENTRYLO_IDX(v)]
                           IN lo.v /\ lo.pfn = f

\* TLB refill exception: no entry matches.
Refill(v) == Matching(v) = {}

\* TLB invalid exception: the entry that matches is not valid.
InvalidEntry(v) == \E i \in Matching(v) : ~tlb[i].lo[ENTRYLO_IDX(v)].v

\* The entry with the valid bit of one half changed, the rest written back as read.
TLB_SET_VALID(e, half, bit) ==
    [vpn2 |-> e.vpn2, asid |-> e.asid,
     lo |-> [e.lo EXCEPT ![half] = [v |-> bit, pfn |-> e.lo[half].pfn]]]

\* Mutant: the driver's older copy (soc/cpu/mips1004kc) passes the page number
\* where the index of the TLB entry is meant.
InvalidateByPage(t, n, half) ==
    IF n \in 0 .. NumTlb - 1 THEN [t EXCEPT ![n] = TLB_SET_VALID(@, half, FALSE)] ELSE t

invalid_tlb_entry(t, n, half) ==
    [t EXCEPT ![tlb_index(n)] = TLB_SET_VALID(@, half, FALSE)]

\* Mutant: the older copy again: the other half is written back as it was when
\* the exception was taken, before the victim was invalidated.
StaleBuddy(t, i, half, lo, inv) == lo[1 - half]

\* The other half of the entry, read again when a victim was invalidated.
RecheckedBuddy(t, i, half, lo, inv) == IF inv THEN t[i].lo[1 - half] ELSE lo[1 - half]

-----------------------------------------------------------------------------
\* mmu_drv_init; the frames still hold the recycled start-up code.
Init ==
    /\ links = InitLinks
    /\ list = [k \in Levels |-> IF k = 0 THEN [f \in Frames |-> f] ELSE <<>>]
    /\ lowest_level = 0
    /\ page = [f \in Frames |-> [vpage_num |-> PSVA_FREE, ent_lo_idx |-> 0]]
    /\ current_asid = 0
    /\ tlb = [i \in 0 .. NumTlb - 1 |->
                [vpn2 |-> i, asid |-> 0, lo |-> [h \in 0 .. 1 |-> Invalid]]]
    /\ mem = [f \in Frames |-> Garbage]
    /\ refs = <<>>
    /\ ref = 1
    /\ cpu = "run"

mmuVars == <<links, list, lowest_level, page, current_asid, tlb, mem>>

\* The next instruction.
Issue ==
    /\ cpu = "run"
    /\ refs = <<>>
    /\ refs' \in Programs
    /\ ref' = 1
    /\ UNCHANGED <<mmuVars, cpu>>

\* The page the CPU is about to translate.
Accessing(v) == cpu = "run" /\ refs # <<>> /\ v = refs[ref]

\* The access hits; after the last one the instruction is complete.
Access(v) ==
    /\ Accessing(v)
    /\ \E f \in Frames : Translates(v, f)
    /\ IF ref = Len(refs) THEN refs' = <<>> /\ ref' = 1
                          ELSE refs' = refs /\ ref' = ref + 1
    /\ UNCHANGED <<mmuVars, cpu>>

\* eret: the instruction starts over.
Restart == ref' = 1 /\ refs' = refs

\* Mutant: only the page's own half is kept when the entry is refreshed.
DropBuddy(v, lo) ==
    [vpn2 |-> v \div 2, asid |-> current_asid,
     lo |-> [lo EXCEPT ![1 - ENTRYLO_IDX(v)].v = FALSE]]

\* Mutant: the entry is written without SYNC_ENTRYHI, under ASID 0.
RefreshWithoutAsid(v, lo) == [vpn2 |-> v \div 2, asid |-> 0, lo |-> lo]

\* The entry mmu_tlb_miss_check_first writes: as it was, under the current ASID.
Refreshed(v, lo) == [vpn2 |-> v \div 2, asid |-> current_asid, lo |-> lo]

\* A refill the handler resolves without a load.  A valid half without a frame
\* would stop it in the MMU_CHECK_INETRNAL_ERROR loop.
mmu_tlb_miss_check_first(v) ==
    LET i == tlb_index(vpage_num(v))
        lo == tlb[i].lo
        f == lo[ENTRYLO_IDX(v)].pfn
    IN /\ Accessing(v)
       /\ Refill(v)
       /\ lo[ENTRYLO_IDX(v)].v
       /\ f # NoFrame
       /\ tlb' = [tlb EXCEPT ![i] = Refreshed(v, lo)]
       /\ links' = promote(links, lowest_level, f)
       /\ list' = Promoted(list, lowest_level, f)
       /\ Restart
       /\ UNCHANGED <<lowest_level, page, current_asid, mem, cpu>>

\* The exceptions that reach mmu_tlb_miss_va_to_pa: a refill whose entry is not
\* valid either, and every TLB invalid exception.
NeedsLoad(v) ==
    /\ Accessing(v)
    /\ \/ Refill(v) /\ ~tlb[tlb_index(vpage_num(v))].lo[ENTRYLO_IDX(v)].v
       \/ InvalidEntry(v)

\* The internal checks that stop mmu_tlb_miss_va_to_pa in an endless loop: both
\* halves already valid, or a victim whose page is out of range.  The victim's
\* cache lines are written back through its virtual address before the entry is
\* invalidated: an entry that is not valid then would fault inside the handler.
\* Where one of these holds the handler never returns, so no step follows.
ChecksFail(v, vic) ==
    LET lo == tlb[tlb_index(vpage_num(v))].lo
        n == page[vic].vpage_num
    IN \/ lo[0].v /\ lo[1].v
       \/ n # PSVA_FREE /\ n >= VmPages
       \/ n # PSVA_FREE /\ ~tlb[tlb_index(n)].lo[page[vic].ent_lo_idx].v

\* The frame vic is taken for page n, the page is read into it, and its half of
\* TLB entry i is written; the other half's page counts as touched.
MapPage(v, n, i, half, low, vic) ==
    LET lo == tlb[i].lo
        inv == page[vic].vpage_num # PSVA_FREE
        t == IF inv THEN invalid_tlb_entry(tlb, page[vic].vpage_num, page[vic].ent_lo_idx)
                    ELSE tlb
        linked == move_to_list(links, PROMO_LEVEL_2(low), vic)
        moved == Moved(list, PROMO_LEVEL_2(low), vic)
        bud == lo[1 - half].pfn
    IN /\ lowest_level' = low
       /\ page' = [page EXCEPT ![vic] = [vpage_num |-> n, ent_lo_idx |-> half]]
       /\ mem' = [mem EXCEPT ![vic] = n]
       /\ links' = IF bud # NoFrame THEN promote(linked, low, bud) ELSE linked
       /\ list' = IF bud # NoFrame THEN Promoted(moved, low, bud) ELSE moved
       /\ current_asid' = INCREASE_ASID(current_asid)
       /\ tlb' = [t EXCEPT ![i] =
                    [vpn2 |-> v \div 2,
                     asid |-> INCREASE_ASID(current_asid),
                     lo |-> [h \in 0 .. 1 |->
                                IF h = half THEN [v |-> TRUE, pfn |-> vic]
                                ELSE RecheckedBuddy(t, i, half, lo, inv)]]]

\* The read of the page from flash succeeds and the page is mapped.
mmu_tlb_miss_va_to_pa(v) ==
    /\ NeedsLoad(v)
    /\ \E low \in Levels :
          /\ VictimLevel(low)
          /\ ~ChecksFail(v, Victim(low))
          /\ MapPage(v, vpage_num(v), tlb_index(vpage_num(v)), ENTRYLO_IDX(v), low, Victim(low))
    /\ Restart
    /\ UNCHANGED cpu

\* The flash read fails: message, then an endless loop.  What the driver did to
\* the victim before the read is not seen by anyone any more.
LoadFails(v) ==
    /\ NeedsLoad(v)
    /\ \E low \in Levels : VictimLevel(low) /\ ~ChecksFail(v, Victim(low))
    /\ cpu' = "stopped"
    /\ UNCHANGED <<mmuVars, refs, ref>>

Handle == \E v \in Pages : \/ Access(v)
                           \/ mmu_tlb_miss_check_first(v)
                           \/ mmu_tlb_miss_va_to_pa(v)
                           \/ LoadFails(v)

Next == Issue \/ Handle

\* The CPU never stops executing by itself.
Spec == Init /\ [][Next]_vars /\ WF_vars(Handle)

-----------------------------------------------------------------------------
TypeOK ==
    /\ links \in Links
    /\ list \in [Levels -> Seq(Frames)]
    /\ lowest_level \in Levels
    /\ page \in [Frames -> [vpage_num : {PSVA_FREE} \cup 0 .. NumTlb - 1, ent_lo_idx : 0 .. 1]]
    /\ current_asid \in 0 .. NumAsid - 1
    /\ tlb \in [0 .. NumTlb - 1 -> TlbEntry]
    /\ mem \in [Frames -> {Garbage} \cup 0 .. NumTlb - 1]
    /\ refs \in Programs \cup {<<>>}
    /\ ref \in Nat
    /\ cpu \in {"run", "stopped"}

-----------------------------------------------------------------------------
\* Every entry keeps the pair of pages it stands for, a valid half names the
\* frame that holds its page, and a frame that holds a page is named by that
\* page's half and contains its bytes.
TlbAgrees ==
    /\ \A i \in 0 .. NumTlb - 1 : tlb[i].vpn2 = i
    /\ \A i \in 0 .. NumTlb - 1, h \in 0 .. 1 :
          tlb[i].lo[h].v =>
              /\ tlb[i].lo[h].pfn \in Frames
              /\ page[tlb[i].lo[h].pfn].vpage_num = 2 * i + h
    /\ \A f \in Frames :
          page[f].vpage_num # PSVA_FREE =>
              LET n == page[f].vpage_num
                  lo == tlb[tlb_index(n)].lo[n % 2]
              IN /\ page[f].ent_lo_idx = n % 2
                 /\ lo.v
                 /\ lo.pfn = f
                 /\ mem[f] = n

\* An access that the TLB translates reads the page it names: eviction, reload,
\* refresh and the reuse of old ASIDs never leave a page mapped to a frame that
\* has been given to another (mmu_tlb_miss_va_to_pa, mmu_tlb_miss_check_first).
AccessReadsItsPage ==
    \A v \in Pages, f \in Frames : Translates(v, f) => mem[f] = v

\* Whenever a page has to be loaded the search for a victim ends, none of the
\* MMU_CHECK_INETRNAL_ERROR loops is entered, and the victim's cache lines can be
\* written back through its own mapping: the handler returns or reports a
\* failing read.
HandlerReturns ==
    \A v \in Pages :
        /\ NeedsLoad(v) =>
              \E low \in Levels : VictimLevel(low) /\ ~ChecksFail(v, Victim(low))
        /\ Accessing(v) /\ Refill(v) /\ ~NeedsLoad(v) =>
              tlb[tlb_index(vpage_num(v))].lo[ENTRYLO_IDX(v)].pfn # NoFrame

\* Every frame is in the lists, and in one place of them.
OneList(ls) ==
    /\ \A f \in Frames : \E k \in Levels : \E j \in 1 .. Len(ls[k]) : ls[k][j] = f
    /\ \A k1 \in Levels, k2 \in Levels :
          \A j1 \in 1 .. Len(ls[k1]), j2 \in 1 .. Len(ls[k2]) :
              ls[k1][j1] = ls[k2][j2] => k1 = k2 /\ j1 = j2

\* The i-th node on the way around the list of level l: its header at both ends.
Node(l, s, i) == IF i \in 1 .. Len(s) THEN s[i] ELSE Header(l)

\* Followed forwards and backwards, the links of level l visit the frames of s.
Spells(lk, l, s) ==
    \A i \in 0 .. Len(s) : /\ lk.head[Node(l, s, i)] = Node(l, s, i + 1)
                           /\ lk.tail[Node(l, s, i + 1)] = Node(l, s, i)

Intact(lk, ls) == OneList(ls) /\ \A l \in Levels : Spells(lk, l, ls[l])

\* The pointer assignments of move_to_list and insert_to_list_tail keep four
\* circular lists: each can be followed in both directions and visits its frames in
\* the order they were put there, and every frame is on exactly one of them,
\* however the victims, the promotions and the stale other halves follow one
\* another, and also when a list becomes empty or a frame is moved to its own list.
ListsIntact == Intact(links, list)

\* An instruction that needs several pages at once is not starved: the loads it
\* causes do not keep evicting each other's pages, so it completes unless a page
\* cannot be read.
InstructionCompletes == (refs # <<>>) ~> (refs = <<>> \/ cpu = "stopped")

\* Loading a page ends every other translation, so that the next access to each
\* resident page is counted: "clean up all entries in TLB (by increase global
\* asid), which means all TLB entries will need to be refill".  ASIDs are reused, so
\* this needs more of them than loads an untouched page can survive.
LoadForcesRefill ==
    [][\A v \in Pages : mmu_tlb_miss_va_to_pa(v) =>
          \A w \in Pages : w \div 2 # v \div 2 => ~\E f \in Frames : Translates(w, f)']_vars

=============================================================================
