---------------------------- MODULE UbootLoader ----------------------------
(***************************************************************************)
(* The preloader's last init function: lib/bringUboot/                     *)
(* spi_nand_uboot_bringup.c (onfi_uboot_bringup.c is the same text over    *)
(* another driver).  ecc_uboot_to_dram scans the flash page by page from   *)
(* block 1 and collects the chunks of U-Boot from whichever copy holds     *)
(* them; uboot_bring_up then interprets the image header, inflates or      *)
(* copies the image and jumps to it.  A failure is an endless loop.        *)
(*                                                                         *)
(* One step is one iteration of the scan or one stage of the bring-up: the *)
(* code runs alone, with interrupts off, and only its order matters.       *)
(***************************************************************************)
EXTENDS FlashPage

CONSTANTS
  MaxBlkPge,    \* pages of the device
  TableSize,    \* entries of page_valid_table, MAX_UBOOT_SIZE / page_size
  Images        \* what the flash may hold when the preloader starts

\* start_blk << 6, with start_blk = 1
FirstPage == PagesPerBlock

PageAddrs == FirstPage .. MaxBlkPge - 1
Slots     == 0 .. TableSize - 1

\* The header field ih_comp, or "raw" when ih_magic is neither magic number.
Formats == {"raw", "none", "lzma", "other"}

Image == [flash : [PageAddrs -> Page], ih_size : Nat, format : Formats]

ASSUME GeometryAssumption ==
  /\ MaxBlkPge \in Nat
  /\ FirstPage <= MaxBlkPge
  /\ TableSize \in Nat \ {0}

ASSUME ImagesAssumption == Images \subseteq Image

VARIABLES
  image,               \* contents of the flash
  pc,                  \* "scan", "header", "inflate", "start", "jump", "halt"
  blk_pge_addr,        \* loop variable
  total_uboot_pages,   \* from the first U-Boot page found; 0 until then
  total_uboot_copies,
  uboot_idx,
  cnt_valid_page,
  page_valid_table,    \* chunk -> 0 or 1
  dram,                \* chunk -> the flash page copied to its slot, 0 if none
  ret                  \* result of ecc_uboot_to_dram; 0 while it runs

vars == <<image, pc, blk_pge_addr, total_uboot_pages, total_uboot_copies,
          uboot_idx, cnt_valid_page, page_valid_table, dram, ret>>
header == <<total_uboot_pages, total_uboot_copies, uboot_idx>>

oob == image.flash[blk_pge_addr]

Init ==
  /\ image \in Images
  /\ pc = "scan"
  /\ blk_pge_addr = FirstPage
  /\ total_uboot_pages = 0
  /\ total_uboot_copies = 0
  /\ uboot_idx = 0
  /\ cnt_valid_page = 0
  /\ page_valid_table = [i \in Slots |-> 0]
  /\ dram = [i \in Slots |-> 0]
  /\ ret = 0

-----------------------------------------------------------------------------
\* ecc_uboot_to_dram

Scanning == pc = "scan" /\ blk_pge_addr < MaxBlkPge

\* "continue" on the status of the page read.
EccSkips == page_read_ecc(oob) = ECC_CTRL_ERR

IsUboot == oob.sig = "uboot"

\* Mutant: the copy number is forgotten in the end-of-image tests.
LastPageOfAnyCopy(idx, copies, pages) == oob.idx_chunk + 1 = pages

\* Both tests of the code for "this is the last page of the last copy".
LastPage(idx, copies, pages) ==
  /\ idx + 1 = copies
  /\ oob.idx_chunk + 1 = pages

\* Mutant: the table is not consulted, a chunk met again is copied again.
TableIgnored(i) == {0}

\* page_valid_table[page_idx] of any page read; an index outside the table
\* reads a neighbouring byte of the stack, so either answer is possible.
TableValues(i) == IF i \in Slots THEN {page_valid_table[i]} ELSE {0, 1}

\* Mutant: the caller does not look at the sign of the result.
ReturnUnchecked(r) == ret' = r /\ pc' = "header"

Return(r) ==
  /\ ret' = r
  /\ pc' = IF r < 0 THEN "halt" ELSE "header"

\* The end of the loop body.
EndTest(idx, copies, pages) ==
  IF LastPage(idx, copies, pages)
  THEN Return(-2) /\ UNCHANGED blk_pge_addr
  ELSE blk_pge_addr' = blk_pge_addr + 1 /\ UNCHANGED <<pc, ret>>

\* Mutant: the count is compared with the last index instead of the size.
CopyPageShort(pages, copies, idx) ==
  /\ page_valid_table' = [page_valid_table EXCEPT ![oob.idx_chunk] = 1]
  /\ dram' = [dram EXCEPT ![oob.idx_chunk] = blk_pge_addr]
  /\ cnt_valid_page' = cnt_valid_page + 1
  /\ IF cnt_valid_page + 1 = pages - 1
     THEN Return(pages) /\ UNCHANGED blk_pge_addr
     ELSE EndTest(idx, copies, pages)

\* The copy of a page to its DRAM slot, common to both places that ask for it.
CopyPage(pages, copies, idx) ==
  /\ page_valid_table' = [page_valid_table EXCEPT ![oob.idx_chunk] = 1]
  /\ dram' = [dram EXCEPT ![oob.idx_chunk] = blk_pge_addr]
  /\ cnt_valid_page' = cnt_valid_page + 1
  /\ IF cnt_valid_page + 1 = pages
     THEN Return(pages) /\ UNCHANGED blk_pge_addr
     ELSE EndTest(idx, copies, pages)

\* The first U-Boot page: it tells how large the image is and which copy
\* the scan met first.
FirstUbootPage ==
  /\ Scanning
  /\ ~EccSkips
  /\ total_uboot_pages = 0
  /\ IsUboot
  /\ total_uboot_pages' = oob.total_chunk
  /\ total_uboot_copies' = oob.num_copy
  /\ uboot_idx' = oob.idx_copy
  /\ IF LastPage(oob.idx_copy, oob.num_copy, oob.total_chunk)
     THEN /\ Return(-1)
          /\ UNCHANGED <<blk_pge_addr, cnt_valid_page, page_valid_table, dram>>
     ELSE CopyPage(oob.total_chunk, oob.num_copy, oob.idx_copy)
  /\ UNCHANGED image

\* A U-Boot page whose chunk is still missing.
NextUbootPage ==
  /\ Scanning
  /\ ~EccSkips
  /\ total_uboot_pages # 0
  /\ 0 \in TableValues(oob.idx_chunk)
  /\ IsUboot
  /\ CopyPage(total_uboot_pages, total_uboot_copies, uboot_idx)
  /\ UNCHANGED <<image, header>>

\* Mutant: an unusable page makes the scan go on with the next block.
SkipBlock ==
  /\ Scanning
  /\ ~IsUboot
  /\ blk_pge_addr' = blk_pge_addr + PagesPerBlock
  /\ UNCHANGED <<image, pc, header, cnt_valid_page, page_valid_table, dram, ret>>

\* Mutant: "continue" in a loop that increments at its end.
SkipWithoutAdvance == Scanning /\ ~IsUboot /\ UNCHANGED vars

\* Every "continue": unreadable, or not U-Boot while a chunk is looked for.
SkipPage ==
  /\ Scanning
  /\ \/ EccSkips
     \/ total_uboot_pages = 0 /\ ~IsUboot
     \/ total_uboot_pages # 0 /\ 0 \in TableValues(oob.idx_chunk) /\ ~IsUboot
  /\ blk_pge_addr' = blk_pge_addr + 1
  /\ UNCHANGED <<image, pc, header, cnt_valid_page, page_valid_table, dram, ret>>

\* The chunk is already loaded: nothing is copied, whatever the signature,
\* but the end-of-image test is still made on the page's chunk index.
KnownChunk ==
  /\ Scanning
  /\ ~EccSkips
  /\ total_uboot_pages # 0
  /\ 1 \in TableValues(oob.idx_chunk)
  /\ EndTest(uboot_idx, total_uboot_copies, total_uboot_pages)
  /\ UNCHANGED <<image, header, cnt_valid_page, page_valid_table, dram>>

EndOfFlash ==
  /\ pc = "scan"
  /\ blk_pge_addr >= MaxBlkPge
  /\ Return(-3)
  /\ UNCHANGED <<image, blk_pge_addr, header, cnt_valid_page,
                 page_valid_table, dram>>

-----------------------------------------------------------------------------
\* uboot_bring_up

loaderVars == <<image, blk_pge_addr, header, cnt_valid_page, page_valid_table,
                dram, ret>>

\* The pages the loader copied decoded without an uncorrectable sector.
Intact == \A i \in 0 .. ret - 1 :
            i \in Slots /\ dram[i] # 0 => image.flash[dram[i]].bad = {}

\* The header decides how the image is unpacked; a damaged image may show
\* any header.
CheckHeader ==
  /\ pc = "header"
  /\ \E f \in IF Intact THEN {image.format} ELSE Formats :
       pc' = CASE f = "lzma" -> "inflate"
               [] f \in {"raw", "none"} -> "start"
               [] f = "other" -> "halt"
  /\ UNCHANGED loaderVars

\* lzma_decompress or lzma_chsp_jump; it can only fail on damaged input.
Inflate ==
  /\ pc = "inflate"
  /\ pc' \in {"start"} \cup (IF Intact THEN {} ELSE {"halt"})
  /\ UNCHANGED loaderVars

\* Move to the load address, flush the caches, jump to the entry point.
Start ==
  /\ pc = "start"
  /\ pc' = "jump"
  /\ UNCHANGED loaderVars

Done == pc \in {"jump", "halt"} /\ UNCHANGED vars

Next ==
  \/ FirstUbootPage
  \/ NextUbootPage
  \/ SkipPage
  \/ KnownChunk
  \/ EndOfFlash
  \/ CheckHeader
  \/ Inflate
  \/ Start
  \/ Done

Spec == Init /\ [][Next]_vars

\* The preloader is the only code running: it keeps taking steps.
FairSpec == Spec /\ WF_vars(Next)

-----------------------------------------------------------------------------
\* Properties

UbootAddrs(im) == {p \in PageAddrs : im.flash[p].sig = "uboot"}

\* All U-Boot pages belong to one image of n chunks in c copies, and number
\* their chunks below n: what a writer must guarantee.
ConsistentImage(im, n, c) ==
  \A p \in UbootAddrs(im) :
    /\ im.flash[p].total_chunk = n
    /\ im.flash[p].num_copy = c
    /\ im.flash[p].idx_copy < c
    /\ im.flash[p].idx_chunk < n

Consistent(im) ==
  \E n \in 1 .. TableSize, c \in 1 .. MaxBlkPge : ConsistentImage(im, n, c)

\* Every variable has the type the code gives it.
TypeOK ==
  /\ image \in Image
  /\ pc \in {"scan", "header", "inflate", "start", "jump", "halt"}
  /\ blk_pge_addr \in FirstPage .. MaxBlkPge
  /\ total_uboot_pages \in Nat
  /\ total_uboot_copies \in Nat
  /\ uboot_idx \in Nat
  /\ cnt_valid_page \in Nat
  /\ page_valid_table \in [Slots -> {0, 1}]
  /\ dram \in [Slots -> PageAddrs \cup {0}]
  /\ ret \in Int

\* ecc_uboot_to_dram counts copied pages and compares the count with the size
\* it read from the first page it met.  When it reports success, every chunk of
\* the image really is in its slot, from a page that carries that chunk number.
SuccessMeansComplete ==
  ret > 0 /\ Consistent(image) =>
    \A i \in 0 .. ret - 1 :
      /\ dram[i] # 0
      /\ dram[i] \in UbootAddrs(image)
      /\ image.flash[dram[i]].idx_chunk = i

ValidChunks == {i \in Slots : page_valid_table[i] = 1}

(***************************************************************************)
(* The inductive invariant behind SuccessMeansComplete.  The count equals  *)
(* the number of chunks marked valid, those chunks are below the size the  *)
(* first page announced, and each is backed by a page of that number; so   *)
(* when the count reaches the size nothing is missing.                     *)
(***************************************************************************)
SlotsBacked ==
  \A i \in ValidChunks :
    dram[i] \in UbootAddrs(image) /\ image.flash[dram[i]].idx_chunk = i

CountIsCardinality == cnt_valid_page = Cardinality(ValidChunks)

SizeKnown ==
  /\ total_uboot_pages <= TableSize
  /\ ValidChunks \subseteq 0 .. total_uboot_pages - 1
  /\ total_uboot_pages # 0 =>
       \A p \in UbootAddrs(image) : image.flash[p].total_chunk = total_uboot_pages

ResultIsSize == ret > 0 => ret = total_uboot_pages /\ cnt_valid_page = ret

LoaderInv ==
  /\ pc = "scan" => ret = 0
  /\ Consistent(image) =>
       SlotsBacked /\ CountIsCardinality /\ SizeKnown /\ ResultIsSize

\* The loader gives up only when the image cannot be put together: some chunk
\* has no page left in any copy.  uboot_idx is the copy met first and is not
\* updated later; the early returns -1 and -2 rely on it.  (An image of a single
\* page is refused whenever the page met is in the last copy.)
NoSpuriousFailure ==
  ret < 0 =>
    \A n \in 2 .. TableSize, c \in 1 .. MaxBlkPge :
      ConsistentImage(image, n, c) =>
        \E i \in 0 .. n - 1 :
          \A p \in UbootAddrs(image) : image.flash[p].idx_chunk # i

\* Control leaves the preloader only with a completely loaded image whose
\* header names a format it can unpack.
JumpsToLoadedImage ==
  pc = "jump" /\ Consistent(image) =>
    /\ ret > 0
    /\ cnt_valid_page = ret
    /\ Intact => image.format # "other"

\* The scan and the bring-up end: the board boots or stops in a halt loop.
Terminates == <>(pc \in {"jump", "halt"})

\* cnt_valid_page "count[s] how many chunks be loaded successfully"
\* (spi_nand_uboot_bringup.c:18): a page whose decode failed is not one of them.
LoadedPagesDecoded ==
  \A i \in Slots : page_valid_table[i] = 1 =>
    ~IS_ECC_DECODE_FAIL(page_read_ecc(image.flash[dram[i]]))

\* ih_size is the "Image Data Size" (include/soc.in.h:412): when a header is
\* there, the bytes uboot_bring_up takes behind it were all loaded.
HeaderSizeLoaded ==
  pc \in {"inflate", "start"} /\ Intact /\ image.format \in {"none", "lzma"} =>
    HdrSize + image.ih_size <= ret * PageSize

\* The loader as an abstract load: the chunks marked valid are the chunks that
\* arrived, and the sign of the result is the outcome.
LoadOutcome == IF ret = 0 THEN "busy" ELSE IF ret > 0 THEN "loaded" ELSE "failed"

Load == INSTANCE ImageLoad WITH
          MaxChunks <- TableSize,
          size <- total_uboot_pages,
          got <- ValidChunks,
          outcome <- LoadOutcome

\* Loading a consistent image is an implementation of the abstract load.
ImplementsLoad == Load!LoadSpec
=============================================================================
