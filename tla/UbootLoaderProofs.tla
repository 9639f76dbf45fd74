------------------------- MODULE UbootLoaderProofs -------------------------
(***************************************************************************)
(* Theorems about the U-Boot loader, for every flash geometry and every    *)
(* content of the flash.                                                   *)
(***************************************************************************)
EXTENDS UbootLoader, Bchenc, FiniteSetTheorems, TLAPS

USE FlashAssumption, GeometryAssumption, ImagesAssumption

\* What a page of an image's flash looks like.
LEMMA FlashTyped ==
  ASSUME NEW im \in Image, NEW p \in PageAddrs
  PROVE  /\ im.flash[p] \in Page
         /\ im.flash[p].idx_chunk \in Nat
         /\ im.flash[p].idx_copy \in Nat
         /\ im.flash[p].total_chunk \in Nat
         /\ im.flash[p].num_copy \in Nat
BY DEF Image, Page

\* The three results of CopyPage keep the loop variables typed.
LEMMA CopyPageTyped ==
  ASSUME TypeOK, Scanning, NEW pages \in Nat, NEW copies, NEW idx,
         CopyPage(pages, copies, idx)
  PROVE  /\ page_valid_table' \in [Slots -> {0, 1}]
         /\ dram' \in [Slots -> PageAddrs \cup {0}]
         /\ cnt_valid_page' \in Nat
         /\ blk_pge_addr' \in FirstPage .. MaxBlkPge
         /\ ret' \in Int
         /\ pc' \in {"scan", "header", "halt"}
<1>1. blk_pge_addr \in PageAddrs /\ FirstPage \in Nat
  BY DEF TypeOK, Scanning, PageAddrs, FirstPage
<1>2. /\ page_valid_table' \in [Slots -> {0, 1}]
      /\ dram' \in [Slots -> PageAddrs \cup {0}]
      /\ cnt_valid_page' \in Nat
  <2>1. /\ page_valid_table' = [page_valid_table EXCEPT ![oob.idx_chunk] = 1]
        /\ dram' = [dram EXCEPT ![oob.idx_chunk] = blk_pge_addr]
        /\ cnt_valid_page' = cnt_valid_page + 1
    BY DEF CopyPage
  <2>2. /\ page_valid_table \in [Slots -> {0, 1}]
        /\ dram \in [Slots -> PageAddrs \cup {0}]
        /\ cnt_valid_page \in Nat
    BY DEF TypeOK
  <2>3. page_valid_table' \in [Slots -> {0, 1}]
    BY <2>1, <2>2
  <2>4. dram' \in [Slots -> PageAddrs \cup {0}]
    BY <1>1, <2>1, <2>2
  <2>5. cnt_valid_page' \in Nat
    BY <2>1, <2>2
  <2> QED BY <2>3, <2>4, <2>5
<1>3. EndTest(idx, copies, pages) =>
        /\ blk_pge_addr' \in FirstPage .. MaxBlkPge
        /\ ret' \in Int
        /\ pc' \in {"scan", "header", "halt"}
  BY <1>1 DEF TypeOK, Scanning, EndTest, Return, PageAddrs
<1>4. Return(pages) /\ UNCHANGED blk_pge_addr =>
        /\ blk_pge_addr' \in FirstPage .. MaxBlkPge
        /\ ret' \in Int
        /\ pc' \in {"scan", "header", "halt"}
  BY DEF TypeOK, Return
<1> QED BY <1>2, <1>3, <1>4 DEF CopyPage

\* The variables of ecc_uboot_to_dram and uboot_bring_up keep their types:
\* counters stay natural numbers and the scan never leaves the device.
THEOREM TypeCorrect == Spec => []TypeOK
<1>1. Init => TypeOK
  BY DEF Init, TypeOK, FirstPage, Slots
<1>2. TypeOK /\ [Next]_vars => TypeOK'
  <2> SUFFICES ASSUME TypeOK, [Next]_vars PROVE TypeOK'
    OBVIOUS
  <2>0. Scanning => /\ blk_pge_addr \in PageAddrs
                    /\ oob.total_chunk \in Nat
                    /\ oob.num_copy \in Nat
                    /\ oob.idx_copy \in Nat
    BY FlashTyped DEF TypeOK, Scanning, PageAddrs, FirstPage, oob
  <2>1. CASE FirstUbootPage
    <3>1. CASE LastPage(oob.idx_copy, oob.num_copy, oob.total_chunk)
      BY <2>0, <2>1, <3>1 DEF FirstUbootPage, TypeOK, Return
    <3>2. CASE ~LastPage(oob.idx_copy, oob.num_copy, oob.total_chunk)
      <4>1. Scanning /\ CopyPage(oob.total_chunk, oob.num_copy, oob.idx_copy)
        BY <2>1, <3>2 DEF FirstUbootPage
      <4> QED BY <2>0, <2>1, <4>1, CopyPageTyped DEF FirstUbootPage, TypeOK
    <3> QED BY <3>1, <3>2
  <2>2. CASE NextUbootPage
    <3>1. Scanning /\ CopyPage(total_uboot_pages, total_uboot_copies, uboot_idx)
      BY <2>2 DEF NextUbootPage
    <3>2. total_uboot_pages \in Nat
      BY DEF TypeOK
    <3> QED BY <2>2, <3>1, <3>2, CopyPageTyped DEF NextUbootPage, TypeOK, header
  <2>3. CASE SkipPage
    BY <2>0, <2>3 DEF SkipPage, TypeOK, Scanning, PageAddrs, FirstPage, header
  <2>4. CASE KnownChunk
    BY <2>0, <2>4 DEF KnownChunk, TypeOK, Scanning, PageAddrs, FirstPage, header, EndTest, Return
  <2>5. CASE EndOfFlash
    BY <2>5 DEF EndOfFlash, TypeOK, header, Return
  <2>6. CASE CheckHeader
    <3>1. PICK f \in Formats : pc' = CASE f = "lzma" -> "inflate"
                                       [] f \in {"raw", "none"} -> "start"
                                       [] f = "other" -> "halt"
      BY <2>6 DEF CheckHeader, TypeOK, Image
    <3>2. pc' \in {"inflate", "start", "halt"}
      BY <3>1 DEF Formats
    <3> QED BY <2>6, <3>2 DEF CheckHeader, TypeOK, loaderVars, header
  <2>7. CASE Inflate
    BY <2>7 DEF Inflate, TypeOK, loaderVars, header
  <2>8. CASE Start
    BY <2>8 DEF Start, TypeOK, loaderVars, header
  <2>9. CASE UNCHANGED vars
    BY <2>9 DEF TypeOK, vars
  <2> QED
    BY <2>1, <2>2, <2>3, <2>4, <2>5, <2>6, <2>7, <2>8, <2>9 DEF Next, Done
<1> QED
  BY <1>1, <1>2, PTL DEF Spec

-----------------------------------------------------------------------------
\* The page under the scan, when it is a U-Boot page of a consistent image.
LEMMA UbootPageFacts ==
  ASSUME TypeOK, Scanning, IsUboot, Consistent(image)
  PROVE  /\ blk_pge_addr \in UbootAddrs(image)
         /\ oob.total_chunk \in 1 .. TableSize
         /\ oob.idx_chunk \in 0 .. oob.total_chunk - 1
         /\ oob.idx_chunk \in Slots
         /\ \A p \in UbootAddrs(image) : image.flash[p].total_chunk = oob.total_chunk
<1>1. blk_pge_addr \in PageAddrs /\ oob.idx_chunk \in Nat
  BY FlashTyped DEF TypeOK, Scanning, PageAddrs, FirstPage, oob
<1>2. blk_pge_addr \in UbootAddrs(image)
  BY <1>1 DEF UbootAddrs, IsUboot, oob
<1>3. PICK n \in 1 .. TableSize, c \in 1 .. MaxBlkPge : ConsistentImage(image, n, c)
  BY DEF Consistent
<1>4. oob.total_chunk = n /\ oob.idx_chunk < n
  BY <1>2, <1>3 DEF ConsistentImage, oob
<1>5. \A p \in UbootAddrs(image) : image.flash[p].total_chunk = oob.total_chunk
  BY <1>3, <1>4 DEF ConsistentImage
<1>6. oob.idx_chunk \in 0 .. oob.total_chunk - 1 /\ oob.idx_chunk \in Slots
  BY <1>1, <1>3, <1>4 DEF Slots
<1> QED BY <1>2, <1>3, <1>4, <1>5, <1>6

\* Marking a chunk adds exactly that chunk to the valid ones.
LEMMA MarkChunk ==
  ASSUME TypeOK, NEW k \in Slots, k \notin ValidChunks,
         page_valid_table' = [page_valid_table EXCEPT ![k] = 1]
  PROVE  /\ ValidChunks' = ValidChunks \cup {k}
         /\ Cardinality(ValidChunks') = Cardinality(ValidChunks) + 1
<1>1. ValidChunks' = ValidChunks \cup {k}
  BY DEF TypeOK, ValidChunks
<1>2. IsFiniteSet(Slots)
  BY FS_Interval DEF Slots
<1>3. IsFiniteSet(ValidChunks)
  BY <1>2, FS_Subset DEF ValidChunks
<1> QED BY <1>1, <1>3, FS_AddElement

\* Copying a U-Boot page whose chunk is missing keeps the invariant.
LEMMA CopyPageInv ==
  ASSUME TypeOK, LoaderInv, Consistent(image), Scanning, IsUboot,
         oob.idx_chunk \notin ValidChunks,
         NEW copies, NEW idx, CopyPage(oob.total_chunk, copies, idx),
         image' = image, total_uboot_pages' = oob.total_chunk,
         total_uboot_pages \in {0, oob.total_chunk}
  PROVE  LoaderInv'
<1> DEFINE k == oob.idx_chunk
<1>1. /\ blk_pge_addr \in UbootAddrs(image)
      /\ oob.total_chunk \in 1 .. TableSize
      /\ k \in 0 .. oob.total_chunk - 1
      /\ k \in Slots
      /\ \A p \in UbootAddrs(image) : image.flash[p].total_chunk = oob.total_chunk
  BY UbootPageFacts
<1>2. /\ page_valid_table' = [page_valid_table EXCEPT ![k] = 1]
      /\ dram' = [dram EXCEPT ![k] = blk_pge_addr]
      /\ cnt_valid_page' = cnt_valid_page + 1
  BY DEF CopyPage
<1>3. /\ ValidChunks' = ValidChunks \cup {k}
      /\ Cardinality(ValidChunks') = Cardinality(ValidChunks) + 1
  BY <1>1, <1>2, MarkChunk
<1>4. SlotsBacked /\ CountIsCardinality /\ SizeKnown /\ ret = 0
  BY DEF LoaderInv, Scanning
<1>5. SlotsBacked'
  <2> SUFFICES ASSUME NEW i \in ValidChunks'
               PROVE  /\ dram'[i] \in UbootAddrs(image)
                      /\ image.flash[dram'[i]].idx_chunk = i
    BY DEF SlotsBacked, UbootAddrs
  <2>1. dram \in [Slots -> PageAddrs \cup {0}]
    BY DEF TypeOK
  <2>2. CASE i = k
    BY <1>1, <1>2, <2>1, <2>2 DEF oob
  <2>3. CASE i # k
    <3>1. i \in ValidChunks /\ i \in Slots
      BY <1>3, <2>3 DEF ValidChunks
    <3>2. dram'[i] = dram[i]
      BY <1>2, <2>1, <2>3, <3>1
    <3> QED BY <1>4, <3>1, <3>2 DEF SlotsBacked
  <2> QED BY <2>2, <2>3
<1>6. CountIsCardinality'
  BY <1>2, <1>3, <1>4 DEF CountIsCardinality
<1>7. SizeKnown'
  <2>1. ValidChunks \subseteq 0 .. oob.total_chunk - 1
    <3>1. CASE total_uboot_pages = 0
      BY <1>1, <1>4, <3>1 DEF SizeKnown
    <3>2. CASE total_uboot_pages = oob.total_chunk
      BY <1>4, <3>2 DEF SizeKnown
    <3> QED BY <3>1, <3>2
  <2>2. ValidChunks' \subseteq 0 .. oob.total_chunk - 1
    BY <1>1, <1>3, <2>1
  <2> QED BY <1>1, <2>2 DEF SizeKnown, UbootAddrs
<1>8. ResultIsSize' /\ (pc' = "scan" => ret' = 0)
  <2>1. CASE cnt_valid_page + 1 = oob.total_chunk
    BY <1>1, <1>2, <2>1 DEF CopyPage, Return, ResultIsSize
  <2>2. CASE cnt_valid_page + 1 # oob.total_chunk
    BY <1>2, <1>4, <2>2 DEF CopyPage, EndTest, Return, ResultIsSize
  <2> QED BY <2>1, <2>2
<1> QED BY <1>5, <1>6, <1>7, <1>8 DEF LoaderInv

\* Steps that touch neither the table nor the slots nor the size keep it.
LEMMA ScanOnlyInv ==
  ASSUME LoaderInv, UNCHANGED <<image, total_uboot_pages, cnt_valid_page,
                                page_valid_table, dram>>,
         ret' = ret \/ ret' < 0, pc' = "scan" => ret' = 0, ret' \in Int
  PROVE  LoaderInv'
<1>1. Consistent(image)' = Consistent(image)
  BY DEF Consistent, ConsistentImage, UbootAddrs
<1>2. ValidChunks' = ValidChunks
  BY DEF ValidChunks
<1>3. ASSUME Consistent(image) 
      PROVE  SlotsBacked' /\ CountIsCardinality' /\ SizeKnown' /\ ResultIsSize'
  BY <1>2, <1>3 DEF LoaderInv, SlotsBacked, CountIsCardinality, SizeKnown,
                    ResultIsSize, UbootAddrs
<1> QED BY <1>1, <1>3 DEF LoaderInv

\* The invariant holds in every state the loader reaches.
THEOREM LoaderInvariant == Spec => []LoaderInv
<1>1. Init => LoaderInv
  <2> SUFFICES ASSUME Init PROVE LoaderInv
    OBVIOUS
  <2>1. ValidChunks = {}
    BY DEF Init, ValidChunks
  <2> QED BY <2>1, FS_EmptySet DEF Init, LoaderInv, SlotsBacked,
             CountIsCardinality, SizeKnown, ResultIsSize
<1>2. TypeOK /\ TypeOK' /\ LoaderInv /\ [Next]_vars => LoaderInv'
  <2> SUFFICES ASSUME TypeOK, TypeOK', LoaderInv, [Next]_vars PROVE LoaderInv'
    OBVIOUS
  <2>1. CASE FirstUbootPage
    <3>0. Consistent(image)' = Consistent(image)
      BY <2>1 DEF FirstUbootPage, Consistent, ConsistentImage, UbootAddrs
    <3>1. CASE ~Consistent(image)
      BY <2>1, <3>0, <3>1 DEF FirstUbootPage, CopyPage, EndTest, Return, LoaderInv,
                              Scanning
    <3>2. CASE Consistent(image) /\ LastPage(oob.idx_copy, oob.num_copy, oob.total_chunk)
      <4>1. SizeKnown'
        BY <2>1, <3>2, UbootPageFacts
           DEF FirstUbootPage, SizeKnown, LoaderInv, ValidChunks, UbootAddrs, TypeOK
      <4>2. SlotsBacked' /\ CountIsCardinality' /\ ResultIsSize' /\ pc' # "scan"
        BY <2>1, <3>2 DEF FirstUbootPage, LoaderInv, SlotsBacked, ValidChunks,
             UbootAddrs, CountIsCardinality, ResultIsSize, Return
      <4> QED BY <4>1, <4>2 DEF LoaderInv
    <3>3. CASE Consistent(image) /\ ~LastPage(oob.idx_copy, oob.num_copy, oob.total_chunk)
      <4>1. ValidChunks = {}
        BY <2>1, <3>3 DEF FirstUbootPage, LoaderInv, SizeKnown
      <4> QED BY <2>1, <3>3, <4>1, CopyPageInv DEF FirstUbootPage
    <3> QED BY <3>1, <3>2, <3>3
  <2>2. CASE NextUbootPage
    <3>0. Consistent(image)' = Consistent(image)
      BY <2>2 DEF NextUbootPage, Consistent, ConsistentImage, UbootAddrs
    <3>1. CASE ~Consistent(image)
      BY <2>2, <3>0, <3>1 DEF NextUbootPage, CopyPage, EndTest, Return, LoaderInv,
                              Scanning, TypeOK
    <3>2. CASE Consistent(image)
      <4>1. oob.idx_chunk \in Slots /\ blk_pge_addr \in UbootAddrs(image)
        BY <2>2, <3>2, UbootPageFacts DEF NextUbootPage
      <4>2. oob.idx_chunk \notin ValidChunks
        BY <2>2, <4>1 DEF NextUbootPage, TableValues, ValidChunks
      <4>3. total_uboot_pages = oob.total_chunk
        BY <2>2, <3>2, <4>1 DEF NextUbootPage, LoaderInv, SizeKnown, oob
      <4> QED BY <2>2, <3>2, <4>2, <4>3, CopyPageInv DEF NextUbootPage, header
    <3> QED BY <3>1, <3>2
  <2>3. CASE SkipPage
    BY <2>3, ScanOnlyInv DEF SkipPage, header, LoaderInv, TypeOK
  <2>4. CASE KnownChunk
    BY <2>4, ScanOnlyInv DEF KnownChunk, EndTest, Return, header, LoaderInv, TypeOK
  <2>5. CASE EndOfFlash
    BY <2>5, ScanOnlyInv DEF EndOfFlash, Return, header, TypeOK
  <2>6. CASE CheckHeader \/ Inflate \/ Start
    <3>1. pc' # "scan" /\ UNCHANGED loaderVars
      <4>1. CASE CheckHeader
        <5>1. PICK f \in Formats : pc' = CASE f = "lzma" -> "inflate"
                                           [] f \in {"raw", "none"} -> "start"
                                           [] f = "other" -> "halt"
          BY <4>1 DEF CheckHeader, TypeOK, Image
        <5> QED BY <4>1, <5>1 DEF CheckHeader, Formats
      <4> QED BY <2>6, <4>1 DEF Inflate, Start
    <3> QED BY <3>1, ScanOnlyInv DEF loaderVars, header, TypeOK
  <2>7. CASE UNCHANGED vars
    BY <2>7, ScanOnlyInv DEF vars, LoaderInv, TypeOK
  <2> QED
    BY <2>1, <2>2, <2>3, <2>4, <2>5, <2>6, <2>7 DEF Next, Done
<1> QED
  BY <1>1, <1>2, TypeCorrect, PTL DEF Spec

\* A set of n numbers below n is all of them.
LEMMA Pigeonhole ==
  ASSUME NEW n \in Nat, NEW S, S \subseteq 0 .. n - 1, Cardinality(S) = n
  PROVE  S = 0 .. n - 1
<1>1. IsFiniteSet(0 .. n - 1) /\ Cardinality(0 .. n - 1) = n
  <2>1. /\ IsFiniteSet(0 .. n - 1)
        /\ Cardinality(0 .. n - 1) = IF 0 > n - 1 THEN 0 ELSE (n - 1) - 0 + 1
    <3>1. 0 \in Int /\ n - 1 \in Int
      OBVIOUS
    <3> QED BY ONLY <3>1, FS_Interval
  <2> QED BY <2>1
<1> QED BY <1>1, FS_Subset

\* When ecc_uboot_to_dram returns success, every chunk of the image is in its
\* DRAM slot, whatever pages were unreadable and whichever copies they came from.
THEOREM CompleteOnSuccess == Spec => []SuccessMeansComplete
<1>1. TypeOK /\ LoaderInv => SuccessMeansComplete
  <2> SUFFICES ASSUME TypeOK, LoaderInv, Consistent(image), ret > 0, NEW i \in 0 .. ret - 1
               PROVE  /\ dram[i] # 0
                      /\ dram[i] \in UbootAddrs(image)
                      /\ image.flash[dram[i]].idx_chunk = i
    BY DEF SuccessMeansComplete
  <2>1. SlotsBacked /\ CountIsCardinality /\ SizeKnown /\ ResultIsSize
    BY DEF LoaderInv
  <2>2. /\ ValidChunks \subseteq 0 .. ret - 1
        /\ Cardinality(ValidChunks) = ret
        /\ ret \in Nat
    BY <2>1 DEF CountIsCardinality, SizeKnown, ResultIsSize, TypeOK
  <2>3. i \in ValidChunks
    BY <2>2, Pigeonhole
  <2>4. dram[i] \in UbootAddrs(image) /\ image.flash[dram[i]].idx_chunk = i
    BY <2>1, <2>3 DEF SlotsBacked
  <2>5. dram[i] # 0
    BY <2>4 DEF UbootAddrs, PageAddrs, FirstPage
  <2> QED BY <2>4, <2>5
<1> QED
  BY <1>1, TypeCorrect, LoaderInvariant, PTL

-----------------------------------------------------------------------------
\* The set of valid chunks has all of them exactly when the count is the size.
LEMMA FullCount ==
  ASSUME NEW n \in Nat, NEW S, S \subseteq 0 .. n - 1
  PROVE  Cardinality(S) = n <=> S = 0 .. n - 1
<1>1. Cardinality(0 .. n - 1) = n
  <2>1. Cardinality(0 .. n - 1) = IF 0 > n - 1 THEN 0 ELSE (n - 1) - 0 + 1
    <3>1. 0 \in Int /\ n - 1 \in Int
      OBVIOUS
    <3> QED BY ONLY <3>1, FS_Interval
  <2> QED BY <2>1
<1> QED BY <1>1, Pigeonhole

\* Copying a missing chunk is the arrival of that chunk in the abstract load.
LEMMA CopyPageIsGet ==
  ASSUME TypeOK, LoaderInv, LoaderInv', Consistent(image), Scanning, IsUboot,
         oob.idx_chunk \notin ValidChunks,
         NEW copies, NEW idx, CopyPage(oob.total_chunk, copies, idx),
         image' = image, total_uboot_pages' = oob.total_chunk,
         total_uboot_pages \in {0, oob.total_chunk}
  PROVE  Load!Get(oob.idx_chunk) /\ oob.idx_chunk \in 0 .. TableSize - 1
<1> DEFINE k == oob.idx_chunk
           n == oob.total_chunk
<1>1. n \in 1 .. TableSize /\ k \in 0 .. n - 1 /\ k \in Slots
  BY UbootPageFacts
<1>2. ValidChunks' = ValidChunks \cup {k}
  BY <1>1, MarkChunk DEF CopyPage
<1>3. ret = 0 /\ CountIsCardinality' /\ SizeKnown'
  <2>1. Consistent(image)' = Consistent(image)
    BY DEF Consistent, ConsistentImage, UbootAddrs
  <2> QED BY <2>1 DEF LoaderInv, Scanning
<1>4. (cnt_valid_page' = n) <=> (ValidChunks' = 0 .. n - 1)
  <2>1. ValidChunks' \subseteq 0 .. n - 1
    BY <1>3 DEF SizeKnown
  <2>2. Cardinality(ValidChunks') = n <=> ValidChunks' = 0 .. n - 1
    <3> DEFINE V == ValidChunks'
    <3>1. n \in Nat /\ V \subseteq 0 .. n - 1
      BY <1>1, <2>1
    <3> HIDE DEF V, n
    <3>2. Cardinality(V) = n <=> V = 0 .. n - 1
      BY <3>1, FullCount
    <3> QED BY <3>2 DEF V
  <2> QED BY <1>3, <2>2 DEF CountIsCardinality
<1>5. cnt_valid_page' = cnt_valid_page + 1
  BY DEF CopyPage
<1>6. IF ValidChunks' = 0 .. n - 1 THEN ret' = n ELSE ret' \in {0, -2}
  BY <1>3, <1>4, <1>5 DEF CopyPage, EndTest, Return
<1>7. /\ LoadOutcome = "busy"
      /\ LoadOutcome' \in IF ValidChunks' = 0 .. n - 1 THEN {"loaded"} ELSE {"busy", "failed"}
  BY <1>1, <1>3, <1>6 DEF LoadOutcome
<1>8. Load!Get(k)
  BY <1>1, <1>2, <1>7 DEF Load!Get
<1> QED BY <1>1, <1>8 DEF Slots

\* Giving up maps to giving up, any other step outside the copies to stuttering.
LEMMA OtherIsGiveUpOrStutter ==
  ASSUME TypeOK, TypeOK', LoaderInv, page_valid_table' = page_valid_table,
         \/ total_uboot_pages' = total_uboot_pages
         \/ /\ pc = "scan"
            /\ total_uboot_pages = 0
            /\ total_uboot_pages' \in 0 .. TableSize
            /\ ret' < 0,
         ret' = ret \/ (pc = "scan" /\ ret' < 0)
  PROVE  [Load!LoadNext]_Load!loadVars
<1>1. ValidChunks' = ValidChunks
  BY DEF ValidChunks
<1>2. CASE ret' = ret /\ total_uboot_pages' = total_uboot_pages
  BY <1>1, <1>2 DEF Load!loadVars, LoadOutcome
<1>3. CASE ret' < 0 /\ pc = "scan"
  <2>1. LoadOutcome = "busy" /\ LoadOutcome' = "failed"
    BY <1>3 DEF LoaderInv, TypeOK, LoadOutcome
  <2>2. Load!GiveUp
    BY <1>1, <2>1 DEF Load!GiveUp
  <2> QED BY <2>2 DEF Load!LoadNext
<1> QED BY <1>2, <1>3

\* Loading a consistent image implements the abstract load: no chunk arrives
\* twice and success is reported exactly with the last missing chunk.
THEOREM LoaderRefinesLoad == Spec /\ Consistent(image) => ImplementsLoad
<1>1. Init => Load!LoadInit
  BY DEF Init, Load!LoadInit, ValidChunks, LoadOutcome
<1>2. TypeOK /\ TypeOK' /\ LoaderInv /\ LoaderInv' /\ Consistent(image) /\ [Next]_vars
        => [Load!LoadNext]_Load!loadVars
  <2> SUFFICES ASSUME TypeOK, TypeOK', LoaderInv, LoaderInv', Consistent(image), [Next]_vars
               PROVE  [Load!LoadNext]_Load!loadVars
    OBVIOUS
  <2>1. CASE FirstUbootPage
    <3>1. CASE LastPage(oob.idx_copy, oob.num_copy, oob.total_chunk)
      <4>1. oob.total_chunk \in 1 .. TableSize
        BY <2>1, UbootPageFacts DEF FirstUbootPage
      <4>2. ret' = -1 /\ pc = "scan" /\ page_valid_table' = page_valid_table
        BY <2>1, <3>1 DEF FirstUbootPage, Return, Scanning
      <4> QED BY <2>1, <4>1, <4>2, OtherIsGiveUpOrStutter DEF FirstUbootPage
    <3>2. CASE ~LastPage(oob.idx_copy, oob.num_copy, oob.total_chunk)
      <4>1. ValidChunks = {}
        BY <2>1 DEF FirstUbootPage, LoaderInv, SizeKnown
      <4>2. Load!Get(oob.idx_chunk) /\ oob.idx_chunk \in 0 .. TableSize - 1
        BY <2>1, <3>2, <4>1, CopyPageIsGet DEF FirstUbootPage
      <4> QED BY <4>2 DEF Load!LoadNext
    <3> QED BY <3>1, <3>2
  <2>2. CASE NextUbootPage
    <3>1. oob.idx_chunk \in Slots /\ blk_pge_addr \in UbootAddrs(image)
      BY <2>2, UbootPageFacts DEF NextUbootPage
    <3>2. oob.idx_chunk \notin ValidChunks
      BY <2>2, <3>1 DEF NextUbootPage, TableValues, ValidChunks
    <3>3. total_uboot_pages = oob.total_chunk
      BY <2>2, <3>1 DEF NextUbootPage, LoaderInv, SizeKnown, oob
    <3>4. Load!Get(oob.idx_chunk) /\ oob.idx_chunk \in 0 .. TableSize - 1
      BY <2>2, <3>2, <3>3, CopyPageIsGet DEF NextUbootPage, header
    <3> QED BY <3>4 DEF Load!LoadNext
  <2>3. CASE SkipPage
    BY <2>3, OtherIsGiveUpOrStutter DEF SkipPage, header
  <2>4. CASE KnownChunk
    BY <2>4, OtherIsGiveUpOrStutter DEF KnownChunk, Scanning, EndTest, Return, header
  <2>5. CASE EndOfFlash
    BY <2>5, OtherIsGiveUpOrStutter DEF EndOfFlash, Return, header
  <2>6. CASE CheckHeader \/ Inflate \/ Start
    BY <2>6, OtherIsGiveUpOrStutter
       DEF CheckHeader, Inflate, Start, loaderVars, header
  <2>7. CASE UNCHANGED vars
    BY <2>7, OtherIsGiveUpOrStutter DEF vars
  <2> QED
    BY <2>1, <2>2, <2>3, <2>4, <2>5, <2>6, <2>7 DEF Next, Done
<1>3. Consistent(image) /\ [Next]_vars => Consistent(image)'
  <2>1. [Next]_vars => image' = image
    BY DEF Next, vars, FirstUbootPage, NextUbootPage, SkipPage, KnownChunk, EndOfFlash,
           CheckHeader, Inflate, Start, Done, loaderVars
  <2> QED BY <2>1 DEF Consistent, ConsistentImage, UbootAddrs
<1> QED
  BY <1>1, <1>2, <1>3, TypeCorrect, LoaderInvariant, PTL
     DEF Spec, ImplementsLoad, Load!LoadSpec

-----------------------------------------------------------------------------
(***************************************************************************)
(* Why the loader does not give up too early.                              *)
(***************************************************************************)

\* bchenc writes copy after copy and each copy chunk after chunk, so that the
\* U-Boot pages a scan meets are ordered by copy and chunk.
WriterOrder(im) ==
  \A p, q \in UbootAddrs(im) : p < q =>
    \/ im.flash[p].idx_copy < im.flash[q].idx_copy
    \/ /\ im.flash[p].idx_copy = im.flash[q].idx_copy
       /\ im.flash[p].idx_chunk < im.flash[q].idx_chunk

Laid(im) == Consistent(im) /\ WriterOrder(im)

(***************************************************************************)
(* While the scan runs: every U-Boot page behind it has its chunk marked,  *)
(* the slots were filled from pages behind it, the image is not complete,  *)
(* and the copy number kept is the one of the first U-Boot page there is.  *)
(***************************************************************************)
Collected == \A p \in UbootAddrs(image) :
               p < blk_pge_addr => total_uboot_pages # 0 /\ image.flash[p].idx_chunk \in ValidChunks

FromBehind == \A i \in ValidChunks : dram[i] < blk_pge_addr

FirstMet ==
  total_uboot_pages # 0 =>
    /\ cnt_valid_page # total_uboot_pages
    /\ \E f \in UbootAddrs(image) :
         /\ uboot_idx = image.flash[f].idx_copy
         /\ total_uboot_copies = image.flash[f].num_copy
         /\ \A p \in UbootAddrs(image) : f <= p

ScanInv == pc = "scan" => Collected /\ FromBehind /\ FirstMet

GiveUpInv == Laid(image) => ScanInv /\ NoSpuriousFailure

\* A U-Boot page of the flash has numbers in its out-of-band fields.
LEMMA UbootPageTyped ==
  ASSUME NEW im \in Image, NEW p \in UbootAddrs(im)
  PROVE  /\ p \in PageAddrs /\ p \in Int
         /\ im.flash[p].idx_chunk \in Nat
         /\ im.flash[p].idx_copy \in Nat
         /\ im.flash[p].total_chunk \in Nat
         /\ im.flash[p].num_copy \in Nat
<1>1. p \in PageAddrs /\ p \in Int
  BY DEF UbootAddrs, PageAddrs, FirstPage
<1> QED BY <1>1, FlashTyped

\* Behind the last page of the last copy there is no U-Boot page.
LEMMA NothingBehind ==
  ASSUME NEW im \in Image, WriterOrder(im), NEW n \in Nat, NEW c \in Nat,
         ConsistentImage(im, n, c),
         NEW f \in UbootAddrs(im), NEW q \in UbootAddrs(im), NEW p \in UbootAddrs(im),
         f <= q, im.flash[f].idx_copy + 1 = c, im.flash[q].idx_chunk + 1 = n
  PROVE  p <= q
<1> SUFFICES ASSUME q < p PROVE FALSE
  BY UbootPageTyped
<1>1. im.flash[p].idx_copy < c /\ im.flash[p].idx_chunk < n
  BY DEF ConsistentImage
<1>2. im.flash[f].idx_copy <= im.flash[q].idx_copy
  <2>1. CASE f = q
    BY <2>1, UbootPageTyped
  <2>2. CASE f < q
    BY <2>2, UbootPageTyped DEF WriterOrder
  <2> QED BY <2>1, <2>2, UbootPageTyped
<1>3. \/ im.flash[q].idx_copy < im.flash[p].idx_copy
      \/ /\ im.flash[q].idx_copy = im.flash[p].idx_copy
         /\ im.flash[q].idx_chunk < im.flash[p].idx_chunk
  BY DEF WriterOrder
<1>4. /\ im.flash[p].idx_copy \in Nat /\ im.flash[p].idx_chunk \in Nat
      /\ im.flash[q].idx_copy \in Nat /\ im.flash[q].idx_chunk \in Nat
      /\ im.flash[f].idx_copy \in Nat
  BY UbootPageTyped
<1> QED BY <1>1, <1>2, <1>3, <1>4

\* If all U-Boot pages have their chunk marked and the count is not the size,
\* some chunk has no page.
LEMMA SomeChunkMissing ==
  ASSUME NEW im, NEW n \in Nat \ {0}, NEW V, V \subseteq 0 .. n - 1, Cardinality(V) # n,
         \A p \in UbootAddrs(im) : im.flash[p].idx_chunk \in V
  PROVE  \E i \in 0 .. n - 1 : \A p \in UbootAddrs(im) : im.flash[p].idx_chunk # i
<1>1. V # 0 .. n - 1
  BY FullCount
<1>2. PICK i \in 0 .. n - 1 : i \notin V
  BY <1>1
<1> QED BY <1>2

\* Copying a page keeps the scan's invariant, and its give-up is justified.
LEMMA CopyPageGiveUp ==
  ASSUME TypeOK, TypeOK', LoaderInv, LoaderInv', Laid(image), Scanning, IsUboot,
         oob.idx_chunk \notin ValidChunks, Collected, FromBehind,
         NEW f \in UbootAddrs(image), \A p \in UbootAddrs(image) : f <= p,
         CopyPage(oob.total_chunk, image.flash[f].num_copy, image.flash[f].idx_copy),
         image' = image, total_uboot_pages' = oob.total_chunk,
         total_uboot_copies' = image.flash[f].num_copy,
         uboot_idx' = image.flash[f].idx_copy
  PROVE  GiveUpInv'
<1> DEFINE k == oob.idx_chunk
           n == oob.total_chunk
<1>1. /\ blk_pge_addr \in UbootAddrs(image)
      /\ n \in 1 .. TableSize
      /\ k \in 0 .. n - 1
      /\ k \in Slots
  BY UbootPageFacts DEF Laid
<1>2. /\ page_valid_table' = [page_valid_table EXCEPT ![k] = 1]
      /\ dram' = [dram EXCEPT ![k] = blk_pge_addr]
      /\ cnt_valid_page' = cnt_valid_page + 1
  BY DEF CopyPage
<1>3. ValidChunks' = ValidChunks \cup {k}
  BY <1>1, <1>2, MarkChunk
<1>4. CountIsCardinality' /\ SizeKnown'
  <2>1. Consistent(image)'
    BY DEF Laid, Consistent, ConsistentImage, UbootAddrs
  <2> QED BY <2>1 DEF LoaderInv
<1>5. /\ cnt_valid_page' = Cardinality(ValidChunks')
      /\ ValidChunks' \subseteq 0 .. n - 1
  BY <1>4 DEF CountIsCardinality, SizeKnown
<1>6. UbootAddrs(image)' = UbootAddrs(image)
  BY DEF UbootAddrs
<1>7. pc = "scan" /\ ret = 0 /\ blk_pge_addr \in Int
  BY DEF Scanning, LoaderInv, TypeOK, FirstPage
<1>8. \A p \in UbootAddrs(image) : p <= blk_pge_addr => image.flash[p].idx_chunk \in ValidChunks'
  <2> SUFFICES ASSUME NEW p \in UbootAddrs(image), p <= blk_pge_addr
               PROVE  image.flash[p].idx_chunk \in ValidChunks'
    OBVIOUS
  <2>1. CASE p = blk_pge_addr
    BY <1>3, <2>1 DEF oob
  <2>2. CASE p # blk_pge_addr
    <3>1. p < blk_pge_addr
      BY <1>7, <2>2, UbootPageTyped DEF TypeOK
    <3> QED BY <1>3, <3>1 DEF Collected
  <2> QED BY <2>1, <2>2
<1>9. CASE cnt_valid_page + 1 = n
  <2>1. ret' = n /\ pc' = "header"
    BY <1>1, <1>9 DEF CopyPage, Return
  <2> QED BY <1>1, <2>1 DEF GiveUpInv, ScanInv, NoSpuriousFailure
<1>10. CASE cnt_valid_page + 1 # n /\ LastPage(image.flash[f].idx_copy, image.flash[f].num_copy, n)
  <2>1. ret' = -2 /\ pc' = "halt"
    BY <1>10 DEF CopyPage, EndTest, Return
  <2>2. NoSpuriousFailure'
    <3> SUFFICES ASSUME NEW m \in 2 .. TableSize, NEW c \in 1 .. MaxBlkPge,
                        ConsistentImage(image, m, c)
                 PROVE  \E i \in 0 .. m - 1 :
                          \A p \in UbootAddrs(image) : image.flash[p].idx_chunk # i
      BY DEF NoSpuriousFailure, ConsistentImage, UbootAddrs
    <3>1. m = n
      BY <1>1 DEF ConsistentImage, oob
    <3>2. /\ image.flash[f].idx_copy + 1 = image.flash[f].num_copy
          /\ image.flash[blk_pge_addr].idx_chunk + 1 = m
          /\ f <= blk_pge_addr
      BY <1>1, <1>10, <3>1 DEF LastPage, oob
    <3>3. Cardinality(ValidChunks') # m /\ ValidChunks' \subseteq 0 .. m - 1
      BY <1>2, <1>5, <1>10, <3>1
    <3>4. image \in Image /\ WriterOrder(image) /\ m \in Nat \ {0} /\ c \in Nat
      BY DEF TypeOK, Laid
    <3> DEFINE V == ValidChunks'
               q == blk_pge_addr
    <3>5. /\ V \subseteq 0 .. m - 1 /\ Cardinality(V) # m
          /\ q \in UbootAddrs(image) /\ f <= q /\ image.flash[q].idx_chunk + 1 = m
          /\ \A p \in UbootAddrs(image) : p <= q => image.flash[p].idx_chunk \in V
      BY <1>1, <1>8, <3>2, <3>3
    <3> HIDE DEF V, q
    <3>6. image.flash[f].idx_copy + 1 = c
      BY <3>2 DEF ConsistentImage
    <3>7. \A p \in UbootAddrs(image) : p <= q
      BY <3>4, <3>5, <3>6, NothingBehind
    <3>8. \A p \in UbootAddrs(image) : image.flash[p].idx_chunk \in V
      BY <3>5, <3>7
    <3> QED BY <3>4, <3>5, <3>8, SomeChunkMissing
  <2> QED BY <2>1, <2>2 DEF GiveUpInv, ScanInv
<1>11. CASE cnt_valid_page + 1 # n /\ ~LastPage(image.flash[f].idx_copy, image.flash[f].num_copy, n)
  <2>1. ret' = 0 /\ blk_pge_addr' = blk_pge_addr + 1
    BY <1>7, <1>11 DEF CopyPage, EndTest
  <2>2. Collected'
    <3> SUFFICES ASSUME NEW p \in UbootAddrs(image), p < blk_pge_addr + 1
                 PROVE  n # 0 /\ image.flash[p].idx_chunk \in ValidChunks'
      BY <1>6, <2>1 DEF Collected
    <3>1. p <= blk_pge_addr
      BY <1>7, UbootPageTyped DEF TypeOK
    <3> QED BY <1>1, <1>8, <3>1
  <2>3. FromBehind'
    <3> SUFFICES ASSUME NEW i \in ValidChunks'
                 PROVE  dram'[i] < blk_pge_addr + 1
      BY <2>1 DEF FromBehind
    <3>1. dram \in [Slots -> PageAddrs \cup {0}]
      BY DEF TypeOK
    <3>2. CASE i = k
      BY <1>1, <1>2, <1>7, <3>1, <3>2
    <3>3. CASE i # k
      <4>1. i \in ValidChunks /\ i \in Slots
        BY <1>3, <3>3 DEF ValidChunks
      <4>2. dram'[i] = dram[i] /\ dram[i] \in Int
        BY <1>2, <3>1, <3>3, <4>1 DEF PageAddrs, FirstPage
      <4> QED BY <1>7, <4>1, <4>2 DEF FromBehind
    <3> QED BY <3>2, <3>3
  <2>4. FirstMet'
    BY <1>2, <1>6, <1>11 DEF FirstMet
  <2> QED BY <2>1, <2>2, <2>3, <2>4 DEF GiveUpInv, ScanInv, NoSpuriousFailure
<1> QED BY <1>9, <1>10, <1>11

\* The first U-Boot page is refused only if it is the only one there is.
LEMMA FirstPageGiveUp ==
  ASSUME TypeOK, TypeOK', LoaderInv, LoaderInv', Laid(image), ScanInv, FirstUbootPage
  PROVE  GiveUpInv'
<1>1. /\ Scanning /\ IsUboot /\ total_uboot_pages = 0 /\ image' = image
      /\ Collected /\ FromBehind
  BY DEF FirstUbootPage, ScanInv, Scanning
<1>2. /\ blk_pge_addr \in UbootAddrs(image)
      /\ oob.total_chunk \in 1 .. TableSize
  BY <1>1, UbootPageFacts DEF Laid
<1>3. \A p \in UbootAddrs(image) : blk_pge_addr <= p
  BY <1>1, <1>2, UbootPageTyped DEF Collected, TypeOK
<1>4. CASE LastPage(oob.idx_copy, oob.num_copy, oob.total_chunk)
  <2>1. ret' = -1 /\ pc' = "halt"
    BY <1>4 DEF FirstUbootPage, Return
  <2>2. NoSpuriousFailure'
    <3> SUFFICES ASSUME NEW m \in 2 .. TableSize, NEW c \in 1 .. MaxBlkPge,
                        ConsistentImage(image, m, c)
                 PROVE  \E i \in 0 .. m - 1 :
                          \A p \in UbootAddrs(image) : image.flash[p].idx_chunk # i
      BY <1>1 DEF NoSpuriousFailure, ConsistentImage, UbootAddrs
    <3> DEFINE q == blk_pge_addr
    <3>1. /\ q \in UbootAddrs(image)
          /\ \A p \in UbootAddrs(image) : q <= p
          /\ image.flash[q].idx_copy + 1 = image.flash[q].num_copy
          /\ image.flash[q].idx_chunk + 1 = image.flash[q].total_chunk
      BY <1>2, <1>3, <1>4 DEF LastPage, oob
    <3> HIDE DEF q
    <3>2. image.flash[q].idx_copy + 1 = c /\ image.flash[q].idx_chunk + 1 = m
      BY <3>1 DEF ConsistentImage
    <3>3. image \in Image /\ WriterOrder(image) /\ m \in Nat /\ c \in Nat /\ q <= q
      BY <3>1, UbootPageTyped DEF TypeOK, Laid
    <3>4. \A p \in UbootAddrs(image) : p <= q
      BY <3>1, <3>2, <3>3, NothingBehind
    <3>5. \A p \in UbootAddrs(image) : p = q
      BY <3>1, <3>3, <3>4, UbootPageTyped
    <3>6. image.flash[q].idx_chunk # 0
      BY <3>2
    <3> QED BY <3>5, <3>6
  <2> QED BY <2>1, <2>2 DEF GiveUpInv, ScanInv
<1>5. CASE ~LastPage(oob.idx_copy, oob.num_copy, oob.total_chunk)
  <2>1. ValidChunks = {}
    BY <1>1 DEF LoaderInv, SizeKnown, Laid
  <2>2. /\ CopyPage(oob.total_chunk, image.flash[blk_pge_addr].num_copy,
                    image.flash[blk_pge_addr].idx_copy)
        /\ total_uboot_pages' = oob.total_chunk
        /\ total_uboot_copies' = image.flash[blk_pge_addr].num_copy
        /\ uboot_idx' = image.flash[blk_pge_addr].idx_copy
    BY <1>5 DEF FirstUbootPage, oob
  <2> QED BY <1>1, <1>2, <1>3, <2>1, <2>2, CopyPageGiveUp
<1> QED BY <1>4, <1>5

\* A further U-Boot page is compared with the copy number of the first one.
LEMMA NextPageGiveUp ==
  ASSUME TypeOK, TypeOK', LoaderInv, LoaderInv', Laid(image), ScanInv, NextUbootPage
  PROVE  GiveUpInv'
<1>1. /\ Scanning /\ IsUboot /\ total_uboot_pages # 0 /\ image' = image
      /\ Collected /\ FromBehind /\ FirstMet
  BY DEF NextUbootPage, ScanInv, Scanning
<1>2. oob.idx_chunk \in Slots /\ blk_pge_addr \in UbootAddrs(image)
  BY <1>1, UbootPageFacts DEF Laid
<1>3. oob.idx_chunk \notin ValidChunks
  BY <1>2 DEF NextUbootPage, TableValues, ValidChunks
<1>4. total_uboot_pages = oob.total_chunk
  BY <1>1, <1>2 DEF LoaderInv, SizeKnown, Laid, oob
<1>5. PICK f \in UbootAddrs(image) :
        /\ uboot_idx = image.flash[f].idx_copy
        /\ total_uboot_copies = image.flash[f].num_copy
        /\ \A p \in UbootAddrs(image) : f <= p
  BY <1>1 DEF FirstMet
<1>6. /\ CopyPage(oob.total_chunk, image.flash[f].num_copy, image.flash[f].idx_copy)
      /\ total_uboot_pages' = oob.total_chunk
      /\ total_uboot_copies' = image.flash[f].num_copy
      /\ uboot_idx' = image.flash[f].idx_copy
  BY <1>4, <1>5 DEF NextUbootPage, header
<1> QED BY <1>1, <1>3, <1>5, <1>6, CopyPageGiveUp

\* The scan moves past a page that is not U-Boot or whose chunk is marked.
LEMMA PassGiveUp ==
  ASSUME TypeOK, LoaderInv, Scanning, ScanInv,
         blk_pge_addr \in UbootAddrs(image) =>
           total_uboot_pages # 0 /\ oob.idx_chunk \in ValidChunks,
         blk_pge_addr' = blk_pge_addr + 1,
         UNCHANGED <<image, pc, header, cnt_valid_page, page_valid_table, dram, ret>>
  PROVE  GiveUpInv'
<1>1. /\ ret' = 0 /\ blk_pge_addr \in Int /\ UbootAddrs(image)' = UbootAddrs(image)
      /\ ValidChunks' = ValidChunks /\ Collected /\ FromBehind /\ FirstMet
  BY DEF Scanning, LoaderInv, TypeOK, FirstPage, ScanInv, UbootAddrs, ValidChunks
<1>2. Collected'
  <2> SUFFICES ASSUME NEW p \in UbootAddrs(image), p < blk_pge_addr + 1
               PROVE  total_uboot_pages # 0 /\ image.flash[p].idx_chunk \in ValidChunks
    BY <1>1 DEF Collected, header
  <2>1. CASE p = blk_pge_addr
    BY <2>1 DEF oob
  <2>2. CASE p # blk_pge_addr
    <3>1. p < blk_pge_addr
      BY <1>1, <2>2, UbootPageTyped DEF TypeOK
    <3> QED BY <1>1, <3>1 DEF Collected
  <2> QED BY <2>1, <2>2
<1>3. FromBehind'
  <2> SUFFICES ASSUME NEW i \in ValidChunks PROVE dram[i] < blk_pge_addr + 1
    BY <1>1 DEF FromBehind
  <2>1. dram[i] \in Int /\ dram[i] < blk_pge_addr
    BY <1>1 DEF FromBehind, TypeOK, ValidChunks, PageAddrs, FirstPage
  <2> QED BY <1>1, <2>1
<1>4. FirstMet'
  BY <1>1 DEF FirstMet, header
<1> QED BY <1>1, <1>2, <1>3, <1>4 DEF GiveUpInv, ScanInv, NoSpuriousFailure

\* A known chunk ends the scan only when its number is the last one: then the
\* last page of the last copy has been loaded already.
LEMMA KnownChunkGiveUp ==
  ASSUME TypeOK, LoaderInv, Laid(image), ScanInv, KnownChunk
  PROVE  GiveUpInv'
<1>1. /\ Scanning /\ total_uboot_pages # 0 /\ image' = image
      /\ Collected /\ FromBehind /\ FirstMet
      /\ SlotsBacked /\ CountIsCardinality /\ SizeKnown
  BY DEF KnownChunk, ScanInv, Scanning, LoaderInv, Laid
<1>2. oob.idx_chunk \in Slots => oob.idx_chunk \in ValidChunks
  BY DEF KnownChunk, TableValues, ValidChunks
<1>3. CASE LastPage(uboot_idx, total_uboot_copies, total_uboot_pages)
  <2>1. ret' = -2 /\ pc' = "halt"
    BY <1>3 DEF KnownChunk, EndTest, Return
  <2>2. NoSpuriousFailure'
    <3> SUFFICES ASSUME NEW m \in 2 .. TableSize, NEW c \in 1 .. MaxBlkPge,
                        ConsistentImage(image, m, c)
                 PROVE  \E i \in 0 .. m - 1 :
                          \A p \in UbootAddrs(image) : image.flash[p].idx_chunk # i
      BY <1>1 DEF NoSpuriousFailure, ConsistentImage, UbootAddrs
    <3>1. PICK f \in UbootAddrs(image) :
            /\ uboot_idx = image.flash[f].idx_copy
            /\ total_uboot_copies = image.flash[f].num_copy
            /\ \A p \in UbootAddrs(image) : f <= p
      BY <1>1 DEF FirstMet
    <3>2. total_uboot_pages = m /\ total_uboot_copies = c
      BY <1>1, <3>1 DEF SizeKnown, ConsistentImage
    <3>3. oob.idx_chunk \in Nat /\ oob.idx_chunk + 1 = m
      BY <1>1, <1>3, <3>2, FlashTyped DEF LastPage, TypeOK, Scanning, PageAddrs, FirstPage, oob
    <3>4. oob.idx_chunk \in ValidChunks
      BY <1>2, <3>3 DEF Slots
    <3> DEFINE q == dram[oob.idx_chunk]
    <3>5. q \in UbootAddrs(image) /\ image.flash[q].idx_chunk + 1 = m /\ q < blk_pge_addr
      BY <1>1, <3>3, <3>4 DEF SlotsBacked, FromBehind
    <3>6. f <= q /\ image.flash[f].idx_copy + 1 = c
      BY <1>3, <3>1, <3>2, <3>5 DEF LastPage
    <3> HIDE DEF q
    <3>7. \A p \in UbootAddrs(image) : p <= q
      BY <3>5, <3>6, NothingBehind DEF TypeOK, Laid
    <3>8. \A p \in UbootAddrs(image) : p < blk_pge_addr
      BY <3>5, <3>7, UbootPageTyped DEF TypeOK, FirstPage
    <3>9. \A p \in UbootAddrs(image) : image.flash[p].idx_chunk \in ValidChunks
      BY <1>1, <3>8 DEF Collected
    <3>10. ValidChunks \subseteq 0 .. m - 1 /\ Cardinality(ValidChunks) # m
      BY <1>1, <3>2 DEF SizeKnown, CountIsCardinality, FirstMet
    <3> DEFINE V == ValidChunks
    <3>11. /\ V \subseteq 0 .. m - 1 /\ Cardinality(V) # m
           /\ \A p \in UbootAddrs(image) : image.flash[p].idx_chunk \in V
           /\ m \in Nat \ {0}
      BY <3>9, <3>10
    <3> HIDE DEF V
    <3> QED BY <3>11, SomeChunkMissing
  <2> QED BY <2>1, <2>2 DEF GiveUpInv, ScanInv
<1>4. CASE ~LastPage(uboot_idx, total_uboot_copies, total_uboot_pages)
  <2>1. /\ blk_pge_addr' = blk_pge_addr + 1
        /\ UNCHANGED <<image, pc, header, cnt_valid_page, page_valid_table, dram, ret>>
    BY <1>4 DEF KnownChunk, EndTest
  <2>2. ASSUME blk_pge_addr \in UbootAddrs(image) PROVE oob.idx_chunk \in ValidChunks
    <3>1. IsUboot
      BY <2>2 DEF IsUboot, UbootAddrs, oob
    <3>2. oob.idx_chunk \in Slots
      BY <1>1, <3>1, UbootPageFacts DEF Laid
    <3> QED BY <1>2, <3>2
  <2> QED BY <1>1, <2>1, <2>2, PassGiveUp
<1> QED BY <1>3, <1>4

\* At the end of the flash every U-Boot page has been met.
LEMMA EndGiveUp ==
  ASSUME TypeOK, LoaderInv, Laid(image), ScanInv, EndOfFlash
  PROVE  GiveUpInv'
<1>1. /\ image' = image /\ ret' = -3 /\ pc' = "halt"
      /\ Collected /\ FirstMet /\ CountIsCardinality /\ SizeKnown
  BY DEF EndOfFlash, Return, ScanInv, LoaderInv, Laid
<1>2. \A p \in UbootAddrs(image) : p < blk_pge_addr
  BY UbootPageTyped DEF EndOfFlash, TypeOK, PageAddrs, FirstPage
<1>3. NoSpuriousFailure'
  <2> SUFFICES ASSUME NEW m \in 2 .. TableSize, NEW c \in 1 .. MaxBlkPge,
                      ConsistentImage(image, m, c)
               PROVE  \E i \in 0 .. m - 1 :
                        \A p \in UbootAddrs(image) : image.flash[p].idx_chunk # i
    BY <1>1 DEF NoSpuriousFailure, ConsistentImage, UbootAddrs
  <2>1. CASE total_uboot_pages = 0
    <3>1. UbootAddrs(image) = {}
      BY <1>1, <1>2, <2>1 DEF Collected
    <3> QED BY <3>1
  <2>2. CASE total_uboot_pages # 0
    <3>1. PICK f \in UbootAddrs(image) : TRUE
      BY <1>1, <2>2 DEF FirstMet
    <3>2. total_uboot_pages = m
      BY <1>1, <2>2, <3>1 DEF SizeKnown, ConsistentImage
    <3> DEFINE V == ValidChunks
    <3>3. /\ V \subseteq 0 .. m - 1 /\ Cardinality(V) # m
          /\ \A p \in UbootAddrs(image) : image.flash[p].idx_chunk \in V
          /\ m \in Nat \ {0}
      BY <1>1, <1>2, <2>2, <3>2 DEF SizeKnown, CountIsCardinality, FirstMet, Collected
    <3> HIDE DEF V
    <3> QED BY <3>3, SomeChunkMissing
  <2> QED BY <2>1, <2>2
<1> QED BY <1>1, <1>3 DEF GiveUpInv, ScanInv

\* The status of a failed page carries its failed sectors and is never the bare
\* flag that ecc_uboot_to_dram compares with: no page is skipped for it.
LEMMA NoPageSkipped ==
  ASSUME FlagNeverBare, TypeOK, Scanning
  PROVE  ~EccSkips
<1>1. oob \in Page
  BY FlashTyped DEF TypeOK, Scanning, PageAddrs, FirstPage, oob
<1> DEFINE p == oob
           b == [BlankPage EXCEPT !.bad = p.bad]
<1>2. p.bad \in SUBSET Sectors /\ b.bad = p.bad
  BY <1>1 DEF Page, BlankPage
<1>3. page_read_ecc(b) # ECC_CTRL_ERR
  BY <1>2 DEF FlagNeverBare
<1> HIDE DEF p, b
<1>4. page_read_ecc(p) = page_read_ecc(b)
  BY <1>2 DEF page_read_ecc
<1> QED BY <1>3, <1>4 DEF EccSkips, p

\* A U-Boot laid out as bchenc lays it out, of at least two pages, is given up
\* by ecc_uboot_to_dram only when no copy holds a page of some chunk: the early
\* returns -1 and -2, which compare with the copy met first, are never premature.
THEOREM GivesUpOnlyIfIncomplete ==
  FlagNeverBare => (Spec /\ Laid(image) => []NoSpuriousFailure)
<1> SUFFICES ASSUME FlagNeverBare PROVE Spec /\ Laid(image) => []NoSpuriousFailure
  OBVIOUS
<1>1. Init => GiveUpInv
  <2> SUFFICES ASSUME Init PROVE GiveUpInv
    OBVIOUS
  <2>1. ValidChunks = {} /\ image \in Image
    BY DEF Init, ValidChunks
  <2>2. Collected
    BY DEF Init, Collected, UbootAddrs, PageAddrs, FirstPage
  <2> QED BY <2>1, <2>2 DEF Init, GiveUpInv, ScanInv, FromBehind, FirstMet, NoSpuriousFailure
<1>2. [Next]_vars => image' = image
  BY DEF Next, vars, FirstUbootPage, NextUbootPage, SkipPage, KnownChunk, EndOfFlash,
         CheckHeader, Inflate, Start, Done, loaderVars
<1>3. TypeOK /\ TypeOK' /\ LoaderInv /\ LoaderInv' /\ GiveUpInv /\ [Next]_vars => GiveUpInv'
  <2> SUFFICES ASSUME TypeOK, TypeOK', LoaderInv, LoaderInv', GiveUpInv, [Next]_vars, Laid(image)'
               PROVE  GiveUpInv'
    BY DEF GiveUpInv
  <2>0. Laid(image) /\ ScanInv /\ NoSpuriousFailure
    BY <1>2 DEF GiveUpInv, Laid, Consistent, ConsistentImage, WriterOrder, UbootAddrs
  <2>1. CASE FirstUbootPage
    BY <2>0, <2>1, FirstPageGiveUp
  <2>2. CASE NextUbootPage
    BY <2>0, <2>2, NextPageGiveUp
  <2>3. CASE SkipPage
    <3>1. blk_pge_addr \notin UbootAddrs(image)
      <4>1. ~EccSkips
        BY <2>3, NoPageSkipped DEF SkipPage
      <4> QED BY <2>3, <4>1 DEF SkipPage, IsUboot, UbootAddrs, oob
    <3> QED BY <2>0, <2>3, <3>1, PassGiveUp DEF SkipPage
  <2>4. CASE KnownChunk
    BY <2>0, <2>4, KnownChunkGiveUp
  <2>5. CASE EndOfFlash
    BY <2>0, <2>5, EndGiveUp
  <2>6. CASE CheckHeader \/ Inflate \/ Start
    <3>1. ret' = ret /\ image' = image
      BY <2>6 DEF CheckHeader, Inflate, Start, loaderVars
    <3>2. pc' # "scan"
      <4>1. CASE CheckHeader
        <5>1. PICK f \in Formats : pc' = CASE f = "lzma" -> "inflate"
                                           [] f \in {"raw", "none"} -> "start"
                                           [] f = "other" -> "halt"
          BY <4>1 DEF CheckHeader, TypeOK, Image
        <5> QED BY <5>1 DEF Formats
      <4> QED BY <2>6, <4>1 DEF Inflate, Start
    <3>3. NoSpuriousFailure'
      BY <2>0, <3>1 DEF NoSpuriousFailure, ConsistentImage, UbootAddrs
    <3> QED BY <3>2, <3>3 DEF GiveUpInv, ScanInv
  <2>7. CASE UNCHANGED vars
    <3>1. ScanInv'
      BY <2>0, <2>7 DEF vars, ScanInv, Collected, FromBehind, FirstMet, ValidChunks, UbootAddrs
    <3>2. NoSpuriousFailure'
      BY <2>0, <2>7 DEF vars, NoSpuriousFailure, ConsistentImage, UbootAddrs
    <3> QED BY <3>1, <3>2 DEF GiveUpInv
  <2> QED
    BY <2>1, <2>2, <2>3, <2>4, <2>5, <2>6, <2>7 DEF Next, Done
<1>4. Laid(image) /\ [Next]_vars => Laid(image)'
  BY <1>2 DEF Laid, Consistent, ConsistentImage, WriterOrder, UbootAddrs
<1>5. GiveUpInv /\ Laid(image) => NoSpuriousFailure
  BY DEF GiveUpInv
<1> QED
  BY <1>1, <1>3, <1>4, <1>5, TypeCorrect, LoaderInvariant, PTL DEF Spec

-----------------------------------------------------------------------------
\* uboot_bring_up goes on only with a positive size, and past the header only
\* with a format it knows.
BringUpInv ==
  Consistent(image) =>
    /\ pc \in {"header", "inflate", "start", "jump"} => ret > 0
    /\ pc \in {"inflate", "start", "jump"} /\ Intact => image.format # "other"

\* The scan hands over to the bring-up only with the size of the image.
LEMMA CopyPageResult ==
  ASSUME TypeOK, Scanning, NEW pages \in Nat \ {0}, NEW copies, NEW idx,
         CopyPage(pages, copies, idx)
  PROVE  /\ pc' \in {"scan", "header", "halt"}
         /\ pc' = "header" => ret' > 0
BY DEF TypeOK, Scanning, CopyPage, EndTest, Return

LEMMA BringUpInvariant == Spec => []BringUpInv
<1>1. Init => BringUpInv
  BY DEF Init, BringUpInv
<1>2. TypeOK /\ LoaderInv /\ BringUpInv /\ [Next]_vars => BringUpInv'
  <2> SUFFICES ASSUME TypeOK, LoaderInv, BringUpInv, [Next]_vars, Consistent(image)'
               PROVE  BringUpInv'
    BY DEF BringUpInv
  <2>1. image' = image
    BY DEF Next, vars, FirstUbootPage, NextUbootPage, SkipPage, KnownChunk, EndOfFlash,
           CheckHeader, Inflate, Start, Done, loaderVars
  <2>2. Consistent(image)
    BY <2>1 DEF Consistent, ConsistentImage, UbootAddrs
  <2>3. CASE FirstUbootPage
    <3>1. oob.total_chunk \in Nat \ {0} /\ Scanning
      BY <2>2, <2>3, UbootPageFacts DEF FirstUbootPage
    <3>2. CASE LastPage(oob.idx_copy, oob.num_copy, oob.total_chunk)
      BY <2>3, <3>2 DEF FirstUbootPage, Return, BringUpInv
    <3>3. CASE ~LastPage(oob.idx_copy, oob.num_copy, oob.total_chunk)
      BY <2>3, <3>1, <3>3, CopyPageResult DEF FirstUbootPage, BringUpInv
    <3> QED BY <3>2, <3>3
  <2>4. CASE NextUbootPage
    <3>1. total_uboot_pages \in Nat \ {0} /\ Scanning
      BY <2>4 DEF NextUbootPage, TypeOK
    <3> QED BY <2>4, <3>1, CopyPageResult DEF NextUbootPage, BringUpInv
  <2>5. CASE SkipPage \/ KnownChunk \/ EndOfFlash
    <3>1. pc' \in {"scan", "halt"}
      BY <2>5 DEF SkipPage, KnownChunk, EndOfFlash, Scanning, EndTest, Return
    <3> QED BY <3>1 DEF BringUpInv
  <2>6. CASE CheckHeader
    <3>1. Intact' = Intact /\ ret' = ret /\ pc = "header"
      BY <2>6 DEF CheckHeader, loaderVars, Intact
    <3>2. PICK f \in Formats :
            /\ Intact => f = image.format
            /\ pc' = CASE f = "lzma" -> "inflate"
                       [] f \in {"raw", "none"} -> "start"
                       [] f = "other" -> "halt"
      BY <2>6 DEF CheckHeader, TypeOK, Image
    <3>3. pc' \in {"inflate", "start", "halt"} /\ (f = "other" => pc' = "halt")
      BY <3>2 DEF Formats
    <3> QED BY <2>1, <2>2, <3>1, <3>2, <3>3 DEF BringUpInv
  <2>7. CASE Inflate \/ Start
    <3>1. Intact' = Intact /\ ret' = ret /\ pc \in {"inflate", "start"}
      BY <2>7 DEF Inflate, Start, loaderVars, Intact
    <3> QED BY <2>1, <2>2, <3>1 DEF BringUpInv
  <2>8. CASE UNCHANGED vars
    <3>1. Intact' = Intact
      BY <2>8 DEF vars, Intact
    <3> QED BY <2>2, <2>8, <3>1 DEF vars, BringUpInv
  <2> QED
    BY <2>3, <2>4, <2>5, <2>6, <2>7, <2>8 DEF Next, Done
<1> QED
  BY <1>1, <1>2, TypeCorrect, LoaderInvariant, PTL DEF Spec

\* uboot_bring_up jumps only when ecc_uboot_to_dram loaded every page of a
\* consistent image, and to no image whose undamaged header it cannot interpret.
THEOREM JumpsOnlyToLoaded == Spec => []JumpsToLoadedImage
<1>1. LoaderInv /\ BringUpInv => JumpsToLoadedImage
  BY DEF LoaderInv, BringUpInv, JumpsToLoadedImage, ResultIsSize
<1> QED
  BY <1>1, LoaderInvariant, BringUpInvariant, PTL

-----------------------------------------------------------------------------
(***************************************************************************)
(* The images that bchenc writes.                                          *)
(***************************************************************************)

\* The U-Boot pages that are left on the flash are pages that write_out_uboot
\* laid out for a file of len bytes that brings its own header, in an area that
\* the loader's table can describe.
WrittenBy(im, len, copies, cont) ==
  /\ len \in Nat \ {0} /\ round_to_page(len) <= TableSize
  /\ copies \in 1 .. MaxBlkPge
  /\ cont \in BOOLEAN
  /\ \A p \in UbootAddrs(im) : \E B \in SUBSET Sectors :
       im.flash[p] = [write_out_uboot(len, FALSE, copies, cont, p - FirstPage) EXCEPT !.bad = B]

\* The same, and the header of the file tells no more than the file holds.
Written(im) ==
  \E len \in Nat, copies \in Nat, cont \in BOOLEAN :
    WrittenBy(im, len, copies, cont) /\ HdrSize + im.ih_size <= len

\* Rounding up: enough pages for all the bytes.
LEMMA RoundedUp ==
  ASSUME NEW len \in Nat \ {0}
  PROVE  round_to_page(len) \in Nat \ {0} /\ len <= round_to_page(len) * PageSize
<1> DEFINE m == len + PageSize - 1
           q == m \div PageSize
<1>1. PageSize \in Nat \ {0} /\ m \in Nat /\ m >= PageSize
  OBVIOUS
<1>2. round_to_page(len) = q
  BY DEF round_to_page
<1> HIDE DEF m
<1>3. m = PageSize * q + (m % PageSize) /\ m % PageSize \in 0 .. PageSize - 1 /\ q \in Nat
  BY <1>1
<1> HIDE DEF q
<1>4. q # 0
  BY <1>1, <1>3
<1>5. PageSize * q = q * PageSize /\ q * PageSize \in Nat
  BY <1>1, <1>3
<1> QED BY <1>1, <1>2, <1>3, <1>4, <1>5 DEF m

\* Offsets are ordered as their quotients and remainders are.
LEMMA QuotientOrder ==
  ASSUME NEW b \in Nat \ {0}, NEW x \in Nat, NEW y \in Nat, x < y
  PROVE  x \div b < y \div b \/ (x \div b = y \div b /\ x % b < y % b)
OBVIOUS

\* The distance of two copies on the flash.
Stride(len, cont) ==
  IF cont THEN round_to_page(len) ELSE PagesPerBlock * round_to_block(round_to_page(len))

\* The out-of-band data of a U-Boot page as write_out_uboot computes it.
LEMMA WrittenPage ==
  ASSUME NEW im \in Image, NEW len, NEW copies, NEW cont, WrittenBy(im, len, copies, cont),
         NEW p \in UbootAddrs(im)
  PROVE  /\ Stride(len, cont) \in Nat \ {0} /\ p - FirstPage \in Nat
         /\ im.flash[p].total_chunk = round_to_page(len)
         /\ im.flash[p].num_copy = copies
         /\ im.flash[p].idx_copy = (p - FirstPage) \div Stride(len, cont)
         /\ im.flash[p].idx_chunk = (p - FirstPage) % Stride(len, cont)
         /\ im.flash[p].idx_copy < copies
         /\ im.flash[p].idx_chunk < round_to_page(len)
<1> DEFINE off == p - FirstPage
           n == round_to_page(len)
           s == Stride(len, cont)
           w == write_out_uboot(len, FALSE, copies, cont, off)
<1>1. p \in PageAddrs /\ im.flash[p].sig = "uboot" /\ off \in Nat
  BY DEF UbootAddrs, PageAddrs, FirstPage
<1>2. len \in Nat \ {0} /\ n \in Nat \ {0}
  BY RoundedUp DEF WrittenBy
<1>3. s \in Nat \ {0}
  <2>1. round_to_block(n) \in Nat \ {0}
    BY <1>2 DEF round_to_block
  <2>2. PagesPerBlock * round_to_block(n) \in Nat \ {0}
    BY <2>1
  <2> QED BY <1>2, <2>2 DEF Stride
<1>4. PICK B \in SUBSET Sectors : im.flash[p] = [w EXCEPT !.bad = B]
  BY DEF WrittenBy
<1>5. w = IF off \div s < copies /\ off % s < n
          THEN UbootPage(len, copies, off \div s, off % s) ELSE BlankPage
  BY DEF write_out_uboot, UbootPagesWritten, Stride
<1> HIDE DEF s, n, off, w
<1>6. /\ BlankPage.sig = "none" /\ UbootPage(len, copies, off \div s, off % s).sig = "uboot"
      /\ [BlankPage EXCEPT !.bad = B].sig = "none"
  BY DEF BlankPage, UbootPage
<1>7. w = UbootPage(len, copies, off \div s, off % s) /\ off \div s < copies /\ off % s < n
  BY <1>1, <1>4, <1>5, <1>6
<1>8. /\ w.idx_copy = off \div s /\ w.idx_chunk = off % s
      /\ w.total_chunk = round_to_page(len) /\ w.num_copy = copies
  BY <1>7 DEF UbootPage
<1>9. /\ im.flash[p].idx_copy = w.idx_copy /\ im.flash[p].idx_chunk = w.idx_chunk
      /\ im.flash[p].total_chunk = w.total_chunk /\ im.flash[p].num_copy = w.num_copy
  BY <1>4, <1>7 DEF UbootPage
<1> QED BY <1>1, <1>3, <1>7, <1>8, <1>9 DEF s, n, off

\* What bchenc writes (write_out_uboot, for a file with its own header) meets
\* what ecc_uboot_to_dram expects, whichever pages are lost or damaged later: the
\* pages agree on the size and the number of copies, number their chunks below
\* the size, and come in the order of copies and chunks, padded or not.
THEOREM WriterLaysOut == \A im \in Image : Written(im) => Laid(im)
<1> SUFFICES ASSUME NEW im \in Image, Written(im) PROVE Laid(im)
  OBVIOUS
<1>1. PICK len \in Nat, copies \in Nat, cont \in BOOLEAN : WrittenBy(im, len, copies, cont)
  BY DEF Written
<1>2. round_to_page(len) \in 1 .. TableSize /\ copies \in 1 .. MaxBlkPge
  BY <1>1, RoundedUp DEF WrittenBy
<1>3. ConsistentImage(im, round_to_page(len), copies)
  BY <1>1, WrittenPage DEF ConsistentImage
<1>4. Consistent(im)
  BY <1>2, <1>3 DEF Consistent
<1>5. ASSUME NEW p \in UbootAddrs(im), NEW q \in UbootAddrs(im), p < q
      PROVE  \/ im.flash[p].idx_copy < im.flash[q].idx_copy
             \/ /\ im.flash[p].idx_copy = im.flash[q].idx_copy
                /\ im.flash[p].idx_chunk < im.flash[q].idx_chunk
  <2> DEFINE s == Stride(len, cont)
             x == p - FirstPage
             y == q - FirstPage
  <2>1. /\ s \in Nat \ {0} /\ x \in Nat /\ y \in Nat
        /\ im.flash[p].idx_copy = x \div s /\ im.flash[p].idx_chunk = x % s
        /\ im.flash[q].idx_copy = y \div s /\ im.flash[q].idx_chunk = y % s
    BY <1>1, WrittenPage
  <2>2. x < y
    BY <1>5 DEF UbootAddrs, PageAddrs, FirstPage
  <2> HIDE DEF s, x, y
  <2>3. x \div s < y \div s \/ (x \div s = y \div s /\ x % s < y % s)
    BY <2>1, <2>2, QuotientOrder
  <2> QED BY <2>1, <2>3
<1> QED BY <1>4, <1>5 DEF Laid, WriterOrder

\* An image that bchenc wrote from a file with its own header is not given up as
\* long as some copy of every chunk is left: the promise of the writer and the
\* expectation of ecc_uboot_to_dram fit together.
THEOREM WrittenImageFound ==
  FlagNeverBare => (Spec /\ Written(image) => []NoSpuriousFailure)
<1>1. TypeOK /\ Written(image) => Laid(image)
  BY WriterLaysOut DEF TypeOK
<1> QED BY <1>1, GivesUpOnlyIfIncomplete, TypeCorrect, PTL DEF Spec

\* When uboot_bring_up takes the image behind an undamaged header, all the bytes
\* that ih_size announces were loaded: the chunks that bchenc counts in
\* total_chunk are enough for a file that brings its own header.
THEOREM HeaderFitsLoaded == Spec /\ Written(image) => []HeaderSizeLoaded
<1>1. ASSUME TypeOK, LoaderInv, BringUpInv, Written(image) PROVE HeaderSizeLoaded
  <2> SUFFICES ASSUME pc \in {"inflate", "start"}
               PROVE  HdrSize + image.ih_size <= ret * PageSize
    BY DEF HeaderSizeLoaded
  <2>1. image \in Image /\ Consistent(image)
    BY <1>1, WriterLaysOut DEF TypeOK, Laid
  <2>2. ret > 0 /\ ret = total_uboot_pages /\ ret = Cardinality(ValidChunks)
    BY <1>1, <2>1 DEF BringUpInv, LoaderInv, ResultIsSize, CountIsCardinality
  <2>3. PICK i : i \in ValidChunks
    BY <2>2, FS_EmptySet
  <2>4. dram[i] \in UbootAddrs(image) /\ image.flash[dram[i]].total_chunk = ret
    BY <1>1, <2>1, <2>2, <2>3 DEF LoaderInv, SlotsBacked, SizeKnown
  <2>5. PICK len \in Nat, copies \in Nat, cont \in BOOLEAN :
          WrittenBy(image, len, copies, cont) /\ HdrSize + image.ih_size <= len
    BY <1>1 DEF Written
  <2>6. ret = round_to_page(len)
    BY <2>1, <2>4, <2>5, WrittenPage
  <2>7. len <= ret * PageSize /\ ret \in Nat
    BY <2>5, <2>6, RoundedUp DEF WrittenBy
  <2>8. ret * PageSize \in Nat /\ image.ih_size \in Nat
    BY <2>1, <2>7 DEF Image
  <2> QED BY <2>5, <2>7, <2>8
<1>2. Written(image) /\ [Next]_vars => Written(image)'
  <2>1. [Next]_vars => image' = image
    BY DEF Next, vars, FirstUbootPage, NextUbootPage, SkipPage, KnownChunk, EndOfFlash,
           CheckHeader, Inflate, Start, Done, loaderVars
  <2>2. ASSUME Written(image), image' = image PROVE Written(image)'
    <3>1. PICK len \in Nat, copies \in Nat, cont \in BOOLEAN :
            WrittenBy(image, len, copies, cont) /\ HdrSize + image.ih_size <= len
      BY <2>2 DEF Written
    <3>2. WrittenBy(image, len, copies, cont)'
      BY <2>2, <3>1 DEF WrittenBy, UbootAddrs
    <3> QED BY <2>2, <3>1, <3>2 DEF Written
  <2> QED BY <2>1, <2>2
<1> QED
  BY <1>1, <1>2, TypeCorrect, LoaderInvariant, BringUpInvariant, PTL DEF Spec
=============================================================================
