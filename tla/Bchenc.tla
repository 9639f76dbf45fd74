------------------------------- MODULE Bchenc -------------------------------
(***************************************************************************)
(* The image writer util/bchenc/main.cpp: the sequence of pages that       *)
(* write_out_uboot appends, as a function of the length of the U-Boot file *)
(* and of the writer's options.                                            *)
(***************************************************************************)
EXTENDS FlashPage

\* Mutant: pages rounded down.
round_down_to_page(n) == n \div PageSize

round_to_page(n)  == (n + PageSize - 1) \div PageSize
round_to_block(n) == (n + PagesPerBlock - 1) \div PagesPerBlock

(***************************************************************************)
(* Pages written for one copy of a file of len bytes.  With a header, the  *)
(* first page holds the header and as much of the file as fits behind it;  *)
(* the rest follows in full pages.                                         *)
(***************************************************************************)
UbootPagesWritten(len, use_hdr) ==
  IF use_hdr
  THEN 1 + round_to_page(len - Min({len, PageSize - HdrSize}))
  ELSE round_to_page(len)

\* The out-of-band data of chunk k of copy r; total_chunk is computed from
\* the length of the file.
UbootPage(len, copies, r, k) ==
  [sig |-> "uboot", idx_copy |-> r, idx_chunk |-> k,
   total_chunk |-> round_to_page(len), num_copy |-> copies,
   data |-> k, bad |-> {}]

\* The page at offset off from the first block of U-Boot: copies follow each
\* other, padded to a block unless -uboot_cont is given.
write_out_uboot(len, use_hdr, copies, cont, off) ==
  LET pages  == UbootPagesWritten(len, use_hdr)
      stride == IF cont THEN pages ELSE PagesPerBlock * round_to_block(pages)
      r      == off \div stride
      k      == off % stride
  IN  IF r < copies /\ k < pages THEN UbootPage(len, copies, r, k) ELSE BlankPage
=============================================================================
