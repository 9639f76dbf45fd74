----------------------------- MODULE FlashPage -----------------------------
(***************************************************************************)
(* What one NAND page holds and what reading it through the BCH engine     *)
(* returns.                                                                *)
(*                                                                         *)
(* sig, idx_copy, idx_chunk, total_chunk and num_copy are the fields of    *)
(* plr_oob_t (include/soc.in.h); data is the identity of the payload; bad  *)
(* is the set of sectors with more bit errors than BCH corrects.  An       *)
(* uncorrectable sector delivers unreliable data and may or may not have   *)
(* destroyed the out-of-band bytes: sig is "none" when it did.  The case   *)
(* in which the signature survives and only the chunk number is damaged    *)
(* is left out.                                                            *)
(***************************************************************************)
EXTENDS EccCtrl

CONSTANTS
  NumSectors,      \* BCH sectors per page (4 for a 2K page)
  PageSize,        \* data bytes of a page, in some unit
  HdrSize,         \* sizeof(uimage_header_t), in the same unit
  PagesPerBlock    \* 64 for every device the code drives

ASSUME FlashAssumption ==
  /\ NumSectors \in Nat \ {0}
  /\ PageSize \in Nat \ {0}
  /\ HdrSize \in 1 .. PageSize - 1
  /\ PagesPerBlock \in Nat \ {0}

Sectors == 0 .. NumSectors - 1

\* SIGNATURE_UBOOT, SIGNATURE_PLR, SIGNATURE_PLR_FL, anything else.
Signatures == {"uboot", "plr", "plr_fl", "none"}

Page ==
  [sig : Signatures, idx_copy : Nat, idx_chunk : Nat, total_chunk : Nat,
   num_copy : Nat, data : Nat, bad : SUBSET Sectors]

\* An erased page: every byte 0xFF, so every field reads as all ones.
AllOnes == 65535
BlankPage ==
  [sig |-> "none", idx_copy |-> AllOnes, idx_chunk |-> AllOnes,
   total_chunk |-> AllOnes, num_copy |-> AllOnes, data |-> 0, bad |-> {}]

\* Status word returned by the model's _page_read_ecc for a page.
page_read_ecc(page) ==
  ecc_decode_bch_sector(
    [j \in Sectors |-> [ecer |-> j \in page.bad, all_one |-> FALSE, eccn |-> 0]])

\* What the readers of a page rely on: the mask of failed sectors stays within the
\* low byte of the status, so IS_ECC_DECODE_FAIL recognises every failed page; and
\* with at least one failed sector the word is not the bare flag.
FailuresFlagged ==
  \A B \in SUBSET Sectors :
    B # {} => IS_ECC_DECODE_FAIL(page_read_ecc([BlankPage EXCEPT !.bad = B]))

FlagNeverBare ==
  \A B \in SUBSET Sectors : page_read_ecc([BlankPage EXCEPT !.bad = B]) # ECC_CTRL_ERR
=============================================================================
