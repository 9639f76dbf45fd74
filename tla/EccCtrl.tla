------------------------------ MODULE EccCtrl ------------------------------
(***************************************************************************)
(* The BCH engine wrapper of soc/ecc_gen2/ecc_ctrl.c.                      *)
(*                                                                         *)
(* A page is decoded sector by sector.  The engine (hardware) reports for  *)
(* each sector that it corrected some number of bits, that the sector is   *)
(* erased (all ones), or that it could not be corrected; a sector outcome  *)
(* is a record [ecer, all_one, eccn], the three fields of the ECSR status  *)
(* register.  Status words are the driver's own 32-bit values, read as     *)
(* s32_t, so that every comparison the callers make is the code's.         *)
(***************************************************************************)
EXTENDS Integers, FiniteSets, FiniteSetsExt

ECC_CTRL_ERR       == -320951040    \* 0xECDEAD00
ECC_DECODE_ALL_ONE == -321912833    \* 0xECCFFFFF
ECC_USE_ODE_ERR    == -555832064    \* 0xDEDEAD00
ECC_DECODE_SUCCESS == 0

\* The contents the engine's status register can have after one sector.
Sector(maxBits) ==
  [ecer : {FALSE}, all_one : {FALSE}, eccn : 0..maxBits]
    \cup [ecer : {TRUE}, all_one : BOOLEAN, eccn : {0}]

\* The status word of one sector.
check_ecc_ctrl_status(ecsr) ==
  CASE ecsr.ecer /\ ecsr.all_one -> ECC_DECODE_ALL_ONE
    [] ecsr.ecer /\ ~ecsr.all_one -> ECC_CTRL_ERR
    [] OTHER -> ecsr.eccn

\* The sectors of a page the engine gave up on.
FailedSectors(page) ==
  {j \in DOMAIN page : check_ecc_ctrl_status(page[j]) = ECC_CTRL_ERR}

\* The bit mask ecc_error_sector the loop builds with |= (1<<j).
SectorMask(S) == SumSet({2^j : j \in S})

(***************************************************************************)
(* The status word of a page.  sector_correct_bits is the largest count of *)
(* corrected bits (an erased sector's word is negative and never exceeds   *)
(* it); as soon as one sector failed the word is the error flag with the   *)
(* failed sectors or-ed into its low byte, which is zero in the flag.      *)
(***************************************************************************)
ecc_decode_bch_sector(page) ==
  LET failed == FailedSectors(page)
      bits   == {0} \cup {check_ecc_ctrl_status(page[j]) : j \in DOMAIN page}
  IN  IF failed = {} THEN Max(bits) ELSE ECC_CTRL_ERR + SectorMask(failed)

\* (sts & 0xFFFFFF00), on the two's complement value.
HighBytes(sts) == sts - (sts % 256)

\* The macro the other readers of a page status use (ecc_ctrl.h).
IS_ECC_DECODE_FAIL(sts) == HighBytes(sts) \in {ECC_CTRL_ERR, ECC_USE_ODE_ERR}
=============================================================================
