------------------------------ MODULE MCXmodem ------------------------------
(***************************************************************************)
(* Xmodem on small images.  A packet is two units and a page three, so a   *)
(* page is completed inside a packet as 2112 bytes are.                    *)
(***************************************************************************)
EXTENDS Xmodem
=============================================================================
