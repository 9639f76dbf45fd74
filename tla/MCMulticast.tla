----------------------------- MODULE MCMulticast -----------------------------
(***************************************************************************)
(* Multicast with three tools on the line: an image of two frames, one of  *)
(* three frames whose format is not known, and one of a single frame whose *)
(* checksum is zero.                                                       *)
(***************************************************************************)
EXTENDS Multicast

ImgA == [crc |-> 1, len |-> 2, known |-> TRUE, parts |-> <<"conf", "kernel">>]
ImgB == [crc |-> 2, len |-> 3, known |-> FALSE, parts |-> <<"bootloader">>]
ImgZ == [crc |-> 0, len |-> 1, known |-> TRUE, parts |-> <<"kernel">>]

MixedImages == {ImgA, ImgB, ImgZ}

\* One more attempt on the same device; a retry that finds no second device;
\* endless attempts over two devices, and on one.
Retrying == {[yes |-> FALSE, retrycnt |-> 1, devices |-> 0],
             [yes |-> FALSE, retrycnt |-> 1, devices |-> 1],
             [yes |-> TRUE, retrycnt |-> 0, devices |-> 2],
             [yes |-> TRUE, retrycnt |-> 0, devices |-> 0]}
=============================================================================
