--------------------------- MODULE MCUbootLoader ---------------------------
(***************************************************************************)
(* Instances of UbootLoader: flash contents are what the writer lays out,  *)
(* with any combination of damaged pages.                                  *)
(***************************************************************************)
EXTENDS UbootLoader, Bchenc

\* The status words of a page of 2K, which has four sectors.
ASSUME StatusAssumption == FlagNeverBare /\ FailuresFlagged

CONSTANTS
  FileLengths,     \* lengths of the U-Boot file, in units of PageSize/HdrSize
  Options          \* writer options: [hdr, cont : BOOLEAN, copies : Nat]

\* What happens to a page on the flash: nothing, an uncorrectable sector that
\* leaves the out-of-band bytes readable, or one that destroys them.
Damages == {"ok", "data", "oob"}

Damaged(page, d) ==
  CASE d = "ok"   -> page
    [] d = "data" -> [page EXCEPT !.bad = {NumSectors - 1}]
    [] d = "oob"  -> [page EXCEPT !.bad = {0}, !.sig = "none"]

\* A page of something else behind U-Boot, whose out-of-band bytes happen to
\* look like chunk 0.
ForeignPage == [BlankPage EXCEPT !.idx_chunk = 0]

Written(len, o) ==
  [p \in PageAddrs |->
     IF p = MaxBlkPge - 1 THEN ForeignPage
     ELSE write_out_uboot(len, o.hdr, o.copies, o.cont, p - FirstPage)]

\* Without the writer's header the file is a raw image or brings its header.
ImageOf(len, o, flash) ==
  {im \in [flash : {flash}, ih_size : {IF o.hdr THEN len ELSE len - HdrSize},
           format : Formats] :
     o.hdr => im.format \in {"none", "lzma"}}

Flashes(w) ==
  {[p \in PageAddrs |-> IF p \in DOMAIN d THEN Damaged(w[p], d[p]) ELSE w[p]] :
     d \in [{p \in PageAddrs : w[p].sig = "uboot"} -> Damages]}

MCImages ==
  UNION {UNION {ImageOf(x[1], x[2], f) : f \in Flashes(Written(x[1], x[2]))} :
         x \in FileLengths \X Options}

\* Options of the shipped makefiles (-upimg, two copies), and variants.
ImageWithHeader == {[hdr |-> FALSE, cont |-> c, copies |-> n] : c \in BOOLEAN, n \in 1..2}
WriterAddsHeader == {[hdr |-> TRUE, cont |-> FALSE, copies |-> 1]}
=============================================================================
