----------------------------- MODULE MCSkipTable -----------------------------
(* SkipTable on devices of a few blocks.                                   *)
EXTENDS SkipTable
CONSTANTS Off2, Size1, Size2, Len1, Len2
PartsDef == {[off |-> 1, size |-> Size1, len |-> Len1],
             [off |-> Off2, size |-> Size2, len |-> Len2]}
=============================================================================
