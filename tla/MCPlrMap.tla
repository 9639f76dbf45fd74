------------------------------ MODULE MCPlrMap ------------------------------
(***************************************************************************)
(* PlrMap on a small image: one first-load page and three ordinary pages   *)
(* per copy, three copies, blocks of three pages, so that copies straddle  *)
(* blocks and the last virtual page is half empty.                         *)
(***************************************************************************)
EXTENDS PlrMap
=============================================================================
