------------------------------ MODULE MCSpiNand ------------------------------
(* SpiNand with a few blocks.                                              *)
EXTENDS SpiNand
=============================================================================
