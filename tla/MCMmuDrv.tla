------------------------------ MODULE MCMmuDrv ------------------------------
(***************************************************************************)
(* Instances of MmuDrv for TLC.                                            *)
(***************************************************************************)
EXTENDS MmuDrv

\* Instructions that fetch from one page and load from another, and some in the
\* delay slot of a branch in a third page: restarted, they need every frame of a
\* system that has three.
MCPrograms == {p \in {<<c, d>> : c \in 0 .. NumVa - 1, d \in 0 .. NumVa - 1} : p[1] # p[2]}
              \cup {<<0, 1, 2>>, <<2, 1, 0>>, <<0, 2, 3>>, <<3, 1, 2>>}

=============================================================================
