----------------------------- MODULE PacketFifo -----------------------------
(***************************************************************************)
(* What the receiving half of the Ethernet driver promises to the network  *)
(* stack: a queue of frames.  The frame the stack is given is the oldest   *)
(* one, and it stays as it is for as long as the stack works on it.        *)
(***************************************************************************)
EXTENDS Naturals, Sequences

CONSTANTS
    Data,       \* the frames
    Empty,      \* no frame
    Capacity    \* frames that can wait

VARIABLES
    q,      \* the frames that wait
    held    \* the frame the stack works on, or Empty

vars == <<q, held>>

Init == q = <<>> /\ held = Empty

Arrive ==
    /\ Len(q) < Capacity
    /\ \E d \in Data : q' = Append(q, d)
    /\ UNCHANGED held

Fetch ==
    /\ q # <<>>
    /\ held = Empty
    /\ held' = Head(q)
    /\ q' = Tail(q)

Release ==
    /\ held # Empty
    /\ held' = Empty
    /\ UNCHANGED q

Next == Arrive \/ Fetch \/ Release

Spec == Init /\ [][Next]_vars
=============================================================================
