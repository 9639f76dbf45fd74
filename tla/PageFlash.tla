------------------------------ MODULE PageFlash ------------------------------
(***************************************************************************)
(* What the SPI NAND driver promises to the code above it: a flash of      *)
(* pages that are read, programmed and erased by the block, one operation  *)
(* at a time, each taking effect at once, on the pages it names and on no  *)
(* others, and reporting whether it succeeded.  A restart in the middle of *)
(* an operation can leave its pages undefined and no others.               *)
(***************************************************************************)
EXTENDS Integers

CONSTANTS
    NumPages,       \* page addresses are 0 .. NumPages - 1
    PagesPerBlock,
    Data,           \* contents of a page
    Blank, Junk     \* erased; undefined

VARIABLES
    mem,    \* the pages
    ctl,    \* "boot", "idle", "busy", "done"
    op,     \* the operation
    res,    \* its result, once it has taken effect
    ret     \* the result as it is given to the caller

vars == <<mem, ctl, op, res, ret>>

Addrs == 0 .. NumPages - 1
Ops == [kind : {"read"}, a : Addrs] \cup [kind : {"write"}, a : Addrs, d : Data]
       \cup [kind : {"erase"}, a : Addrs]

NoOp == [kind |-> "none"]

\* The pages that an operation may change.
Touched(o) ==
    CASE o.kind = "write" -> {o.a}
      [] o.kind = "erase" -> {b \in Addrs : b \div PagesPerBlock = o.a \div PagesPerBlock}
      [] OTHER -> {}

Put(S, c) == mem' = [a \in Addrs |-> IF a \in S THEN c ELSE mem[a]]

Call(o) ==
    /\ ctl = "idle"
    /\ ctl' = "busy"
    /\ op' = o
    /\ UNCHANGED <<mem, res, ret>>

\* The operation takes effect with result r.  Programming a page twice leaves it
\* undefined.
Results == Data \cup {Blank, Junk, "OK", "fail"}
Effect(r) ==
    \/ op.kind = "read" /\ r = mem[op.a] /\ UNCHANGED mem
    \/ op.kind = "write" /\ r = "OK" /\ Put({op.a}, IF mem[op.a] = Blank THEN op.d ELSE Junk)
    \/ op.kind = "erase" /\ r = "OK" /\ Put(Touched(op), Blank)
    \/ op.kind \in {"write", "erase"} /\ r = "fail" /\ Put(Touched(op), Junk)

Do ==
    /\ ctl = "busy"
    /\ \E r \in Results : Effect(r) /\ res' = r
    /\ ctl' = "done"
    /\ UNCHANGED <<op, ret>>

Return ==
    /\ ctl = "done"
    /\ ctl' = "idle"
    /\ ret' = res
    /\ res' = "none"
    /\ op' = NoOp
    /\ UNCHANGED mem

\* A restart, and what becomes of the operation it interrupts: it may still take
\* effect while the system starts, or be cut short.
Restart ==
    /\ ctl' = "boot"
    /\ mem' = mem \/ Put(Touched(op), Junk)
    /\ res' = "none"
    /\ UNCHANGED <<op, ret>>
Settle ==
    /\ ctl = "boot"
    /\ Put(Touched(op), Junk) \/ \E r \in Results : Effect(r)
    /\ UNCHANGED <<ctl, op, res, ret>>
Up ==
    /\ ctl = "boot"
    /\ ctl' = "idle"
    /\ op' = NoOp
    /\ UNCHANGED <<mem, res, ret>>

Init ==
    /\ mem = [a \in Addrs |-> Blank]
    /\ ctl = "boot"
    /\ op = NoOp
    /\ res = "none"
    /\ ret = "none"

Next == (\E o \in Ops : Call(o)) \/ Do \/ Return \/ Restart \/ Settle \/ Up

Spec == Init /\ [][Next]_vars
=============================================================================
