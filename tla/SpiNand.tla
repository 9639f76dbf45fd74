------------------------------- MODULE SpiNand -------------------------------
(***************************************************************************)
(* The SPI NAND driver of the preloader and of U-Boot (soc/spi_nand_gen3)  *)
(* and the chips it drives.                                                *)
(*                                                                         *)
(* A page address is one number; the driver cuts the chip select out of    *)
(* it, for a chip of two stacked dies also the die, and derives the plane  *)
(* whose cache register is used.  An operation is a sequence of command    *)
(* frames, a frame being what is sent while the chip-select line is        *)
(* active; the chip works on some of them for a while, ignoring others     *)
(* (OIP), and the driver polls until it is ready.                          *)
(*                                                                         *)
(* The chips are external: each die has its own array, cache registers,    *)
(* status and settings, and obeys when it is the selected one of a chip.   *)
(* The processor can be reset at any time without the chips, which then    *)
(* go on with what they do; or the power fails.                            *)
(***************************************************************************)
EXTENDS Integers, Sequences

CONSTANTS
    Cs,             \* chip selects in use: {0} or {0, 1}
    Dies,           \* {0}, or {0, 1} for a stacked chip
    BlocksPerDie,
    PagesPerBlock,
    TwoPlanes,      \* whether odd blocks use a cache register of their own
    OdeProbe,       \* whether the probe function that accepts the chip on chip
                    \* select 0 enables the chip's own ECC
    OdeRest,        \* the same for the init_rest function and chip select 1
    Data, Blank, Junk,
    MaxOps,         \* bound: operations
    MaxTried,       \* bound: functions of other makers tried for a chip
    MaxFaults,      \* bound: operations that fail
    MaxResets       \* bound: resets and power failures

ASSUME SpiNandAssumption ==
    /\ Cs \in {{0}, {0, 1}}
    /\ Dies \in {{0}, {0, 1}}
    /\ BlocksPerDie \in Nat \ {0} /\ BlocksPerDie % 2 = 0
    /\ PagesPerBlock \in Nat \ {0}
    /\ {TwoPlanes, OdeProbe, OdeRest} \subseteq BOOLEAN
    /\ Blank # Junk /\ {Blank, Junk} \cap Data = {}
    /\ {MaxOps, MaxTried, MaxFaults, MaxResets} \subseteq Nat

Stacked == Dies = {0, 1}
NumDies == IF Stacked THEN 2 ELSE 1
PagesPerDie == BlocksPerDie * PagesPerBlock
PagesPerCs == PagesPerDie * NumDies         \* 1 << PGE_BLK_SHF
NumPages == PagesPerCs * (IF Cs = {0} THEN 1 ELSE 2)
Rows == 0 .. PagesPerDie - 1
Units == Cs \X Dies
Planes == {0, 1}
Contents == Data \cup {Blank, Junk}

VARIABLES
    array,  \* [Units -> [Rows -> contents]]
    chip,   \* registers of each die
    sel,    \* the selected die of each chip
    open,   \* the chip selects whose line is active
    pc,     \* "boot", "idle", "run"
    op,     \* the operation that runs, as in PageFlash
    todo,   \* its frames that are left
    ret,    \* result of the last operation
    tried,  \* functions of other makers tried for this chip
    ops, faults, resets

chips == <<array, chip, sel>>
vars == <<chips, open, pc, op, todo, ret, tried, ops, faults, resets>>

-----------------------------------------------------------------------------
(* Addresses.                                                              *)

\* _EXTRACT_CS_INFO and _REMVOE_CS_INFO: a bit of the address.
Extract(v, bit) == (v \div bit) % 2
Remove(v, bit) == v - bit * Extract(v, bit)

\* nsc_stack2die_addr_transform: the die, and the address without it.
s2d_die(a) ==
    LET blk == a \div PagesPerBlock
        total == BlocksPerDie * 2
    IN IF blk % total >= total \div 2 THEN 1 ELSE 0

s2d_addr(a) == IF Stacked THEN Remove(a, PagesPerDie) ELSE a

CsOf(a) == Extract(s2d_addr(a), PagesPerCs)
RowOf(a) == Remove(s2d_addr(a), PagesPerCs)

\* Mutant: the plane is not put into the column address.
PlaneBit_none(a) == 0

\* The plane bit of the column address.
PlaneBit(a) == (s2d_addr(a) \div PagesPerBlock) % 2

-----------------------------------------------------------------------------
(* Operations as sequences of frames.  "wait" is a poll of the status until *)
(* the chip is ready; it is kept apart from the frame in front of it.       *)

Frame(kind, cs, x, d) == [kind |-> kind, cs |-> cs, x |-> x, d |-> d]
Short(kind, cs) == Frame(kind, cs, 0, Blank)

SelectDie(a) ==
    IF Stacked THEN <<Frame("select", CsOf(a), s2d_die(a), Blank)>> ELSE <<>>

\* snaf_page_read, snaf_pio_read_data.
snaf_page_read(a) ==
    <<Frame("PAGE_DATA_READ", CsOf(a), RowOf(a), Blank), Short("wait", CsOf(a)),
      Frame("READ", CsOf(a), PlaneBit(a), Blank)>>

\* Mutant: the status is looked at without waiting.
snaf_page_write_hasty(a, d) ==
    <<Short("WRITE_ENABLE", CsOf(a)), Frame("PROGRAM_LOAD", CsOf(a), PlaneBit(a), d),
      Frame("PROGRAM_EXECUTE", CsOf(a), RowOf(a), Blank), Short("status", CsOf(a))>>

\* snaf_page_write, snaf_pio_write_data.
snaf_page_write(a, d) ==
    <<Short("WRITE_ENABLE", CsOf(a)), Frame("PROGRAM_LOAD", CsOf(a), PlaneBit(a), d),
      Frame("PROGRAM_EXECUTE", CsOf(a), RowOf(a), Blank), Short("wait", CsOf(a)),
      Short("status", CsOf(a))>>

nsc_block_erase(a) ==
    <<Short("WRITE_ENABLE", CsOf(a)), Frame("BLOCK_ERASE", CsOf(a), RowOf(a), Blank),
      Short("wait", CsOf(a)), Short("status", CsOf(a))>>

Frames(o) ==
    SelectDie(o.a) \o (CASE o.kind = "read"  -> snaf_page_read(o.a)
                         [] o.kind = "write" -> snaf_page_write(o.a, o.d)
                         [] o.kind = "erase" -> nsc_block_erase(o.a))

\* nsu_enable_on_die_ecc, nsu_disable_on_die_ecc.  winbond_init_rest leaves the ECC
\* of a W25N02KV as it is, which is on, instead of enabling it.
Ecc(cs, ode) == <<Short(IF ode THEN "ODE_ON" ELSE "ODE_OFF", cs)>>
nsc_block_unprotect(cs) == <<Short("UNPROTECT", cs)>>

\* Mutant: the second die keeps its settings.
stack2die_specific_setting_none(cs) == <<>>

\* winbond_, micron_ and esmt_stack2die_specific_setting.
stack2die_specific_setting(cs) ==
    IF Stacked
    THEN <<Frame("select", cs, 1, Blank)>> \o nsc_block_unprotect(cs) \o Ecc(cs, FALSE)
         \o <<Frame("select", cs, 0, Blank)>>
    ELSE <<>>

nsc_reset_spi_nand_chip(cs) == <<Short("RESET", cs), Short("wait", cs)>>

\* probe_winbond_spi_nand_chip: in the preloader.  Micron and ESMT set the ECC
\* after the protection.
probe_spi_nand_chip ==
    nsc_reset_spi_nand_chip(0) \o <<Short("RDID", 0)>>
    \o Ecc(0, OdeProbe) \o nsc_block_unprotect(0) \o stack2die_specific_setting(0)

\* winbond_init_rest: in U-Boot, for a second chip.
init_rest ==
    IF 1 \in Cs
    THEN <<Short("load_uboot", 1), Short("RDID", 1)>> \o nsc_reset_spi_nand_chip(1)
         \o nsc_block_unprotect(1) \o Ecc(1, OdeRest) \o stack2die_specific_setting(1)
    ELSE <<>>

Boot == probe_spi_nand_chip \o init_rest

-----------------------------------------------------------------------------
(* The chips (external).                                                   *)

NoJob == [kind |-> "none", row |-> 0]
PoweredOn == [oip |-> FALSE, wel |-> FALSE, fail |-> FALSE, prot |-> TRUE, ode |-> TRUE,
              cache |-> [p \in Planes |-> Junk], job |-> NoJob]

Plane(bit) == IF TwoPlanes THEN bit ELSE 0
BlockPlane(row) == Plane((row \div PagesPerBlock) % 2)
Block(row) == {r \in Rows : r \div PagesPerBlock = row \div PagesPerBlock}

\* The rows that a job changes.
JobRows(j) ==
    CASE j.kind = "program" -> {j.row}
      [] j.kind = "erase" -> Block(j.row)
      [] OTHER -> {}
Put(u, S, c) == array' = [array EXCEPT ![u] = [r \in Rows |-> IF r \in S THEN c ELSE @[r]]]
Fault == faults < MaxFaults /\ faults' = faults + 1

\* A die finishes its job.
Finish(u) ==
    /\ chip[u].oip
    /\ LET c == chip[u]
           j == c.job
           Ready(fail) == [c EXCEPT !.oip = FALSE, !.wel = FALSE, !.fail = fail, !.job = NoJob]
           p == BlockPlane(j.row)
       IN \/ /\ j.kind = "read"
             /\ chip' = [chip EXCEPT ![u] =
                   [c EXCEPT !.oip = FALSE, !.cache[p] = array[u][j.row], !.job = NoJob]]
             /\ UNCHANGED <<array, faults>>
          \/ /\ j.kind = "program" /\ ~c.prot
             /\ Put(u, {j.row}, IF array[u][j.row] = Blank THEN c.cache[p] ELSE Junk)
             /\ chip' = [chip EXCEPT ![u] = Ready(FALSE)]
             /\ UNCHANGED faults
          \/ /\ j.kind = "erase" /\ ~c.prot
             /\ Put(u, Block(j.row), Blank)
             /\ chip' = [chip EXCEPT ![u] = Ready(FALSE)]
             /\ UNCHANGED faults
          \/ /\ j.kind \in {"program", "erase"} /\ ~c.prot
             /\ Put(u, JobRows(j), Junk)
             /\ chip' = [chip EXCEPT ![u] = Ready(TRUE)]
             /\ Fault
          \/ /\ j.kind = "reset" \/ (j.kind \in {"program", "erase"} /\ c.prot)
             /\ chip' = [chip EXCEPT ![u] = Ready(j.kind # "reset")]
             /\ UNCHANGED <<array, faults>>
    /\ UNCHANGED <<sel, open, pc, op, todo, ret, tried, ops, resets>>

-----------------------------------------------------------------------------
(* The frames as the driver sends them.                                    *)

frame == Head(todo)
unit == <<frame.cs, sel[frame.cs]>>
IsNext(kinds) == todo # <<>> /\ frame.kind \in kinds

\* The frame is the last one of the operation, or another one follows.
Advance ==
    /\ todo' = Tail(todo)
    /\ pc' = IF Len(todo) = 1 THEN "idle" ELSE pc
    /\ op' = IF Len(todo) = 1 THEN [kind |-> "none"] ELSE op

\* A die that is busy obeys nothing but a reset and a status request, and what is
\* sent to a chip within a frame that is still open is data to it.
Obeyed(lines, c) ==
    chip' = IF chip[unit].oip \/ frame.cs \in lines THEN chip ELSE [chip EXCEPT ![unit] = c]
Job(kind) == [chip[unit] EXCEPT !.oip = TRUE, !.job = [kind |-> kind, row |-> frame.x]]

\* _pio_raw_cmd: ACTIVATE_SPI_NAND_CS releases the line before it activates it,
\* which ends a frame that was left open; the line is released at the end.
Toggle(cs) == open' = open \ {cs}

_pio_raw_cmd ==
    /\ IsNext({"WRITE_ENABLE", "PAGE_DATA_READ", "PROGRAM_EXECUTE", "BLOCK_ERASE",
               "UNPROTECT", "ODE_ON", "ODE_OFF", "RDID"})
    /\ Toggle(frame.cs)
    /\ LET c == chip[unit] IN
       \/ frame.kind = "RDID" /\ UNCHANGED chip
       \/ frame.kind = "WRITE_ENABLE" /\ Obeyed(open', [c EXCEPT !.wel = TRUE])
       \/ frame.kind = "PAGE_DATA_READ" /\ Obeyed(open', Job("read"))
       \/ frame.kind = "PROGRAM_EXECUTE" /\ Obeyed(open', IF c.wel THEN Job("program") ELSE c)
       \/ frame.kind = "BLOCK_ERASE" /\ Obeyed(open', IF c.wel THEN Job("erase") ELSE c)
       \/ frame.kind = "UNPROTECT" /\ Obeyed(open', [c EXCEPT !.prot = FALSE])
       \/ /\ frame.kind \in {"ODE_ON", "ODE_OFF"}
          /\ Obeyed(open', [c EXCEPT !.ode = (frame.kind = "ODE_ON")])
    /\ tried' = IF frame.kind = "RDID" THEN 0 ELSE tried
    /\ Advance
    /\ UNCHANGED <<array, sel, ret, ops, faults, resets>>

select_die ==
    /\ IsNext({"select"})
    /\ Toggle(frame.cs)
    /\ sel' = [sel EXCEPT ![frame.cs] = frame.x]
    /\ Advance
    /\ UNCHANGED <<array, chip, ret, tried, ops, faults, resets>>

\* The frame that carries a page: from a DMA buffer, when the line is left
\* active, or word by word.
program_load ==
    /\ IsNext({"PROGRAM_LOAD"})
    /\ Obeyed({}, [chip[unit] EXCEPT !.cache[Plane(frame.x)] =
                      IF frame.cs \in open THEN Junk ELSE frame.d])
    /\ open' = open \cup {frame.cs} \/ open' = open \ {frame.cs}
    /\ Advance
    /\ UNCHANGED <<array, sel, ret, tried, ops, faults, resets>>

read_cache ==
    /\ IsNext({"READ"})
    /\ ret' = IF frame.cs \in open \/ chip[unit].oip THEN Junk ELSE chip[unit].cache[Plane(frame.x)]
    /\ open' = open \ {frame.cs}
    /\ Advance
    /\ UNCHANGED <<chips, tried, ops, faults, resets>>

\* Mutant: the whole status is compared with zero.
ReadyBit_unmasked == ~chip[unit].oip /\ ~chip[unit].fail

ReadyBit == ~chip[unit].oip

\* The status is polled until the chip is ready; nothing bounds the polls.
nsc_wait_spi_nand_oip_ready ==
    /\ IsNext({"wait"})
    /\ ReadyBit
    /\ Toggle(frame.cs)
    /\ Advance
    /\ UNCHANGED <<chips, ret, tried, ops, faults, resets>>

\* nsc_check_program_status, nsc_check_erase_status.
check_status ==
    /\ IsNext({"status"})
    /\ ret' = IF chip[unit].fail THEN "fail" ELSE "OK"
    /\ Toggle(frame.cs)
    /\ Advance
    /\ UNCHANGED <<chips, tried, ops, faults, resets>>

\* A reset cuts short what the selected die does.  Whether its settings survive
\* depends on the chip.
reset_chip ==
    /\ IsNext({"RESET"})
    /\ Toggle(frame.cs)
    /\ LET c == chip[unit] IN
       /\ Put(unit, JobRows(c.job), Junk)
       /\ \E kept \in BOOLEAN :
             chip' = [chip EXCEPT ![unit] = [c EXCEPT !.oip = TRUE, !.wel = FALSE,
                         !.prot = IF kept THEN @ ELSE TRUE, !.ode = IF kept THEN @ ELSE TRUE,
                         !.job = [kind |-> "reset", row |-> 0]]]
    /\ Advance
    /\ UNCHANGED <<sel, ret, tried, ops, faults, resets>>

\* Between the start of the preloader and init_rest U-Boot is loaded, which takes
\* far longer than anything a chip does (external: an assumption on time).
load_uboot ==
    /\ IsNext({"load_uboot"})
    /\ ~chip[unit].oip
    /\ Advance
    /\ UNCHANGED <<chips, open, ret, tried, ops, faults, resets>>

Send ==
    \/ _pio_raw_cmd \/ select_die \/ program_load \/ read_cache
    \/ nsc_wait_spi_nand_oip_ready \/ check_status \/ reset_chip \/ load_uboot

\* nsu_probe and the loop over the init_rest functions: a function of another maker
\* reads an identification that it does not know and returns, and the next one
\* begins.  Which makers' functions come first is a matter of linking.
other_maker ==
    /\ pc = "boot"
    /\ IsNext({"RDID"})
    /\ tried < MaxTried
    /\ tried' = tried + 1
    /\ Toggle(frame.cs)
    /\ todo' = IF frame.cs = 0 THEN Boot ELSE todo
    /\ UNCHANGED <<chips, pc, op, ret, ops, faults, resets>>

-----------------------------------------------------------------------------
(* Callers, resets.                                                        *)

Abstract(a) == <<a \div PagesPerCs, (a % PagesPerCs) \div PagesPerDie>>
MemBar == [a \in 0 .. NumPages - 1 |-> array[Abstract(a)][a % PagesPerDie]]
Working ==
    \/ \E n \in 1 .. Len(todo) : todo[n].kind \in {"PAGE_DATA_READ", "PROGRAM_EXECUTE", "BLOCK_ERASE"}
    \/ chip[Abstract(op.a)].oip
CtlBar == IF pc # "run" THEN pc ELSE IF Working THEN "busy" ELSE "done"
ResBar ==
    IF CtlBar # "done" THEN "none"
    ELSE LET c == chip[Abstract(op.a)] IN
         IF op.kind = "read" THEN c.cache[BlockPlane(op.a % PagesPerDie)]
         ELSE IF c.fail THEN "fail" ELSE "OK"

PF == INSTANCE PageFlash WITH mem <- MemBar, ctl <- CtlBar, res <- ResBar

Start(o) ==
    /\ pc = "idle"
    /\ ops < MaxOps
    /\ ops' = ops + 1
    /\ pc' = "run"
    /\ op' = o
    /\ todo' = Frames(o)
    /\ UNCHANGED <<chips, open, ret, tried, faults, resets>>

\* The processor is reset, and starts again.
CpuReset ==
    /\ resets < MaxResets
    /\ resets' = resets + 1
    /\ open' = {}
    /\ pc' = "boot"
    /\ todo' = Boot
    /\ tried' = 0
    /\ UNCHANGED <<chips, op, ret, ops, faults>>

PowerFails ==
    /\ resets < MaxResets
    /\ resets' = resets + 1
    /\ array' = [u \in Units |-> [r \in Rows |->
          IF chip[u].oip /\ r \in JobRows(chip[u].job) THEN Junk ELSE array[u][r]]]
    /\ chip' = [u \in Units |-> PoweredOn]
    /\ sel' = [c \in Cs |-> 0]
    /\ open' = {}
    /\ pc' = "boot"
    /\ todo' = Boot
    /\ tried' = 0
    /\ UNCHANGED <<op, ret, ops, faults>>

Init ==
    /\ array = [u \in Units |-> [r \in Rows |-> Blank]]
    /\ chip = [u \in Units |-> PoweredOn]
    /\ sel = [c \in Cs |-> 0]
    /\ open = {}
    /\ pc = "boot"
    /\ op = [kind |-> "none"]
    /\ todo = Boot
    /\ ret = "none"
    /\ tried = 0
    /\ ops = 0
    /\ faults = 0
    /\ resets = 0

Next ==
    \/ \E o \in PF!Ops : Start(o)
    \/ Send
    \/ other_maker
    \/ \E u \in Units : Finish(u)
    \/ CpuReset
    \/ PowerFails

\* The processor goes on, and a chip finishes what it does.
Spec ==
    /\ Init
    /\ [][Next]_vars
    /\ WF_vars(Send \/ other_maker)
    /\ \A u \in Units : WF_vars(Finish(u))

-----------------------------------------------------------------------------
(* Properties.                                                             *)

TypeOK ==
    /\ array \in [Units -> [Rows -> Contents]]
    /\ \A u \in Units :
          /\ chip[u].cache \in [Planes -> Contents]
          /\ chip[u].job.row \in Rows
          /\ chip[u].oip <=> chip[u].job # NoJob
    /\ sel \in [Cs -> Dies]
    /\ open \subseteq Cs
    /\ pc \in {"boot", "idle", "run"}
    /\ pc = "idle" <=> todo = <<>>
    /\ \A n \in 1 .. Len(todo) : todo[n].cs \in Cs
    /\ ret \in Contents \cup {"none", "OK", "fail"}

\* Every operation of the driver reads or changes the page or block it is given
\* and no other, on every chip select, die and plane, and returns the contents
\* or the true status; a reset or a power failure at any point leaves all other
\* pages alone (snaf_page_read, snaf_page_write, nsc_block_erase and the stacked
\* variants implement PageFlash).
ImplementsPageFlash == PF!Spec

\* The driver sends a command, or takes the status for the result, only when the
\* die that is selected is ready, also when the processor was reset while the
\* die was busy.
ChipReadyForFrame ==
    todo # <<>> /\ frame.kind \notin {"wait", "RESET", "select", "load_uboot"} => ~chip[unit].oip

\* The setting of the chip's own ECC that a die is meant to have: the second die of
\* a stack is given its own, whatever the first one has.
OdeOf(u) == IF u[2] = 1 THEN FALSE ELSE IF u[1] = 0 THEN OdeProbe ELSE OdeRest

\* When the driver is ready for use, no block of any die is protected and each die
\* has the ECC setting that the makers' functions have for it, whatever was
\* interrupted before and whichever die was selected then (the frames of a start go
\* to the die that happens to be selected).
DiesSetUp ==
    pc = "idle" => \A u \in Units : ~chip[u].prot /\ chip[u].ode = OdeOf(u)

\* Every operation, and every start, comes to an end.
OperationsEnd == pc # "idle" ~> pc = "idle"
=============================================================================
