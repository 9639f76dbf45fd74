# Verification of the Bismarck preloader

The repository is the boot software of Realtek PON gateway chips (RTL9603CVD and
relatives): a *preloader*, which the boot ROM starts from flash, a host tool
(`bchenc`) that lays the flash image out, and a U-Boot 2020.01 with vendor
additions for flash access, upgrades and dual images.  This directory holds TLA+
models of its own core logic, TLC runs that check them on small instances, and
TLAPS proofs that hold for every size.

Everything is modelled from the sources; where several copies of a file exist the
one the `9603cvd_spi_nand` template builds is taken.

## 1. Inventory

How a board starts: the boot ROM finds the pages of the preloader's *first-load
part* on the NAND and runs it from SRAM.  The first-load part initialises the clock
and memory, builds the *chunk table* of the rest of the preloader (`nsu_init`), and
sets up the TLB so that the rest, which is linked at virtual addresses, is *paged in
on demand* from flash.  The last init function *loads U-Boot* from flash to DRAM and
jumps to it.  On a key press a *command line* runs instead, which can replace the
preloader over *XMODEM*.  U-Boot brings up flash (with a table that skips bad blocks)
and Ethernet, listens for a *multicast upgrade*, and then boots one of *two Linux
images* under the control of environment variables; commands *replace the images*.

| Component (source) | State it keeps | Operations | Interacts with | What is hard | What makes it correct |
|---|---|---|---|---|---|
| U-Boot loader (`lib/bringUboot/spi_nand_uboot_bringup.c`; `onfi_uboot_bringup.c` is the same text) | chunk bitmap, count, size and copies from the first page, DRAM image | scan, copy, end tests, header check, inflate, jump | reads pages written by `bchenc` through the ECC engine | damaged pages in several copies; early exits on stale data | success means all chunks; no failure while one page per chunk is readable; termination |
| ECC engine, page format (`soc/ecc_gen2`, `include/soc.in.h`) | none | decode a page, status word | every reader | the error flag carries the failed sectors in its low byte | a failed sector is recognised by every reader |
| Image writer (`util/bchenc/main.cpp`) | page and block counters | first-load pages, preloader pages, U-Boot pages, padding | read by the two loaders | sizes at page boundaries, chunk numbers | the header's size and the chunk count agree |
| Demand pager (`soc/cpu/mipsiaup/mmu_drv.c`, `ab_tlb_isr.S`) | TLB, frame table, four frame lists, ASID | refill a stale entry, evict and load, stop on a read error | processor TLB; `nsu_logical_page_read` | the TLB is the page table; buddies share an entry; ASID reuse; instructions needing several pages | an access reaches its own page; the handler returns; every instruction completes |
| Chunk table (`template/9603cvd_spi_nand/ab_spi_nand_util.c`) | table, counters | `nsu_init`, `nsu_logical_page_read` | pages of `bchenc`, the pager | damage over copies, skipped bad blocks, pages that go bad later | complete when reported so; reads deliver the page asked for |
| XMODEM updater (`swp/cli/cli_xmodem_nand.c`, `_nor.c`) | packet number, retry count, page buffer, destination, bad-block table | handshake, receive, acknowledge, write and verify | serial line, flash | lost and repeated packets and answers, number wrap, bad blocks | flash holds the sent pages in order, once each |
| SPI NAND driver (`soc/spi_nand_gen3`, the same files in U-Boot) | selected chip and die; in the chips: busy bit, cache registers, settings | reset and probe, read, program, erase as sequences of command frames | chips; every user of the flash | chips that are busy across a processor reset, dies and planes, frames left open | each operation acts on the page it is given and on no other |
| NAND wrapper of U-Boot (`board/realtek/common/snaf_driver_wrapper.c`) | bad-block and skip tables | start-up scan; read, write, erase, mark bad | U-Boot's `nand` commands, flash | a table computed once, used after blocks went bad; two layers that both skip | the table uses the good blocks in order; what was written reads back |
| Ethernet driver (`mach-rtl9603cvd/eth/re8670poll.c`, `luna_eth.c`) | two rings of descriptors, indices, `first_in` | open, close, receive and hand over, send | network controller, data cache, `net_loop` | the controller runs beside the processor; full rings, wrap, write-back | the ring is a queue; nothing gets stuck; no stale data is sent |
| Multicast upgrade (`multicast_upgrade.c`) | received flags, total length, timers | frame handlers, time-out, finish, install | network, upgrade commands | loss, repetition, reordering, several senders, time-outs, restarted sessions | only one sender's whole image is installed; the device boots in the end |
| Dual-image boot (`UBOOT-2020-DEFAULT_ENV_FILE`) | environment: commit, try, active | boot the committed image, try the other once, fall back | watchdog, Linux, flash | resets and power loss between any two steps | a failing trial falls back and is not repeated |
| Image upgrade (`cmd_upvmimg.c`, `cmd_upimgtar.c`) | parts found by the scan, versions and checksums in the environment | check, erase and write each part of each image, record | flash | power loss, failing writes, missing and too large parts | an image is whole at any time; done means installed |
| Command line (`swp/cli/cli_parser.c`, `cli_util.c`) | line buffer, command tree | edit, split, look up, call | UART | buffer bounds | |
| Authenticated boot (`lib/fdt`, `*_auth` templates) | none | find signature block, verify, decrypt | U-Boot loader | an unreadable page ends the search | unsigned images do not start when a key is fused |
| Init levels, symbols (`lib/misc`) | none | merge two tables of functions | all | | |

`PROJECT.json` lists the hazards of this code at the lines where they bite, with the
properties that would notice them.

## 2. Modules

```
EccCtrl ── FlashPage ─┬─ UbootLoader ── MCUbootLoader ── Bchenc
                      │       └── refines ImageLoad      UbootLoaderProofs
                      └─ PlrMap ── MCPlrMap              PlrMapProofs
MmuDrv ── MCMmuDrv                                       MmuDrvProofs
Xmodem ── MCXmodem                                       XmodemProofs
SpiNand ── MCSpiNand        SpiNand refines PageFlash    SpiNandProofs
SkipTable ── MCSkipTable                                 SkipTableProofs
LanRing ── MCLanRing        LanRing refines PacketFifo   NetProofs
Multicast ── MCMulticast                                 NetProofs
DualImage ── MCDualImage                                 DualImageProofs
```

Each module names its definitions after the C functions, macros and variables they
stand for; `PROJECT.json` maps each to its lines.  Definitions introduced by
`Mutant:` are altered forms of the definition that follows; they show that the
properties notice the corresponding mistake and are used nowhere else.

**EccCtrl** – the status word of a page read: `check_ecc_ctrl_status` for a sector,
`ecc_decode_bch_sector` for the page, `IS_ECC_DECODE_FAIL`.  The constants are the
32-bit values as signed integers.

**FlashPage** – one NAND page as a record of the out-of-band fields, the identity of
its payload and the set of sectors that BCH cannot correct.

**Bchenc** – which page of the U-Boot part holds which chunk, with and without the
header the tool can add.

**UbootLoader** – `ecc_uboot_to_dram` with one action per path through the loop body
(first page, further page, known chunk, every `continue`, end of flash), then the
stages of `uboot_bring_up`.  An index outside `page_valid_table` reads a neighbouring
byte, so both outcomes are possible.  **ImageLoad** is what the loader promises:
chunks arrive one at a time and "loaded" is announced only when all have.

**PlrMap** – `write_out_plr`, `nsu_init` (one action per path through the loop body)
and `nsu_logical_page_read`.  The initial flash is what the tool wrote, around at most
one block that was bad when it was programmed, with any set of pages damaged; pages go
on failing after start-up.  The table's entries are page addresses cast to 16 bits
(`u16_t`); devices may have more pages than that, and the image, which starts at page 0,
ends in front of page 65535 (`PlrAssumption`).  A first-load page has its own layout and cannot be decoded
by the ordinary read.

**MmuDrv** – the processor's TLB, the miss handler and the frame driver.  An
instruction is a sequence of page references that restarts after each miss.  The
handler runs with exceptions disabled, so each of its outcomes is one action:
`mmu_tlb_miss_check_first` (the entry is there with an old ASID),
`mmu_tlb_miss_va_to_pa` (a frame is taken, the page read) and `LoadFails` (the read
failed and the driver loops).  The four frame lists are the code's circular lists:
`links` holds the two pointers of every list head and frame, `move_to_list` performs the
unlinking and linking assignment by assignment, and the search for a victim follows them.
`list` records beside them which frames were put where and when; `ListsIntact` says that
the pointers, followed forwards or backwards, spell it.
What the TLB does with an access is external (the MIPS32 architecture).
`LoadFails` and the assumption that a load fills the frame with the page asked for are
the interface to `nsu_logical_page_read`; PlrMap's `ReadsAreExact` is that assumption.

**Xmodem** – `erase_blocks` and `cli_xmodemReceive`, one action per way the receiver
leaves its wait: time-out, EOT, CAN, a damaged packet, a repeated one, one out of order,
and the expected one that fills no page, fills a page, or fills a page that does not
read back.  The sender (a terminal program, external) sends one packet at a time and
repeats until it is answered; in this model it never gives up.  The line loses and
damages packets and answers, and a packet may lose its start byte (`headless`), after
which the receiver takes its contents for commands.  Bytes are grouped into units; unit
`u` of the file is the number `u`.  The characters the receiver sends when it gives up
are left out: nothing follows but the reset.

**SpiNand** – the frames of reset and probe, `snaf_page_read`, `snaf_page_write`,
`nsc_block_erase` and their variants for stacked dies, against chips with a busy bit, a
cache register per plane, a selected die, protection and settings.  The driver's state
is the list of frames still to send; the processor may be reset, or the power fail,
before each of them.  Functions of other makers that are tried first reset the chip, read
an identification they do not know and return (`other_maker`), in the preloader's loop
(`nsu_probe`) and in U-Boot's (`nand_probe`).  `OdeProbe` and `OdeRest` are what the probe
and the `init_rest` function make of the on-die ECC; they are independent, because the
makers' functions do not agree (section 5).  The chips are external, modelled from what the driver sends and
waits for.  **PageFlash** is what the users of the driver rely on: a page device whose
operations act at once on the pages they name.

**SkipTable** – the start-up scan (`create_bbt`, `create_skip_table` and
`fill_skip_table`), `get_good_block`, and the erase, write with read-back, read, mark-bad and
scrub of U-Boot's `nand` commands above it, with erases and writes that fail, tags that
flip a bit, and power failures.  The unit is a block; write takes one step per block.  Erase is one step, which may leave
any of its blocks as they were (an error that nobody looks at, or power that fails on the
way).  The test against `lim` in the skipping loops (`nand_util.c:613`, `:733`) is left
out: the upgrade commands give offsets, for which `lim` is the rest of the device, and
`check_skip_len` has refused what does not fit there.
`written` is a history variable: which image the commands reported as written and
verified, while nothing changed it since.

**LanRing** – `Lan_Initialize`, `Lan_Receive`, `Lan_Transmit`, `eth_init` and `eth_halt`, one step per access to what the controller shares, with the controller and the
cache as actors of their own.  Frames are composed and sent from inside the handlers of
received ones, in one buffer; the stack's second one for ARP (`arp.c:60`) would only keep
frames apart.  `net_start_again` also halts and starts the driver inside a handler, which
touches no ring and is covered by a controller that pauses.  **PacketFifo** is the queue that the stack sees.

**Multicast** – the handlers for announcements, data and alive frames, the time-out
handler, the session's start, restart and end in `net_loop`, and the installation, for
the builds with and without `CONFIG_UPGRADE_LARGE_FIRMWARE`.  Senders and line are one
choice: any frame of any image may arrive at any time, which includes loss, repetition,
reordering and several senders.  `env` is what `netretry` and `ethrotate` say: how often
`net_start_again` restarts a session, for ever included, and after how many restarts the
network devices have all been tried (`net_restart_wrap`).  `fresh` is a history variable:
the frames, each with its image, that were stored since `multicast_start`.

**DualImage** – the boot scripts of the environment and the two upgrade commands, one
step per command that changes flash or the stored environment, so that power can fail
between any two.  Linux is external and does what the scripts are made for.  The
partitions are those of the MTD layout, whose places and sizes the environment gives
(`fl`; a missing one ends a command): the `*_mtd_default` builds and the environment file
that the scripts are taken from.  Builds with `CONFIG_RTK_USE_ONE_UBI_DEVICE` write UBI
volumes instead.  What the scan of an archive leaves in global variables outlives the
command (`tar`, `fwu_ver`).  `fwu_ver` is the version's buffer, as the set of versions
whose characters are in it: copying a shorter text leaves the end of a longer one, and a
text that fills the buffer has no terminator, so that what is recorded may go on behind it.

## 3. Runs

| Run | Instance | What it shows |
|---|---|---|
| `uboot_loader` | 10 pages, blocks of 3, U-Boot of 1–3 pages in 1 or 2 copies, each page intact, undecodable, or with destroyed out-of-band data | complete on success, no failure without a missing chunk, jump only to a loaded image, the sizes agree for images that bring their own header, termination, refinement of `ImageLoad` |
| `uboot_loader_ecc` | same | **violation**: a page with an uncorrectable sector is loaded and counted (finding 1) |
| `paging` | 3 frames, 4 pages, 4 TLB entries, 4 ASIDs, every pair of pages and some triples as an instruction | TLB, frame table and contents agree; accesses read their own page; the handler never enters an internal-error loop; the circular lists stay intact; after a load every other resident page misses once; instructions that need every frame complete |
| `plr_table` | 1 first-load and 3 ordinary pages, 3 copies, blocks of 3 pages, all sets of damaged pages, one later failure | the table is complete when reported so, no failure of a recoverable image, exact reads, the scan ends |
| `xmodem` | file of 21 units, packets of 2, pages of 3, blocks of 2 pages, 2 erased blocks, packet numbers modulo 4, up to 3 faults, any used and bad blocks; two kinds of lines | the flash holds the first pages of the file in order, once each, outside bad blocks; the bad-block table is never left; on a line without headless packets and early repeats success means every full page is written and the transfer ends, but for finding 3 |
| `xmodem_wrap` | 7 units, one loss | **violation**: the transfer does not end (finding 3) |
| `skip_table` | 8 blocks of which up to 4 are bad, two partitions, a table entry that counts to 2, one fault | the table uses the good blocks in order; a verified image reads back in this and every later session |
| `skip_table_erase` | 5 blocks, one bad, no fault | **violation**: erasing a partition erases a block of another (finding 2) |
| `multicast` | images of 1, 2 and 3 frames, one of unknown format, one with checksum 0, both builds, 2 time-out periods, one retry, endless retries, one or two network devices | after a success the buffer holds frames of this session; only one whole image is ever installed; the device boots |
| `dual_image` | two working versions and one that does not, of different length, complete, partial, version-less and too large uploads, an environment without one partition, 3 upgrades, one power failure, failing writes | `sw_active` names what runs; a failed trial is not repeated; one image stays whole; done means installed; a working image runs in the end |
| `spi_nand` | 2 chips of 2 dies with 2 blocks of 2 pages and 2 planes, probe and `init_rest` with different ECC settings, one other maker tried first, 2 operations, one failure, one reset or power failure | no frame to a busy die; every die unprotected and with its maker's ECC setting; refinement of `PageFlash`; operations end |
| `lan_ring` | 4 receive and 2 send descriptors, 2 frame contents | refinement of `PacketFifo`; the controller is never stuck; queued frames are sent, and not older data in their place |

Bounds and why they are enough.  Three pages per U-Boot image and two copies give a
first, a middle and a last chunk, each present in both, one or none of the copies, and
a foreign page behind the image; more copies repeat the same tests.  Four virtual pages
are two TLB entries with both halves; three frames let the victim be the buddy of the
page loaded, another entry, or free; four ASIDs wrap after four loads.
`LoadForcesRefill` depends on how many ASIDs there are: this instance needs 3, and with
six pages over three frames 3 are not enough; the driver has 64 for its 4 frames, and
more than seven per frame are proved to be enough (section 4).  In
`plr_table` a copy (4 pages) is not a multiple of
a block (3), so a skipped block shifts the copies against the counts of the scan, and
two chunks per virtual page with three chunks leave the last page half full.  The
released image has 61 chunks in 2 copies, 24 of them first-load, 2 per virtual page,
19 virtual pages, 4 frames and 32 TLB entries.

In `xmodem` a page (3 units) is no multiple of a packet (2), as 2112 bytes are none of
128 or 1024; the file is longer than the destination, so the room runs out; eleven
packets wrap the numbers more than twice; with a bad block the last pages go behind the
erased ones.  `FlashIsPrefix` needs `MAXRETRANS` below the number of packet numbers (25
and 256 in the code): every early repeat gives the sender an acknowledgement too many.
With 6 and 3 and four faults it fails.

In `skip_table` more blocks may be bad than an entry can count (3 stands for the code's
255), and both partitions lie behind bad blocks or around them; one fault is enough to
make the table and the tags disagree, and the next start makes them agree again.  In
`multicast` attempts are counted up to 3 (`TryMax`), beyond the limits in the
environments; the flag array is longer than every image, frames of the three images
overlap in their numbers, and two sessions follow each other.  In `dual_image` three
upgrades allow a trial, an upgrade by command and another trial, with the crash at any
step of them.  In `spi_nand` an operation follows another one on the same or another
chip, die and plane, with the reset at any of its frames; a third operation meets the
same states of the chips.  One function of another maker (`MaxTried`) can come before
the right one for each chip; a second one repeats the same two or three frames.  In `lan_ring` the rings are at their limit within a few
steps and wrap; two contents tell an old frame from a new one.

Deadlock is checked in `uboot_loader`.  It is not where the program really stops or may
be idle: `paging` (a failed page read ends in an endless loop), `plr_table` (a failed
`nsu_init` ends the start-up; with no request the reader is idle), `xmodem*`,
`multicast` and `dual_image` (the transfer ends, the device has booted), `skip_table*`,
`spi_nand` and `lan_ring` (no command, no frame, or the bound on them is reached).

Fairness.  The preloader is the only program running, with interrupts off: the loader
(`WF(Next)`), the scan (`WF(nsu_init)`) and the processor's handling of a reference
(`WF(Handle)`) go on.  New instructions and new page requests need not come.
The XMODEM receiver (`WF(Receiver)`) waits with time-outs only, and a sender goes on
(`WF(Sender)`) as the protocol demands; no fairness forces a fault, an early repeat or a
cancellation.  In Multicast the timer expires and `net_loop` looks at its state after
each poll; no frame needs to arrive.  An operator who asks for endless attempts on one
device (`AskedForEver`) gets them, so `DeviceBoots` excludes that environment.  In DualImage U-Boot goes on and the watchdog
expires; upgrades, commits, crashes and operators are free.  In SpiNand the driver goes
on, with the next frame or the next maker's function, and a busy die finishes.  In LanRing `net_loop` calls `Lan_Receive` again and again
and the handlers return; both are strongly fair, because the stack may send any
number of frames in between; the controller sends while the links are up.  Frames
need not come, and the cache need never write back by itself.

`TypeOK` is an invariant of the runs `uboot_loader` and `plr_table`; the other modules
state it for the reader and for proofs.

## 4. Proofs

All theorems hold for every value of the constants allowed by the named assumptions of
the modules (`FlashAssumption`, `GeometryAssumption`, `ImagesAssumption`,
`PlrAssumption`, `MmuAssumption` and their counterparts in the other modules), which TLC
evaluates on the instances of the runs.  Each proof module gives the inductive invariant,
one lemma per action or group of actions that disturbs it, and a short theorem at the
end.  Every module has its type theorem.  Further hypotheses are part of the theorems and
named below.

*UbootLoaderProofs.*  `CompleteOnSuccess`: success is reported only with every chunk in
its slot.  The loader compares a *count* with the size it read from one page, so the
invariant `LoaderInv` says that the count is the cardinality of the set of chunks marked
valid, that those are below the size, and that each is backed by a page of its number; a
subset of `0 .. n-1` with `n` elements is all of it.  `LoaderRefinesLoad`: for a
consistent image every step is a step of `ImageLoad` or a stutter.
`GivesUpOnlyIfIncomplete` (`NoSpuriousFailure`): for a consistent image whose pages are in
the writer's order (`WriterOrder`; without it the claim is false) the loader gives up only
when some chunk has no page.  `ScanInv` says that every U-Boot page behind the scan has
its chunk marked, that the slots were filled from behind the scan, and that the copy
number kept is the one of the first U-Boot page of the flash: if that is the last copy,
nothing follows the page that carries the last chunk number.  The hypothesis
`FlagNeverBare` is a fact about a sum of powers of two, which TLC evaluates for the four
sectors of a page (`StatusAssumption`) and which the provers cannot get, because it needs
induction over the sum.  `JumpsOnlyToLoaded` (`JumpsToLoadedImage`).
The hypotheses about the image are then discharged for the images the tool makes.
`Written` says that the U-Boot pages on the flash are pages that `write_out_uboot` laid
out for a file with its own header, whichever of them were lost or damaged later, and
that the header announces no more than the file holds.  `WriterLaysOut` shows from the
arithmetic of the tool (pages per copy, padding to blocks, chunk numbers) that such
pages are consistent and in order; `WrittenImageFound` (`NoSpuriousFailure`) and
`HeaderFitsLoaded` (`HeaderSizeLoaded`: every byte that the header announces was loaded)
follow.  The second is false for other contents of the flash, and for images that get
their header from the tool (section 5).

*PlrMapProofs.*  `TableComplete` (`ReadyMeansMapped`); `LogicalReadExact`
(`ReadsAreExact`).  `PlrInv` says that the counter is the number of filled entries and
that an entry names a page of its chunk.  In a complete table the filled entries are
exactly `0 .. Total-1`, from which the entries of a virtual page, and the place where the
read loop stops in the last one, are known.  `InReach` says that pages with a preloader
signature lie in front of page 65535, so that the cast changes no address that is stored.  `FailsOnlyIfIncomplete`
(`NoSpuriousFailure`), under `FailuresFlagged`, the other such fact about status words:
`InStep` says that the page count is the place within the copy, from 1, once the total is
known; so the end-of-copy test is made on the first page of a copy, which is a first-load
page and has no copy number, and it ends the scan of no image without a hole.

*MmuDrvProofs.*  Under `AreaFits` (the mapping area has at most as many pages as the
handler's mask distinguishes; the start-up check does not ensure it, the released image
meets it): `TlbAlwaysAgrees`, `ReadsItsPage`, `HandlerAlwaysReturns` and
`ListsStayIntact`.  The invariant `PagingInv` couples three things that one step
changes together: a valid half of a TLB entry names a frame, the frame's record names
that page, and the frame holds its contents.  That some list is not empty is carried
along for the search of a victim.  Without `AreaFits` the claim is false (section 5).
`ListsStayIntact` (`ListsIntact`) is about the pointers: `UnlinkSpells` and `InsertSpells`
follow the assignments of the unlinking and of the insertion at the tail, with the cases
in which the neighbours are list heads, the list becomes empty or the frame is moved
within its list; `MoveIntact` joins them.  `OneList` says that the frames are on one list
each, once.
`LoadAlwaysForcesRefill` (`LoadForcesRefill`) says that a load makes every other entry
miss.  ASIDs are reused, so this is a bound on how many loads a page can survive without
being touched, and its hypothesis `EnoughAsids` is `7 * NumFrames < NumAsid` (28 and 64 in
the released image).  A page can be promoted without its own entry being refreshed, when
the other half of an entry is loaded beside it, so the time since the last touch does not
bound its stay.  The argument is that a promotion leads to one fixed list only, level 1,
the last one in the order 2, 3, 0, 1, and that the search for a victim empties a list
before it goes on to the next: while a frame waits at most seven lists are emptied
(`Rounds`, and the one being emptied), each in at most `NumFrames` loads.  `AgeInv` says that the loads since an entry was written and
those that its page can still survive (`Left`) are together at most `7 * NumFrames`; a
load makes the first one larger and the second smaller by at least as much, and a touch
makes neither larger but for the entry it refreshes.  The bound is sufficient and not
sharp; the instance of the run has fewer ASIDs and satisfies the property too.

*XmodemProofs.*  `LookupsStayInTable` and `SuccessIsWritten` need no hypothesis.
`BaseInv` relates the length received to the pages written and the bytes buffered, so that
a full page always finds a good block (`FewBadPages`, `NextGoodFacts`).  For the order of
the pages there are two theorems, because the receiver sees packet numbers modulo
`SeqMod` only.  `ReceiverKeepsOrder` is the receiver's half: `FlashIsPrefix` holds as long
as no packet at hand is a whole round of numbers away from the expected one (`InWindow`),
whoever sends.  `PagesInOrder` is the protocol: with a sender that repeats only after its
time-out (`Sequential`), any number of losses, damages and beheaded packets keeps sender
and receiver at most one packet apart (`ProtocolInv`), and `FlashIsPrefix` follows.  With
early repeats and a retry limit that is not below `SeqMod` it is false (section 3), so the
case in between stays with TLC.  `StreamInv` says that buffer and flash together are the
first units of the file.

*SkipTableProofs.*  `TableMapsGoodBlocks` (`MapsGoodBlocksInOrder`), while the table is
made and afterwards, also with more bad blocks than an entry counts.  `TableInv` says
that after any turn of the loop the entries made so far reach good blocks in front of the
scan, all of them, and skip more and more blocks.
`WrittenImageReadsBack` (`ImageReadsBack`) under `RoomForFaults`: a partition is larger
than its image by the number of blocks that may go bad.  Without it the claim is false,
because `nand_write_skip_bad` looks for good blocks up to the end of the device and not
of the partition, so the image may reach into the next one.  The two layers skip
different blocks: the table those that were bad at the last start, the loops above it
those with a bad tag now.  `TableCount` says that an entry of the table is the number of
blocks skipped in front of its target; `WornInv` that the blocks bad by their tag only
are no more than the faults; from both, and the room, an image stays between the
places of its neighbours (`ImageInPart`, `Apart`).  `PlaceInv` remembers an image by the
blocks of the device and not by logical addresses: the table in use and the one that the
next start will make both lead to them (`Placed`), which is what a restart needs.
`WriteInv` says that a running write uses the blocks it chose when it began and that the
image it replaces is no longer counted as written.

*SpiNandProofs.*  For one or two chips, single or stacked dies, every geometry, and any
number of operations, failures, resets of the processor and power failures between any
two frames.  `WaitsForChips` (`ChipReadyForFrame`): `BusyInv` says that a busy die is the
selected one of its chip, and that the next frame for this chip is one that may be sent
to a busy chip (a wait, RESET, or the loading of U-Boot); a reset replaces the frames
that are left by those of a start, which begin that way for every chip.
`NothingStaysProtected` and `DiesGetSettings` (`DiesSetUp`), for all four combinations of
the ECC settings of probe and `init_rest`, which differ for some makers (section 5), and
any number of other makers' functions before the right one: `ProtInv` says that a die that
is protected will be reached by one of the frames that are left, with the die that is
selected now and the selections on the way (`Reaches`); `OdeInv` that a die has its own
setting, or the frame that gives it is still to come while that die is selected (`ChipOde`).
A start that is cut short with the second die selected is the case this is about: the
first settings of the next start must not end up in that die for good.  `DriverImplementsPageFlash` (`ImplementsPageFlash`), the refinement, step
by step: `RunInv` says that the frames left are the last ones of the operation's list,
that its die is selected by then, enabled for writing and, before PROGRAM EXECUTE, has
the data in the cache of the right plane; `OpenInv` where a line is left active;
`JobInv` that a die that works does so for the operation that runs or that a reset has
interrupted.  That frames for one row reach one page of the abstract device, and an erase
the pages of one block, is arithmetic on addresses (lemmas `Pages`, `SamePage`,
`SameBlock`).

*NetProofs, the driver.*  `FlushedBeforeHandOver` (`NothingStaleSent`); what the
cache holds may reach memory at any time, so `NewInv` says the same of the cache.  `RingIsFifo`
proves the refinement of `PacketFifo` step by step; `RingInv` says that for some
`n` the controller has filled the `n` descriptors from the driver's index on and owns the
rest, but for the one whose frame the stack works on (`Filled(n)`), whether the ring is
empty, full or wraps.

*NetProofs, the multicast upgrade.*  `InstalledImageIsWhole` (`OnlyWholeImageInstalled`) without a
hypothesis: `SessionInv` says that a session that succeeded has the announced length and
lies within the buffer; that the checksum over it is the announced one then makes it one
tool's image, for images told apart by their checksums (`MulticastAssumption`).  `SuccessIsReceived` (`SuccessMeansReceived`)
under `ImagesFit`, every image has fewer frames than flags: at the limit of 10 MB that the
comment at `multicast_upgrade.c:77` gives, the last frame's flag would be the byte behind
the array.  The theorem says that every place of the announced image holds a frame stored
in this session.  It does not say of which image: a data frame's checksum is never
compared (section 5).  `FlagsFresh`: where a flag is set, the buffer holds a frame of this
session.

*DualImageProofs.*  `ActiveAlwaysRunning`, `TrialNeverRepeated`, `UpgradeLeavesAnImage`
(`SomeImageWhole`) and `DoneIsInstalled`.  `DualInv` relates the environment in memory to
the stored one (`EnvInv`), says that the steps left of an upgrade come in pairs of erase
and write (`Paired`), that a part which is not whole is the one the next step writes
(`WholeInv`), that a part which is not yet the new version still has its write ahead
(`TarInv`), and that the version's buffer holds, beside the text of this archive, only
ends of longer texts copied since the start (`VerInv`).  `DoneMeansInstalled` claims the
recorded version only for archives that name it, in fewer characters than the buffer has,
when none since the start named a longer one; without any of these it is false.

Only model-checked, and why:

- liveness (`Terminates`, `InstructionCompletes`, `InitReturns`, `TransferEnds`,
  `DeviceBoots`, `EndsUpWorking`, `OperationsEnd`, `ReceivesAgain`, `QueuedIsSent`): the
  installed provers do neither fairness nor `ENABLED`;
- `FlashIsPrefix` for a sender that repeats early (above);
- the violations of section 5, which are behaviours of an instance.

All other properties of the runs are stated by a theorem.

## 5. Findings

With a run:

1. `spi_nand_uboot_bringup.c:29` compares the status with `ECC_CTRL_ERR`, but the status
   of a failed page has the failed sectors in its low byte: the test is never true.
2. `snaf_driver_wrapper.c:36`: without a good block left, `get_good_block` leaves the
   address as it is and nobody looks at its result, so erasing the last logical blocks
   erases physical blocks that other logical addresses are mapped to.
3. `cli_xmodem_nand.c:162` subtracts in `int`, so after packet 255 a repeat of it is not
   recognised.  A sender that repeats without a limit keeps the receiver in the loop; one
   that gives up leaves the board with erased boot blocks.  At 128 bytes a packet an
   image passes number 255 after 32 KB.

Met while modelling, without a run; the properties that would fail are stated so that
they exclude these cases by name, or are not stated (hazards without a property in
`PROJECT.json` are among them):

- `bchenc/main.cpp:335` computes the number of chunks without the header it writes, so
  the last page of some images is not loaded (`HeaderSizeLoaded` is checked for images
  that bring their header).
- `ab_tlb_isr.S:87` masks the page number with the number of TLB entries, half of the
  pages they can map; areas between the two sizes pass the check of `mmu_drv_init`.
  The released image is small enough (`AreaFits`).
- `mmu_drv.c:311` computes a page's new list from a field that is never updated, so a
  touch ("increase the weight") always moves the page to list 1.
- `ab_spi_nand_util.c:98`: the end-of-copy test of `nsu_init` gives up before the end of
  the last copy when a skipped bad block shifts the copies against the page count, or
  when no ordinary page before the last copy is readable.
- `cli_xmodem_nand.c:131` returns, and `:242` prints, a length that includes bytes of an
  incomplete last page, which are never written.  Images of `bchenc` are whole pages.
- `snaf_driver_wrapper.c:485` reports an uncorrectable page on the console and returns
  success; `doc/README.nand:45` says the read command stops with an error.
- `snaf_driver_wrapper.c:612`: a block that is marked bad shifts, at the next start, all
  logical blocks behind it, so images written there before the mark are not found
  (`ImageReadsBack` leaves them out from the mark on).
- `cmd_upvmimg.c:200` compares an image with its partition, but the write goes on behind
  the partition's end when blocks in it are marked bad.
- `multicast_upgrade.c:349`: the large-firmware build can finish before any announcement
  came, with an image of length 0.  `:227` accepts frame number `FWSIZE`, whose flag is
  the byte behind the array.  `:305`: an announcement that differs from the first one
  is refused, but its list of partitions replaces the first one's.  `:332`: the checksum
  that a data frame carries is not compared with the announced one, so frames of two
  images mix in the buffer; only the checksum over the whole, after the session, tells.
- `cmd_upimgtar.c:661` reports "Done" and records the new version although an erase or
  write failed; `:565` finds a root file system too large after the kernels are replaced;
  a part that the archive lacks is erased all the same.  `:105`, `:175`: the version's
  buffer is copied to without a terminator and no command resets it, so an archive
  without a version is recorded with an earlier one's, a shorter version with the end of a
  longer one behind it, and one that fills the buffer with whatever lies behind the
  buffer.  `cmd_upvmimg.c:870` removes the
  recorded versions without saving the environment.
- The on-die ECC of the chips and dies of one device can end up different.  The probe
  enables and `init_rest` disables it for a W25N04KV (`spi_nand_winbond.c:366`, `:425`),
  and the two functions of MXIC (`spi_nand_mxic.c:304`, `:360`) and GD
  (`spi_nand_gd.c:461`, `:495`) disagree likewise; `spi_nand_micron.c:316` disables that of
  the second die, which `:352` enabled on the first.  `DiesSetUp` therefore claims what
  the functions ask for, and not that all are alike.
- The `init_rest` functions refuse a chip whose identification differs; those of Winbond
  (`spi_nand_winbond.c:415`), Micron (`:372`), ATO (`:191`), ESMT (`:334`) and Etron
  (`:193`) join the tests of maker and device with `&&`, the others with `||`, so that one
  of them takes another maker's chip with the same device number for its own and its
  settings are used.  The model takes the right function.
- `re8670poll.c:387`: the wait for the end of a transmission is disabled
  (`doc/README.drivers.eth:138`: "You should not return until the transmission is
  complete"), and all frames are composed in one buffer: a queued frame can be
  overwritten by the next one before it is sent.  `NothingStaleSent` therefore allows
  later contents.

## 6. Not modelled, and the plan

- *Authenticated boot*: a fixed sequence around the signature check.  With the
  cryptography as an oracle no step of another actor or fault could reorder it.  Its
  search for the signature block ends at the first unreadable page
  (`ab_spi_nand_uboot_bringup_crypto.c:49`).
- *Command line*, *flash layout configuration*: sequential text handling.
- *NOR driver, NOR loader, NOR variant of the updater*: a memory-mapped copy and register
  sequences without search or retry.
- *Start-up sequence*: a merge of two sorted tables of functions.
- Of the modelled parts: registers, quad modes and tables of the other makers in the SPI NAND driver,
  switch and PHY set-up of the Ethernet driver, uboot, environment and OSGi parts of
  an upgrade, the UBI builds of the upgrade commands, option parsing and BCH encoding of `bchenc`.  Stores to mapped pages end in
  an endless loop in the handler; the mapped area holds only code and constants.
- Upstream U-Boot, the libraries (lightsodium, LZMA), DRAM calibration, register maps
  and released binaries: third-party, generated or data.

Proofs that are left: the liveness properties, with a prover for fairness; an order of
the XMODEM pages for early repeats below the retry limit; and, under assumptions weaker
than `EnoughAsids`, the sharp bound for `LoadForcesRefill`.
