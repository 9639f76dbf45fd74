------------------------------ MODULE Multicast ------------------------------
(***************************************************************************)
(* The multicast upgrade of U-Boot: before it boots, the device listens    *)
(* for an image that a tool sends round and round to all devices on the    *)
(* line (board/realtek/common/multicast_upgrade.c, run by net_loop).       *)
(*                                                                         *)
(* The tool sends announcements (INFO), numbered data frames and           *)
(* alive messages without waiting for answers.  Frames are lost, repeated, *)
(* reordered and damaged, and a second tool may be sending another image:  *)
(* so at any time any frame of any of the images may arrive.               *)
(*                                                                         *)
(* Lengths are counted in frames.  An image is its checksum, its number of *)
(* frames, the partitions its announcement lists, and whether its format   *)
(* is one of the two that can be installed.  Frame k of an image is the    *)
(* pair of the image's checksum and k; checksums do not collide.           *)
(***************************************************************************)
EXTENDS Integers, Sequences, FiniteSets

CONSTANTS
    Images,         \* what the tools on the line send
    FWSIZE,         \* size of the array of flags
    Builds,         \* with and without CONFIG_UPGRADE_LARGE_FIRMWARE
    TimeoutMax,     \* mcastUpgradeTimeoutCountMax
    Environments,   \* what netretry and ethrotate say, and how many devices there are
    TryMax          \* bound: attempts are counted up to here, beyond every limit on them

PartitionTypes == {"kernel", "bootloader", "conf"}

ASSUME MulticastAssumption ==
    /\ Images \subseteq [crc : Nat, len : Nat \ {0}, known : BOOLEAN,
                         parts : Seq(PartitionTypes)]
    /\ \A i, j \in Images : i.crc = j.crc => i = j
    /\ FWSIZE \in Nat \ {0}
    /\ Builds \subseteq BOOLEAN
    /\ TimeoutMax \in Nat
    /\ TryMax \in Nat \ {0}
    /\ Environments \subseteq [yes : BOOLEAN, retrycnt : 0 .. TryMax - 1, devices : 0 .. TryMax - 1]

VARIABLES
    seqNumFlag,     \* the frames that have been received, by their number
    load_buf,       \* the memory at ImgLoadAddr
    total,          \* total_len and total_crc32 of the announced image
    parts,          \* partiton_info_array
    frame,          \* multicast_frame_start, _alive and _stop
    begin,          \* multicast_upgrade_begin
    count,          \* mcastUpgradeTimeoutCount
    pkt,            \* needPktCnt and recvValidPktCnt, and whether this build has them
    net_state,      \* "continue" or "success"
    size,           \* net_boot_file_size
    net_try_count,
    env,            \* the environment: netretry is "yes" or a number; devices is 0 when
                    \* ethrotate is "no"
    net_pc,         \* "loop" in net_loop, then "boot"
    flash,          \* what the last upgrade command was given, or <<>>
    fresh           \* history: the frames stored since multicast_start

session == <<total, frame, count>>
mcastVars == <<seqNumFlag, load_buf, parts, begin, pkt, net_state, size, net_try_count, env,
               net_pc, flash, fresh, session>>

\* The flag behind the end of the array stands for whatever lies there.
Seqs == 1 .. FWSIZE
Nothing == <<>>
Frame(i, k) == <<i.crc, k>>
Content(i) == [k \in 1 .. i.len |-> Frame(i, k)]
NoImage == [len |-> 0, crc |-> 0]

\* Mutant: it does nothing.
Freed_none(flags) == flags

\* multicastListFree: the memset stops at the end of the array.
Freed(flags) == [k \in Seqs |-> k = FWSIZE /\ flags[k]]

\* multicast_start: the flags, the packet counters and begin are left alone.
multicast_start ==
    /\ total' = NoImage
    /\ frame' = [start |-> FALSE, alive |-> FALSE, stop |-> FALSE]
    /\ count' = 0
    /\ net_state' = "continue"
    /\ size' = 0
    /\ fresh' = {}

McastInit ==
    /\ seqNumFlag = [k \in Seqs |-> FALSE]
    /\ load_buf = [k \in Seqs |-> Nothing]
    /\ total = NoImage
    /\ parts = <<>>
    /\ frame = [start |-> FALSE, alive |-> FALSE, stop |-> FALSE]
    /\ begin = FALSE
    /\ count = 0
    /\ \E large \in Builds : pkt = [large |-> large, need |-> 0, recv |-> 0]
    /\ net_state = "continue"
    /\ size = 0
    /\ net_try_count = 1
    /\ env \in Environments
    /\ net_pc = "loop"
    /\ flash = <<>>
    /\ fresh = {}

-----------------------------------------------------------------------------
(* processMultcastUpgrade, one action for each kind of frame.  rtl8676_recv *)
(* hands over one frame, and net_loop looks at its state before the next.   *)

Listening == net_pc = "loop" /\ net_state = "continue"

\* PrepareMulticastFrameLoadBuf: every frame of the announced image is there.
Integrity(flags) == \A k \in 1 .. total.len : k \in Seqs /\ flags[k]

\* finishFirmwareRecieve, with the flags as they are after this frame.
finishFirmwareRecieve(flags) ==
    IF Integrity(flags)
    THEN net_state' = "success" /\ size' = total.len /\ seqNumFlag' = Freed(flags)
    ELSE seqNumFlag' = flags /\ UNCHANGED <<net_state, size>>

\* A damaged frame, or a data frame that is there already, shows only that
\* somebody is sending.
RecvDropped ==
    /\ Listening
    /\ begin' = TRUE
    /\ UNCHANGED <<seqNumFlag, load_buf, parts, pkt, net_state, size, net_try_count, env,
                   net_pc, flash, fresh, session>>

\* The first announcement says what is expected; the same one again means that
\* the tool has sent everything.  Any other one leaves the expected image alone
\* but its list of partitions is taken.
RecvInfo(i) ==
    /\ Listening
    /\ begin' = TRUE
    /\ frame' = [frame EXCEPT !.start = TRUE]
    /\ LET known == total.len # 0 /\ total.crc # 0
           same  == total.len = i.len /\ total.crc = i.crc
       IN \/ /\ known /\ same
             /\ finishFirmwareRecieve(seqNumFlag)
             /\ UNCHANGED <<total, parts>>
          \/ /\ ~(known /\ same)
             /\ total' = IF known THEN total ELSE [len |-> i.len, crc |-> i.crc]
             /\ parts' = i.parts
             /\ UNCHANGED <<seqNumFlag, net_state, size>>
    /\ UNCHANGED <<load_buf, count, pkt, net_try_count, env, net_pc, flash, fresh>>

\* A data frame that is new.  The large build counts them and does not wait for
\* the second announcement; the count only has to equal the number needed, so
\* it stays where it is once it is larger.
RecvData(i, k) ==
    /\ Listening
    /\ k \in Seqs /\ ~seqNumFlag[k]
    /\ begin' = TRUE
    /\ load_buf' = [load_buf EXCEPT ![k] = Frame(i, k)]
    /\ fresh' = fresh \cup {Frame(i, k)}
    /\ LET flags == [seqNumFlag EXCEPT ![k] = TRUE]
           need  == IF pkt.need = 0 THEN i.len ELSE pkt.need
       IN \/ /\ ~pkt.large
             /\ seqNumFlag' = flags
             /\ UNCHANGED <<pkt, net_state, size>>
          \/ /\ pkt.large
             /\ pkt' = [pkt EXCEPT !.need = need,
                                 !.recv = IF @ > need THEN @ ELSE @ + 1]
             /\ IF pkt.recv + 1 = need
                THEN finishFirmwareRecieve(flags)
                ELSE seqNumFlag' = flags /\ UNCHANGED <<net_state, size>>
    /\ UNCHANGED <<parts, net_try_count, env, net_pc, flash, session>>

RecvAlive(on) ==
    /\ Listening
    /\ begin' = TRUE
    /\ frame' = [frame EXCEPT !.alive = on, !.stop = ~on]
    /\ UNCHANGED <<seqNumFlag, load_buf, total, count, parts, pkt, net_state, size,
                   net_try_count, env, net_pc, flash, fresh>>

-----------------------------------------------------------------------------
(* net_loop.                                                               *)

\* Mutant: attempts are not counted.
net_start_again_forever ==
    /\ net_pc' = net_pc
    /\ multicast_start
    /\ UNCHANGED net_try_count

\* eth_try_another goes to the next device: as many restarts as there are devices
\* lead back to the one that failed first.
net_restart_wrap == net_try_count = env.devices

\* net_start_again gives up, or starts the session once more.  When the devices
\* have all been tried it arms a timer, but net_loop still sees NETLOOP_FAIL and
\* leaves.
net_start_again ==
    \/ /\ ~env.yes /\ net_try_count > env.retrycnt
       /\ net_pc' = "boot"
       /\ UNCHANGED <<session, net_try_count, net_state, size, fresh>>
    \/ /\ env.yes \/ net_try_count <= env.retrycnt
       /\ net_try_count' = IF net_try_count < TryMax THEN net_try_count + 1 ELSE net_try_count
       /\ \/ /\ net_restart_wrap
             /\ net_pc' = "boot"
             /\ UNCHANGED <<session, net_state, size, fresh>>
          \/ /\ ~net_restart_wrap
             /\ net_pc' = net_pc
             /\ multicast_start

\* Something arrived in this period and the tool is known to be there; for
\* TimeoutMax periods at most.
KeepWaiting ==
    /\ count < TimeoutMax
    /\ begin
    /\ ~frame.stop
    /\ frame.start \/ frame.alive

\* Every 13 seconds; success disarms the timer.
mcastUpgradeTimeout ==
    /\ net_pc = "loop"
    /\ net_state = "continue"
    /\ \/ /\ KeepWaiting
          /\ count' = count + 1
          /\ begin' = FALSE
          /\ UNCHANGED <<seqNumFlag, total, frame, net_state, size, net_try_count, net_pc, fresh>>
       \/ /\ ~KeepWaiting
          /\ seqNumFlag' = Freed(seqNumFlag)
          /\ net_start_again
          /\ UNCHANGED begin
    /\ UNCHANGED <<load_buf, parts, pkt, env, flash>>

\* Ctrl-C.
Abort ==
    /\ net_pc = "loop"
    /\ net_pc' = "boot"
    /\ UNCHANGED <<seqNumFlag, load_buf, parts, begin, pkt, net_state, size, net_try_count,
                   env, flash, fresh, session>>

\* Mutant: the checksum is not compared.
ChecksumRight_ignored == TRUE

\* crc32 of the first total_len frames at ImgLoadAddr.
ChecksumRight ==
    \E i \in Images :
        /\ i.crc = total.crc
        /\ i.len = total.len
        /\ SubSeq(load_buf, 1, i.len) = Content(i)

\* The session ends with an image; autoboot_command calls multicast_stop when
\* it is not empty.  A listed kernel is written by upimgtar or upvmimg when its
\* first frame is the header of a known format; a bootloader runs whatever command is in the buffer, the
\* kernel's when one was listed before it.
multicast_stop ==
    /\ net_pc = "loop"
    /\ net_state = "success"
    /\ net_pc' = "boot"
    /\ LET img    == SubSeq(load_buf, 1, total.len)
           known  == \E i \in Images : i.known /\ load_buf[1] = Frame(i, 1)
           kernel == \E n \in 1 .. Len(parts) : parts[n] = "kernel"
       IN flash' = IF size > 0 /\ ChecksumRight /\ known /\ kernel THEN img ELSE flash
    /\ UNCHANGED <<seqNumFlag, load_buf, parts, begin, pkt, net_state, size, net_try_count,
                   env, fresh, session>>

McastNext ==
    \/ RecvDropped
    \/ \E i \in Images : RecvInfo(i)
    \/ \E i \in Images : \E k \in 1 .. i.len : RecvData(i, k)
    \/ \E on \in BOOLEAN : RecvAlive(on)
    \/ mcastUpgradeTimeout
    \/ Abort
    \/ multicast_stop

\* The timer runs out, and net_loop looks at its state after each poll.
McastSpec ==
    /\ McastInit
    /\ [][McastNext]_mcastVars
    /\ WF_mcastVars(mcastUpgradeTimeout)
    /\ WF_mcastVars(multicast_stop)

-----------------------------------------------------------------------------
(* Properties.                                                             *)

McastTypeOK ==
    /\ seqNumFlag \in [Seqs -> BOOLEAN]
    /\ \A k \in Seqs : load_buf[k] = Nothing \/ \E i \in Images : load_buf[k] = Frame(i, k)
    /\ total = NoImage \/ \E i \in Images : total = [len |-> i.len, crc |-> i.crc]
    /\ parts = <<>> \/ \E i \in Images : parts = i.parts
    /\ frame \in [start : BOOLEAN, alive : BOOLEAN, stop : BOOLEAN]
    /\ begin \in BOOLEAN
    /\ count \in 0 .. TimeoutMax
    /\ pkt \in [large : Builds, need : Nat, recv : Nat]
    /\ net_state \in {"continue", "success"}
    /\ size \in Nat
    /\ net_try_count \in 1 .. TryMax
    /\ env \in Environments
    /\ net_pc \in {"loop", "boot"}
    /\ \A x \in fresh : \E i \in Images : \E k \in Seqs : x = Frame(i, k)

\* When a session ends with success, every place of the announced image holds a
\* frame that was stored in this session: neither a flag nor contents that an
\* earlier session left behind stand for a frame that never came.  The frames are
\* told apart by their numbers only: the code never compares the checksum a data
\* frame carries with the announced one, so another tool's frame may be in that
\* place, and only the checksum over the whole tells (processMultcastUpgrade,
\* PrepareMulticastFrameLoadBuf, multicast_start).
SuccessMeansReceived ==
    net_state = "success" => \A k \in 1 .. size : load_buf[k] \in fresh

\* What is handed to the upgrade commands is one whole image that some tool
\* sent and whose format is known, whatever mixture of frames arrived.
OnlyWholeImageInstalled ==
    flash # <<>> => \E i \in Images : i.known /\ flash = Content(i)

\* The operator asked for endless attempts on one device.
AskedForEver == env.yes /\ env.devices = 0

\* The device boots in the end, whatever keeps arriving, unless the environment
\* says that it shall try for ever (mcastUpgradeTimeout, net_start_again).
DeviceBoots == <>(net_pc = "boot" \/ AskedForEver)
=============================================================================
