------------------------------- MODULE Xmodem -------------------------------
(***************************************************************************)
(* The preloader's XMODEM updater (swp/cli/cli_xmodem_nand.c): it erases   *)
(* the boot blocks, receives the new image packet by packet over the       *)
(* serial line, and writes and verifies a page whenever enough bytes are   *)
(* there.                                                                  *)
(*                                                                         *)
(* The sender is the terminal program at the other end, modelled by what   *)
(* the protocol asks of it: one packet at a time, repeated until it is     *)
(* acknowledged.  The line is a queue in each direction; packets and       *)
(* answers are lost or damaged, and a packet may lose its first byte so    *)
(* that the receiver takes its contents for commands.                      *)
(*                                                                         *)
(* Bytes are grouped into units: a packet carries PktUnits of them, a page *)
(* with its spare area PageUnits (2112 is no multiple of 128 or 1024).     *)
(* Unit u of the file is the number u; padding is 0.  The checksum mode    *)
(* follows from the character the sender saw and is left out.              *)
(***************************************************************************)
EXTENDS Integers, Sequences, FiniteSets

CONSTANTS
    FileUnits,      \* length of the image sent
    PktUnits,       \* units in a packet
    PageUnits,      \* units in a page: page_size_with_spare
    PagesPerBlock,  \* 64
    EraseBlocks,    \* MAX_ERASE_BLK_INDEX + 1
    NumBlocks,      \* blocks of the device that a transfer can reach
    SeqMod,         \* 256: packet numbers are unsigned char
    MAXRETRANS,     \* 25
    MaxRetry,       \* 16: the bound of the loop that waits for a packet
    Lines,          \* the lines looked at: sets of kinds of faults
    MaxFaults       \* bound: how often something goes wrong

AllFaults == {"loss", "damage", "headless", "early", "cancel", "write"}

\* A packet is not longer than a page, and the blocks the image can be moved to
\* behind bad ones exist.
ASSUME XmodemAssumption ==
    /\ FileUnits \in Nat \ {0}
    /\ PktUnits \in Nat \ {0}
    /\ PageUnits \in Nat
    /\ PktUnits <= PageUnits
    /\ PagesPerBlock \in Nat \ {0}
    /\ EraseBlocks \in Nat \ {0}
    /\ NumBlocks \in Nat
    /\ NumBlocks >= 2 * EraseBlocks
    /\ SeqMod \in Nat
    /\ SeqMod >= 3
    /\ MAXRETRANS \in Nat \ {0}
    /\ MaxRetry \in Nat \ {0}
    /\ Lines \subseteq SUBSET AllFaults
    /\ MaxFaults \in Nat

VARIABLES
    flash,        \* contents of the pages
    bbi_table,    \* the blocks marked bad by erase_blocks
    phase,        \* "erase", "receive", "end"
    ret,          \* result of cli_xmodemReceive; 0 while it runs
    trychar,      \* "C", "NAK" or "none"
    retry,        \* loop counter of the wait
    packetno,     \* the number expected next
    retrans,
    buf,          \* w_buf: the units not written yet
    len,          \* units received
    flash_dest,   \* page to be written next
    toRecv,       \* messages on their way to the receiver
    toSend,       \* characters on their way to the sender
    cur,          \* the packet the sender is at; Packets: it is at EOT
    sender,       \* "start", "await", "done"
    faults        \* the kinds of faults of this line, and how many there were

flashVars == <<flash, bbi_table, flash_dest>>
recvVars  == <<phase, ret, trychar, retry, packetno, retrans, buf, len>>
lineVars  == <<toRecv, toSend>>
sendVars  == <<cur, sender>>
vars == <<flashVars, recvVars, lineVars, sendVars, faults>>

Blocks == 0 .. NumBlocks - 1
Addrs  == 0 .. NumBlocks * PagesPerBlock - 1
Block(a) == a \div PagesPerBlock

\* esz_Byte, the destsz of cli_xmodemReceive.
destsz == EraseBlocks * PagesPerBlock * PageUnits

Packets == (FileUnits + PktUnits - 1) \div PktUnits

\* Unit u of what the sender sends.
Unit(u) == IF u <= FileUnits THEN u ELSE 0

\* The units from .. from + n - 1.
Units(from, n) == [i \in 1 .. n |-> Unit(from + i - 1)]

Blank == <<>>       \* an erased page
Old   == <<-1>>     \* what was there before
Junk  == <<-2>>     \* a page that was not written correctly

\* Results: the sender's cancellation, no synchronisation, too many repeats,
\* a page that does not read back, and len at the normal end.
CANCELED == -1
SYNC_ERROR == -2
RETRY_ERROR == -3
VERIFY_ERROR == -100

Data(k) == [kind |-> "data", k |-> k]
Msg(kind) == [kind |-> kind, k |-> 0]

Init ==
    /\ \E used \in SUBSET Blocks :
          flash = [a \in Addrs |-> IF Block(a) \in used THEN Old ELSE Blank]
    /\ bbi_table = {}
    /\ phase = "erase"
    /\ ret = 0
    /\ trychar = "C"
    /\ retry = 0
    /\ packetno = 1
    /\ retrans = MAXRETRANS
    /\ buf = <<>>
    /\ len = 0
    /\ flash_dest = 0
    /\ toRecv = <<>>
    /\ toSend = <<>>
    /\ cur = 0
    /\ sender = "start"
    /\ \E kinds \in Lines : faults = [kinds |-> kinds, n |-> 0]

-----------------------------------------------------------------------------
\* Faults of the line and of the flash.

Fault(kind) ==
    /\ kind \in faults.kinds
    /\ faults.n < MaxFaults
    /\ faults' = [faults EXCEPT !.n = @ + 1]

\* The ways an answer q reaches the other end: in time or not at all.  Before the
\* sender is started nobody keeps the characters.
Answer(q) ==
    \/ /\ toSend' = IF sender = "start" THEN <<q>> ELSE Append(toSend, q)
       /\ UNCHANGED faults
    \/ UNCHANGED toSend /\ Fault("loss")

\* The ways a message m reaches the receiver behind those in queue.
Transmit(queue, m) ==
    \/ toRecv' = Append(queue, m) /\ UNCHANGED faults
    \/ toRecv' = queue /\ Fault("loss")
    \/ m.kind = "data" /\ toRecv' = Append(queue, Msg("damaged")) /\ Fault("damage")
    \/ m.kind = "data" /\ toRecv' = Append(queue, Msg("headless")) /\ Fault("headless")

-----------------------------------------------------------------------------
\* The sender.

\* The packet at hand, or EOT behind the last.
Current(k) == IF k < Packets THEN Data(k) ELSE Msg("EOT")

\* The user starts the transfer; the sender answers a character of the receiver.
SenderStarts ==
    /\ sender = "start"
    /\ toSend # <<>>
    /\ Head(toSend) \in {"C", "NAK"}
    /\ toSend' = <<>>
    /\ sender' = "await"
    /\ Transmit(toRecv, Current(0))
    /\ UNCHANGED <<flashVars, recvVars, cur>>

\* An acknowledgement: the next packet, or the end.
SenderAcked ==
    /\ sender = "await"
    /\ toSend # <<>>
    /\ Head(toSend) = "ACK"
    /\ toSend' = Tail(toSend)
    /\ IF cur = Packets
       THEN sender' = "done" /\ UNCHANGED <<cur, toRecv, faults>>
       ELSE /\ cur' = cur + 1
            /\ Transmit(toRecv, Current(cur + 1))
            /\ UNCHANGED sender
    /\ UNCHANGED <<flashVars, recvVars>>

\* A request to repeat; the receiver's first character asks again for a first
\* packet that did not arrive.
SenderNaked ==
    /\ sender = "await"
    /\ toSend # <<>>
    /\ Head(toSend) \in {"NAK", "C"}
    /\ toSend' = Tail(toSend)
    /\ Transmit(toRecv, Current(cur))
    /\ UNCHANGED <<flashVars, recvVars, sendVars>>

\* No answer: the sender repeats.
SenderTimeout ==
    /\ sender = "await"
    /\ phase # "end"
    /\ toSend = <<>>
    /\ toRecv = <<>>
    /\ Transmit(toRecv, Current(cur))
    /\ UNCHANGED <<flashVars, recvVars, toSend, sendVars>>

\* The sender repeats although the packet or its answer is only late.
SenderTooEarly ==
    /\ sender = "await"
    /\ phase # "end"
    /\ toSend # <<>> \/ toRecv # <<>>
    /\ Fault("early")
    /\ toRecv' = Append(toRecv, Current(cur))
    /\ UNCHANGED <<flashVars, recvVars, toSend, sendVars>>

\* The user cancels; of the two CAN characters one may be lost.
SenderCancels ==
    /\ sender = "await"
    /\ phase # "end"
    /\ Fault("cancel")
    /\ \E kind \in {"CAN CAN", "CAN"} : toRecv' = Append(toRecv, Msg(kind))
    /\ sender' = "done"
    /\ UNCHANGED <<flashVars, recvVars, toSend, cur>>

-----------------------------------------------------------------------------
\* cli_xmodem_2_nand: erase_blocks

\* Blocks that cannot be erased, or still carry a mark afterwards, are bad; the
\* others are blank.  With no good block the updater stops in SWBREAK.
erase_blocks ==
    /\ phase = "erase"
    /\ \E bad \in SUBSET (0 .. EraseBlocks - 1) :
          /\ bbi_table' = bad
          /\ flash' = [a \in Addrs |->
                         IF Block(a) < EraseBlocks /\ Block(a) \notin bad THEN Blank ELSE flash[a]]
          /\ IF bad = 0 .. EraseBlocks - 1
             THEN phase' = "end" /\ UNCHANGED toSend
             ELSE phase' = "receive" /\ toSend' = <<trychar>>
    /\ UNCHANGED <<flash_dest, ret, trychar, retry, packetno, retrans, buf, len,
                   toRecv, sendVars, faults>>

-----------------------------------------------------------------------------
\* cli_xmodemReceive

\* The receiver returns r; SYSTEM_RESET follows, so the characters it sends on the way
\* out and the input it flushes are left out.
Return(r) == ret' = r /\ phase' = "end"

\* A round of the wait without a packet.  The character is sent again, then NAK
\* instead of C; without a character, or after both, the receiver gives up.
NextTry ==
    LET again == retry + 1 < MaxRetry
        char == IF again THEN trychar ELSE "NAK"
    IN IF again \/ trychar = "C"
       THEN /\ trychar' = char
            /\ retry' = IF again THEN retry + 1 ELSE 0
            /\ IF char = "none" THEN UNCHANGED <<toSend, faults>> ELSE Answer(char)
            /\ UNCHANGED <<ret, phase>>
       ELSE /\ Return(SYNC_ERROR)
            /\ UNCHANGED <<trychar, retry, toSend, faults>>

\* _inbyte times out: nothing is on its way, or nobody is there.
WaitTimesOut ==
    /\ phase = "receive"
    /\ toRecv = <<>>
    /\ toSend = <<>> \/ sender # "await"
    /\ NextTry
    /\ UNCHANGED <<flashVars, packetno, retrans, buf, len, toRecv, sendVars>>

Receiving(kind) == phase = "receive" /\ toRecv # <<>> /\ Head(toRecv).kind = kind

\* EOT: the input is flushed and the length returned.
GetEOT ==
    /\ Receiving("EOT")
    /\ Return(len)
    /\ toRecv' = <<>>
    /\ Answer("ACK")
    /\ UNCHANGED <<flashVars, trychar, retry, packetno, retrans, buf, len, sendVars>>

\* Two CAN characters end the transfer, a single one is ignored.
GetCANs ==
    /\ Receiving("CAN CAN")
    /\ Return(CANCELED)
    /\ toRecv' = <<>>
    /\ UNCHANGED <<flashVars, trychar, retry, packetno, retrans, buf, len, toSend,
                   sendVars, faults>>

GetCAN ==
    /\ Receiving("CAN")
    /\ toRecv' = Tail(toRecv)
    /\ NextTry
    /\ UNCHANGED <<flashVars, packetno, retrans, buf, len, sendVars>>

\* reject: flush, NAK, and wait again.
Reject ==
    /\ trychar' = "none"
    /\ retry' = 0
    /\ toRecv' = <<>>
    /\ Answer("NAK")
    /\ UNCHANGED <<flashVars, phase, ret, packetno, retrans, buf, len, sendVars>>

GetDamaged == Receiving("damaged") /\ Reject

\* The bytes of a packet without its first byte are taken for commands: sixteen
\* that mean nothing end the wait (and both waits of the start), one may look
\* like EOT or a start byte, two like CAN.
GetHeadless ==
    /\ Receiving("headless")
    /\ \/ Reject
       \/ /\ \E r \in {SYNC_ERROR, CANCELED, len} : Return(r)
          /\ toRecv' = <<>>
          /\ UNCHANGED <<flashVars, trychar, retry, packetno, retrans, buf, len, toSend,
                         sendVars, faults>>

\* The number in the header of packet k.
Number(k) == (k + 1) % SeqMod

\* Mutant: the packet before the expected one is not recognised.
NeverRepeated(k) == FALSE

\* xbuff[1] == (unsigned char)packetno-1: the subtraction is done in int.
IsRepeated(k) == Number(k) = packetno - 1

\* Mutant: a repeated packet is taken for the next one.
IsNextOrRepeated(k) == Number(k) = packetno \/ IsRepeated(k)

IsNext(k) == Number(k) = packetno

\* A packet that is neither the expected nor the one before it.
GetOther ==
    /\ Receiving("data")
    /\ ~IsNext(Head(toRecv).k)
    /\ ~IsRepeated(Head(toRecv).k)
    /\ Reject

\* A repeated packet is acknowledged again, up to MAXRETRANS times.
GetRepeated ==
    /\ Receiving("data")
    /\ ~IsNext(Head(toRecv).k)
    /\ IsRepeated(Head(toRecv).k)
    /\ retrans' = retrans - 1
    /\ trychar' = "none"
    /\ retry' = 0
    /\ IF retrans - 1 <= 0
       THEN /\ Return(RETRY_ERROR)
            /\ toRecv' = <<>>
            /\ UNCHANGED <<toSend, faults>>
       ELSE /\ toRecv' = Tail(toRecv)
            /\ Answer("ACK")
            /\ UNCHANGED <<ret, phase>>
    /\ UNCHANGED <<flashVars, packetno, buf, len, sendVars>>

\* while(bbi_table[flash_dest>>6]) flash_dest++
NextGood(a) ==
    CHOOSE b \in Addrs :
        /\ b >= a
        /\ Block(b) \notin bbi_table
        /\ \A c \in a .. b - 1 : Block(c) \in bbi_table

\* Mutant: a page is written when more than its bytes are there.
MoreThanPage(b) == Len(b) > PageUnits

PageFull(b) == Len(b) >= PageUnits

\* Mutant: the room left on the flash is not looked at.
UnlimitedCount == PktUnits

\* count: what still fits into destsz.
Count == IF destsz - len < PktUnits THEN destsz - len ELSE PktUnits

\* What is in the buffer once packet k has been copied to it.
Received(k) == buf \o Units(k * PktUnits + 1, Count)

\* ++packetno
NextNumber(n) == (n + 1) % SeqMod

\* The expected packet: its units are stored, the answer is ACK.
Accept ==
    /\ len' = len + Count
    /\ packetno' = NextNumber(packetno)
    /\ retrans' = MAXRETRANS
    /\ trychar' = "none"
    /\ retry' = 0
    /\ toRecv' = Tail(toRecv)
    /\ UNCHANGED <<phase, ret, bbi_table, sendVars>>

GetNext(k) == Receiving("data") /\ Head(toRecv) = Data(k) /\ IsNext(k)

\* No page is complete yet, or nothing fits any more.
GetPart ==
    \E k \in 0 .. Packets - 1 :
        /\ GetNext(k)
        /\ ~PageFull(Received(k))
        /\ buf' = Received(k)
        /\ Accept
        /\ Answer("ACK")
        /\ UNCHANGED <<flash, flash_dest>>

\* A page is complete: it is written and reads back as it should.
GetPage ==
    \E k \in 0 .. Packets - 1 :
        LET b == Received(k)
            a == NextGood(flash_dest)
        IN /\ GetNext(k)
           /\ PageFull(b)
           /\ flash[a] = Blank
           /\ flash' = [flash EXCEPT ![a] = SubSeq(b, 1, PageUnits)]
           /\ flash_dest' = a + 1
           /\ buf' = SubSeq(b, PageUnits + 1, Len(b))
           /\ Accept
           /\ Answer("ACK")

\* A page that was not erased, or fails, does not read back: the receiver
\* returns at once.
GetBadPage ==
    \E k \in 0 .. Packets - 1 :
        LET a == NextGood(flash_dest)
        IN /\ GetNext(k)
           /\ PageFull(Received(k))
           /\ \/ flash[a] # Blank /\ UNCHANGED faults
              \/ flash[a] = Blank /\ Fault("write")
           /\ flash' = [flash EXCEPT ![a] = Junk]
           /\ flash_dest' = a
           /\ buf' = Received(k)
           /\ Return(VERIFY_ERROR)
           /\ trychar' = "none"
           /\ retry' = 0
           /\ toRecv' = Tail(toRecv)
           /\ UNCHANGED <<bbi_table, packetno, retrans, len, toSend, sendVars>>

-----------------------------------------------------------------------------
Sender == SenderStarts \/ SenderAcked \/ SenderNaked \/ SenderTimeout

Receiver ==
    \/ erase_blocks
    \/ WaitTimesOut
    \/ GetEOT
    \/ GetCANs
    \/ GetCAN
    \/ GetDamaged
    \/ GetHeadless
    \/ GetOther
    \/ GetRepeated
    \/ GetPart
    \/ GetPage
    \/ GetBadPage

Next == Receiver \/ Sender \/ SenderTooEarly \/ SenderCancels

\* The receiver is the only program on its side and waits with time-outs; a
\* sender that was started answers or repeats.
Spec == Init /\ [][Next]_vars /\ WF_vars(Receiver) /\ WF_vars(Sender)

-----------------------------------------------------------------------------
\* Characters the receiver sends.
Chars == {"C", "NAK", "ACK"}

\* The pages written and verified.
WrittenPages == {a \in 0 .. flash_dest - 1 : Block(a) \notin bbi_table}

\* The variables keep the types the code and the protocol give them.
TypeOK ==
    /\ flash \in [Addrs -> Seq(Int)]
    /\ bbi_table \subseteq 0 .. EraseBlocks - 1
    /\ flash_dest \in 0 .. NumBlocks * PagesPerBlock
    /\ phase \in {"erase", "receive", "end"}
    /\ ret \in {CANCELED, SYNC_ERROR, RETRY_ERROR, VERIFY_ERROR} \cup Nat
    /\ trychar \in {"C", "NAK", "none"}
    /\ retry \in 0 .. MaxRetry - 1
    /\ packetno \in 0 .. SeqMod - 1
    /\ retrans \in 0 .. MAXRETRANS
    /\ buf \in Seq(Int)
    /\ len \in Nat
    /\ toRecv \in Seq([kind : {"data", "EOT", "CAN CAN", "CAN", "damaged", "headless"},
                       k : Nat])
    /\ toSend \in Seq(Chars)
    /\ cur \in 0 .. Packets
    /\ sender \in {"start", "await", "done"}
    /\ faults \in [kinds : Lines, n : 0 .. MaxFaults]

\* Whatever is lost, damaged, repeated or late, the pages written are the first
\* pages of the file, in order, without gap or repetition, and none of them is in
\* a block found bad.
FlashIsPrefix ==
    \A a \in WrittenPages :
        flash[a] = Units(Cardinality({b \in WrittenPages : b < a}) * PageUnits + 1, PageUnits)

\* bbi_table has eight entries for four erased blocks: the search for a good block
\* stays inside it although bad blocks move the destination on without a limit.
LookupsInTable == flash_dest <= 2 * EraseBlocks * PagesPerBlock

\* Full pages among what the sender has to send and the flash has room for.
FullPages ==
    LET all == Packets * PktUnits
    IN (IF all < destsz THEN all ELSE destsz) \div PageUnits

\* A line that loses and damages packets and answers, but shows the receiver no
\* packet without its first byte, and a sender that waits for its time-out.
Orderly == faults.kinds \cap {"early", "headless"} = {}

\* A transfer that ends normally has written every full page of the image, also
\* when pages went behind the erased blocks because some of these are bad.
SuccessMeansWritten ==
    (phase = "end" /\ ret > 0 /\ Orderly) => Cardinality(WrittenPages) = FullPages

\* The last packet before the packet number wraps arrives once more.
RepeatedAtWrap ==
    Receiving("data") /\ packetno = 0 /\ Number(Head(toRecv).k) = SeqMod - 1

\* A sender that repeats until it is answered, over a line that fails finitely
\* often, does not keep the updater receiving forever: a repeated packet is
\* acknowledged, and "too many retry error" (cli_xmodem_nand.c:195) ends the
\* transfer otherwise.  The one packet that is not recognised as a repeated one
\* is left out here, see RepeatsEnd.
TransferEnds == Orderly => <>(phase = "end" \/ RepeatedAtWrap)

\* The same for every packet.
RepeatsEnd == Orderly => <>(phase = "end")
=============================================================================
