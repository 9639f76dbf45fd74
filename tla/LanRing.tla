------------------------------- MODULE LanRing -------------------------------
(***************************************************************************)
(* The polled Ethernet driver of U-Boot (arch/otto/mach-rtl9603cvd/eth,    *)
(* re8670poll.c and luna_eth.c) and the network controller (NIC) beside    *)
(* it.  They share two rings of descriptors in memory; the OWN bit of a    *)
(* descriptor says whose it is.                                            *)
(*                                                                         *)
(* Receiving, the driver keeps the descriptor of the frame it handed to    *)
(* the stack and gives it back with the next frame.  Sending, it queues    *)
(* the one buffer of the stack, net_tx_packet, and does not wait for the   *)
(* NIC; the NIC reads memory, the processor writes through its data cache. *)
(*                                                                         *)
(* The NIC (external) is what the driver expects of it: it works through   *)
(* the rings in order, stops receiving with the flag RDU when it finds no  *)
(* descriptor of its own, and stops sending until it is triggered again.   *)
(***************************************************************************)
EXTENDS Integers, Sequences

CONSTANTS
    RX_DESC_NUM, TX_DESC_NUM,
    Data,       \* the contents of frames
    Empty       \* no frame

ASSUME LanAssumption ==
    /\ RX_DESC_NUM \in Nat \ {0, 1}
    /\ TX_DESC_NUM \in Nat \ {0}
    /\ Data # {}
    /\ Empty \notin Data

VARIABLES
    Lan_Initialed,
    link,           \* ports and CPU port are up
    rx,             \* pRxBDPtr: OWN, and the contents of the buffer
    RxCDO, rdu,     \* the NIC's place in this ring, and its flag
    rxBDtail, first_in,
    pc,             \* where the CPU is: "off", "loop", in Lan_Receive, "process"
    tx,             \* pTxBDPtr: OWN
    TxCDO, trigger, \* the NIC's place, and whether it is sending
    txBDtail,
    sending,        \* the CPU is in Lan_Transmit
    cache, mem,     \* net_tx_packet, as the CPU and as the NIC sees it
    since           \* history: what has been in net_tx_packet since a frame
                    \* was queued in a descriptor

rxVars == <<rx, RxCDO, rdu, rxBDtail, first_in>>
txVars == <<tx, TxCDO, trigger, txBDtail, sending>>
bufVars == <<cache, mem, since>>
vars == <<Lan_Initialed, link, pc, rxVars, txVars, bufVars>>

RxDescs == 0 .. RX_DESC_NUM - 1
TxDescs == 0 .. TX_DESC_NUM - 1

Init ==
    /\ Lan_Initialed = FALSE
    /\ link = FALSE
    /\ rx = [i \in RxDescs |-> [own |-> FALSE, buf |-> Empty]]
    /\ RxCDO = 0 /\ rdu = FALSE
    /\ rxBDtail = 0 /\ first_in = TRUE
    /\ pc = "off"
    /\ tx = [i \in TxDescs |-> FALSE]
    /\ TxCDO = 0 /\ trigger = FALSE
    /\ txBDtail = 0 /\ sending = FALSE
    /\ cache = Empty /\ mem = Empty
    /\ since = [i \in TxDescs |-> {}]

-----------------------------------------------------------------------------
(* Sessions of net_loop.                                                   *)

\* Lan_Initialize sets the rings up once: a later session finds them, and the
\* frames in them, as the earlier one left them.
Lan_Initialize ==
    \/ /\ Lan_Initialed
       /\ UNCHANGED <<Lan_Initialed, rxVars, txVars>>
    \/ /\ ~Lan_Initialed
       /\ Lan_Initialed' = TRUE
       /\ rx' = [i \in RxDescs |-> [own |-> TRUE, buf |-> Empty]]
       /\ RxCDO' = 0 /\ rdu' = FALSE
       /\ rxBDtail' = 0
       /\ tx' = [i \in TxDescs |-> FALSE]
       /\ TxCDO' = 0 /\ trigger' = FALSE
       /\ txBDtail' = 0
       /\ UNCHANGED <<first_in, sending>>

eth_init ==
    /\ pc = "off"
    /\ Lan_Initialize
    /\ link' = TRUE
    /\ pc' = "loop"
    /\ UNCHANGED bufVars

\* rtl8676_halt takes the links down; the NIC and the rings stay as they are.
\* net_start_again also halts and starts inside a handler: with nothing of the driver
\* in between, that is a NIC that pauses.
eth_halt ==
    /\ pc = "loop" /\ ~sending
    /\ link' = FALSE
    /\ pc' = "off"
    /\ UNCHANGED <<Lan_Initialed, rxVars, txVars, bufVars>>

-----------------------------------------------------------------------------
(* Receiving.  Each of these is one access to what the NIC shares.          *)

\* "reset RDU flag to start rx again".
Lan_Receive ==
    /\ pc = "loop" /\ ~sending
    /\ rdu' = FALSE
    /\ pc' = "test"
    /\ UNCHANGED <<Lan_Initialed, link, rx, RxCDO, rxBDtail, first_in, txVars, bufVars>>

Lan_Receive_test ==
    /\ pc = "test"
    /\ pc' = IF rx[rxBDtail].own THEN "loop" ELSE "take"
    /\ UNCHANGED <<Lan_Initialed, link, rxVars, txVars, bufVars>>

\* Mutant: the code that is disabled: the descriptor of this frame is given back.
GiveBack_this == rx' = [rx EXCEPT ![rxBDtail].own = TRUE]

\* Mutant: the last descriptor of the ring is forgotten.
GiveBack_unwrapped ==
    rx' = IF first_in \/ rxBDtail = 0 THEN rx ELSE [rx EXCEPT ![rxBDtail - 1].own = TRUE]

\* The descriptor of the frame before this one is given back.
GiveBack ==
    LET lastBDprocessed == IF rxBDtail = 0 THEN RX_DESC_NUM - 1 ELSE rxBDtail - 1
    IN rx' = IF first_in THEN rx ELSE [rx EXCEPT ![lastBDprocessed].own = TRUE]

\* The stack is given a pointer to the buffer.  The cache is written back after
\* a descriptor was given back.
Lan_Receive_take ==
    /\ pc = "take"
    /\ GiveBack
    /\ first_in' = FALSE
    /\ mem' = IF first_in THEN mem ELSE cache
    /\ rxBDtail' = (rxBDtail + 1) % RX_DESC_NUM
    /\ pc' = "process"
    /\ UNCHANGED <<Lan_Initialed, link, RxCDO, rdu, txVars, cache, since>>

\* net_process_received_packet returns.
Processed ==
    /\ pc = "process" /\ ~sending
    /\ pc' = "loop"
    /\ UNCHANGED <<Lan_Initialed, link, rxVars, txVars, bufVars>>

\* A frame comes in (external).  Without a descriptor it is lost.
NicReceives ==
    /\ link /\ Lan_Initialed /\ ~rdu
    /\ \/ /\ rx[RxCDO].own
          /\ \E d \in Data : rx' = [rx EXCEPT ![RxCDO] = [own |-> FALSE, buf |-> d]]
          /\ RxCDO' = (RxCDO + 1) % RX_DESC_NUM
          /\ UNCHANGED rdu
       \/ /\ ~rx[RxCDO].own
          /\ rdu' = TRUE
          /\ UNCHANGED <<rx, RxCDO>>
    /\ UNCHANGED <<Lan_Initialed, link, rxBDtail, first_in, pc, txVars, bufVars>>

-----------------------------------------------------------------------------
(* Sending, from the handler of a frame, of a time-out or at the start.     *)

InStack == pc \in {"loop", "process"} /\ ~sending

\* The stack writes the buffer for frames to be sent, net_tx_packet.  It has a
\* second one for ARP; that all frames share one is the harder case.
Compose(d) ==
    /\ InStack
    /\ cache' = d
    /\ since' = [i \in TxDescs |-> IF tx[i] THEN since[i] \cup {d} ELSE {}]
    /\ UNCHANGED <<Lan_Initialed, link, pc, rxVars, txVars, mem>>

\* Mutant: the cache is not written back.
Flushed_not == mem

\* _cache_flush.
Flushed == cache

\* A descriptor that the NIC still owns makes Lan_Transmit return -1, which
\* rtl8676_send does not pass on: the frame is dropped and nothing changes.
Lan_Transmit ==
    /\ InStack
    /\ cache # Empty
    /\ ~tx[txBDtail]
    /\ mem' = Flushed
    /\ tx' = [tx EXCEPT ![txBDtail] = TRUE]
    /\ since' = [since EXCEPT ![txBDtail] = {cache}]
    /\ sending' = TRUE
    /\ UNCHANGED <<Lan_Initialed, link, pc, rxVars, TxCDO, trigger, txBDtail, cache>>

\* Mutant: the NIC is not triggered.
Trigger_not == trigger' = trigger

\* IO_CMD |= 1.
Trigger == trigger' = TRUE

Lan_Transmit_trigger ==
    /\ sending
    /\ Trigger
    /\ txBDtail' = (txBDtail + 1) % TX_DESC_NUM
    /\ sending' = FALSE
    /\ UNCHANGED <<Lan_Initialed, link, pc, rxVars, tx, TxCDO, bufVars>>

\* The NIC sends what is in memory now (external).
NicSends ==
    /\ trigger /\ tx[TxCDO]
    /\ tx' = [tx EXCEPT ![TxCDO] = FALSE]
    /\ TxCDO' = (TxCDO + 1) % TX_DESC_NUM
    /\ since' = [since EXCEPT ![TxCDO] = {}]
    /\ UNCHANGED <<Lan_Initialed, link, pc, rxVars, trigger, txBDtail, sending, cache, mem>>

\* It finds nothing to send and stops (external).
NicStops ==
    /\ trigger /\ ~tx[TxCDO]
    /\ trigger' = FALSE
    /\ UNCHANGED <<Lan_Initialed, link, pc, rxVars, tx, TxCDO, txBDtail, sending, bufVars>>

\* The cache needs a line for something else (external).
Evict ==
    /\ mem' = cache
    /\ UNCHANGED <<Lan_Initialed, link, pc, rxVars, txVars, cache, since>>

-----------------------------------------------------------------------------
Next ==
    \/ eth_init \/ eth_halt
    \/ Lan_Receive \/ Lan_Receive_test \/ Lan_Receive_take \/ Processed
    \/ NicReceives
    \/ \E d \in Data : Compose(d)
    \/ Lan_Transmit \/ Lan_Transmit_trigger
    \/ NicSends \/ NicStops
    \/ Evict

\* net_loop polls again and again, handlers return, and the NIC sends while the
\* links are up.
Spec ==
    /\ Init
    /\ [][Next]_vars
    /\ SF_vars(Lan_Receive)
    /\ WF_vars(Lan_Receive_test)
    /\ WF_vars(Lan_Receive_take)
    /\ SF_vars(Processed)
    /\ WF_vars(Lan_Transmit_trigger)
    /\ WF_vars(link /\ NicSends)

-----------------------------------------------------------------------------
(* Properties.                                                             *)

TypeOK ==
    /\ {Lan_Initialed, link, rdu, first_in, trigger, sending} \subseteq BOOLEAN
    /\ rx \in [RxDescs -> [own : BOOLEAN, buf : Data \cup {Empty}]]
    /\ {RxCDO, rxBDtail} \subseteq RxDescs
    /\ pc \in {"off", "loop", "test", "take", "process"}
    /\ tx \in [TxDescs -> BOOLEAN]
    /\ {TxCDO, txBDtail} \subseteq TxDescs
    /\ {cache, mem} \subseteq Data \cup {Empty}
    /\ since \in [TxDescs -> SUBSET Data]

\* The frames that were received and not handed over yet, oldest first: the
\* descriptors from rxBDtail on that the NIC has filled.  The one in front of
\* rxBDtail is not among them once a frame was handed over.
Place(n) == (rxBDtail + n - 1) % RX_DESC_NUM
Room == IF ~Lan_Initialed THEN 0 ELSE IF first_in THEN RX_DESC_NUM ELSE RX_DESC_NUM - 1
NumWaiting ==
    CHOOSE n \in 0 .. Room :
        /\ \A m \in 1 .. n : ~rx[Place(m)].own
        /\ n = Room \/ rx[Place(n + 1)].own
Waiting == [m \in 1 .. NumWaiting |-> rx[Place(m)].buf]
InProcess == IF pc = "process" THEN rx[(rxBDtail - 1) % RX_DESC_NUM].buf ELSE Empty

Fifo == INSTANCE PacketFifo
            WITH q <- Waiting, held <- InProcess, Capacity <- RX_DESC_NUM

\* The ring is a queue of frames: Lan_Receive hands over every frame that the
\* NIC took, once and in order, also when the ring is full, wraps or is left full
\* by an earlier session, and the NIC does not write into the buffer of a frame
\* while the stack works on it.
ImplementsFifo == Fifo!Spec

\* The NIC is never stuck: while a session polls, it gets descriptors back and
\* its flag is reset, so it can take a frame again and again.
ReceivesAgain == []<>(~link \/ (rx[RxCDO].own /\ ~rdu))

\* What the NIC reads for a queued frame is that frame or something the stack
\* composed after it, never what was in the buffer before: the data reached
\* memory before the descriptor was handed over (_cache_flush in Lan_Transmit).
NothingStaleSent == \A i \in TxDescs : tx[i] => mem \in since[i]

\* A frame that was queued is sent, unless the session ends first: the trigger
\* is not lost to a NIC that is about to stop.
QueuedIsSent == \A i \in TxDescs : tx[i] ~> (~tx[i] \/ ~link)
=============================================================================
