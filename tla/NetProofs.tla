------------------------------ MODULE NetProofs ------------------------------
(***************************************************************************)
(* Proofs about the network.                                               *)
(*                                                                         *)
(* The Ethernet driver's rings, for rings of every size and any frames:    *)
(* types, the order of flush and hand-over when sending, and that the      *)
(* receiving half is the queue of frames PacketFifo.                       *)
(*                                                                         *)
(* The multicast upgrade that takes its frames from there, for every set   *)
(* of images on the line, either build, and any numbers of periods and     *)
(* attempts.                                                               *)
(***************************************************************************)
EXTENDS LanRing, Multicast, SequenceTheorems, TLAPS

-----------------------------------------------------------------------------
(* Types.                                                                  *)

LEMMA InitType == Init => TypeOK
<1> SUFFICES ASSUME Init PROVE TypeOK
  OBVIOUS
<1>1. 0 \in RxDescs /\ 0 \in TxDescs
  BY LanAssumption DEF RxDescs, TxDescs
<1>2. {Lan_Initialed, link, rdu, first_in, trigger, sending} \subseteq BOOLEAN
  BY DEF Init
<1>3. /\ rx \in [RxDescs -> [own : BOOLEAN, buf : Data \cup {Empty}]]
      /\ tx \in [TxDescs -> BOOLEAN] /\ since \in [TxDescs -> SUBSET Data]
  BY DEF Init
<1> QED BY <1>1, <1>2, <1>3 DEF Init, TypeOK

\* What a step does to a place in a ring keeps it there.
LEMMA NextPlace ==
    /\ \A i \in RxDescs : (i + 1) % RX_DESC_NUM \in RxDescs
    /\ \A i \in TxDescs : (i + 1) % TX_DESC_NUM \in TxDescs
<1>1. \A n \in Nat \ {0} : \A i \in 0 .. n - 1 : (i + 1) % n \in 0 .. n - 1
  OBVIOUS
<1> QED BY <1>1, LanAssumption DEF RxDescs, TxDescs

LEMMA StepType == TypeOK /\ [Next]_vars => TypeOK'
<1> SUFFICES ASSUME TypeOK, [Next]_vars PROVE TypeOK'
  OBVIOUS
<1> USE DEF rxVars, txVars, bufVars
<1>1. CASE eth_init
  <2>1. CASE UNCHANGED <<Lan_Initialed, rxVars, txVars>>
    BY <1>1, <2>1 DEF eth_init, TypeOK
  <2>2. CASE ~(UNCHANGED <<Lan_Initialed, rxVars, txVars>>)
    <3>1. /\ Lan_Initialed' = TRUE
          /\ rx' = [i \in RxDescs |-> [own |-> TRUE, buf |-> Empty]]
          /\ RxCDO' = 0 /\ rdu' = FALSE /\ rxBDtail' = 0
          /\ tx' = [i \in TxDescs |-> FALSE]
          /\ TxCDO' = 0 /\ trigger' = FALSE /\ txBDtail' = 0
          /\ UNCHANGED <<first_in, sending>>
      BY <1>1, <2>2 DEF eth_init, Lan_Initialize
    <3>2. 0 \in RxDescs /\ 0 \in TxDescs
      BY LanAssumption DEF RxDescs, TxDescs
    <3>3. rx' \in [RxDescs -> [own : BOOLEAN, buf : Data \cup {Empty}]] /\ tx' \in [TxDescs -> BOOLEAN]
      BY <3>1
    <3> QED BY <1>1, <3>1, <3>2, <3>3 DEF eth_init, TypeOK
  <2> QED BY <2>1, <2>2
<1>2. CASE eth_halt
  BY <1>2 DEF eth_halt, TypeOK
<1>3. CASE Lan_Receive
  BY <1>3 DEF Lan_Receive, TypeOK
<1>4. CASE Lan_Receive_test
  BY <1>4 DEF Lan_Receive_test, TypeOK
<1>5. CASE Lan_Receive_take
  <2>1. rxBDtail \in RxDescs /\ rxBDtail' \in RxDescs
    BY <1>5, NextPlace DEF Lan_Receive_take, TypeOK
  <2>2. rx' \in [RxDescs -> [own : BOOLEAN, buf : Data \cup {Empty}]]
    BY <1>5, ZenonT(60) DEF Lan_Receive_take, GiveBack, TypeOK
  <2>3. {cache', mem'} \subseteq Data \cup {Empty} /\ first_in' \in BOOLEAN
    BY <1>5 DEF Lan_Receive_take, TypeOK
  <2> QED BY <1>5, <2>1, <2>2, <2>3 DEF Lan_Receive_take, TypeOK
<1>6. CASE Processed
  BY <1>6 DEF Processed, TypeOK
<1>7. CASE NicReceives
  <2>1. RxCDO \in RxDescs /\ RxCDO' \in RxDescs /\ rdu' \in BOOLEAN
    BY <1>7, NextPlace DEF NicReceives, TypeOK
  <2>2. rx' \in [RxDescs -> [own : BOOLEAN, buf : Data \cup {Empty}]]
    <3>1. CASE rx' = rx
      BY <3>1 DEF TypeOK
    <3>2. ASSUME NEW d \in Data, rx' = [rx EXCEPT ![RxCDO] = [own |-> FALSE, buf |-> d]]
          PROVE  rx' \in [RxDescs -> [own : BOOLEAN, buf : Data \cup {Empty}]]
      <4>1. [own |-> FALSE, buf |-> d] \in [own : BOOLEAN, buf : Data \cup {Empty}]
        OBVIOUS
      <4> QED BY <3>2, <4>1 DEF TypeOK
    <3> QED BY <1>7, <3>1, <3>2 DEF NicReceives
  <2> QED BY <1>7, <2>1, <2>2 DEF NicReceives, TypeOK
<1>8. ASSUME NEW d \in Data, Compose(d) PROVE TypeOK'
  <2>1. since' \in [TxDescs -> SUBSET Data]
    BY <1>8 DEF Compose, TypeOK
  <2> QED BY <1>8, <2>1 DEF Compose, TypeOK
<1>9. CASE Lan_Transmit
  <2>1. cache \in Data /\ mem' = cache
    BY <1>9 DEF Lan_Transmit, Flushed, TypeOK
  <2>2. since' \in [TxDescs -> SUBSET Data] /\ tx' \in [TxDescs -> BOOLEAN]
    BY <1>9, <2>1 DEF Lan_Transmit, TypeOK
  <2> QED BY <1>9, <2>1, <2>2 DEF Lan_Transmit, TypeOK
<1>10. CASE Lan_Transmit_trigger
  BY <1>10, NextPlace DEF Lan_Transmit_trigger, Trigger, TypeOK
<1>11. CASE NicSends
  <2>1. since' \in [TxDescs -> SUBSET Data] /\ tx' \in [TxDescs -> BOOLEAN] /\ TxCDO' \in TxDescs
    BY <1>11, NextPlace DEF NicSends, TypeOK
  <2> QED BY <1>11, <2>1 DEF NicSends, TypeOK
<1>12. CASE NicStops
  BY <1>12 DEF NicStops, TypeOK
<1>13. CASE Evict
  BY <1>13 DEF Evict, TypeOK
<1>14. CASE UNCHANGED vars
  BY <1>14 DEF vars, TypeOK
<1> QED BY <1>1, <1>2, <1>3, <1>4, <1>5, <1>6, <1>7, <1>8, <1>9, <1>10, <1>11, <1>12, <1>13, <1>14
        DEF Next

\* The driver's and the NIC's places stay within their rings, and everything
\* else keeps its type, for rings of any size.
THEOREM LanTypeCorrect == Spec => []TypeOK
BY InitType, StepType, PTL DEF Spec

-----------------------------------------------------------------------------
(* Sending.                                                                *)

\* NothingStaleSent is not inductive: what the cache holds may reach memory at
\* any time, so it has to be as new as what memory holds.
NewInv ==
    /\ \A i \in TxDescs : tx[i] => cache \in since[i] /\ mem \in since[i]
    /\ ~Lan_Initialed => pc = "off" /\ ~sending /\ \A i \in TxDescs : ~tx[i]

LEMMA StepNew == TypeOK /\ NewInv /\ [Next]_vars => NewInv'
<1> SUFFICES ASSUME TypeOK, NewInv, [Next]_vars PROVE NewInv'
  OBVIOUS
<1> USE DEF rxVars, txVars, bufVars
<1>1. CASE eth_init
  BY <1>1 DEF eth_init, Lan_Initialize, NewInv
<1>2. CASE eth_halt \/ Lan_Receive \/ Lan_Receive_test \/ Processed
  BY <1>2 DEF eth_halt, Lan_Receive, Lan_Receive_test, Processed, NewInv
<1>3. CASE Lan_Receive_take \/ Evict
  BY <1>3 DEF Lan_Receive_take, Evict, NewInv
<1>4. CASE NicReceives \/ NicStops \/ Lan_Transmit_trigger
  BY <1>4 DEF NicReceives, NicStops, Lan_Transmit_trigger, NewInv
<1>5. ASSUME NEW d \in Data, Compose(d) PROVE NewInv'
  BY <1>5 DEF Compose, InStack, NewInv, TypeOK
<1>6. CASE Lan_Transmit
  <2>1. /\ Lan_Initialed /\ txBDtail \in TxDescs
        /\ tx \in [TxDescs -> BOOLEAN] /\ since \in [TxDescs -> SUBSET Data]
    BY <1>6 DEF Lan_Transmit, InStack, NewInv, TypeOK
  <2>2. /\ mem' = cache /\ cache' = cache /\ Lan_Initialed' = Lan_Initialed
        /\ tx' = [tx EXCEPT ![txBDtail] = TRUE]
        /\ since' = [since EXCEPT ![txBDtail] = {cache}]
    BY <1>6 DEF Lan_Transmit, Flushed
  <2>3. \A i \in TxDescs : tx'[i] => cache' \in since'[i] /\ mem' \in since'[i]
    <3> TAKE i \in TxDescs
    <3>1. CASE i = txBDtail
      BY <2>1, <2>2, <3>1
    <3>2. CASE i # txBDtail
      BY <2>1, <2>2, <3>2 DEF NewInv
    <3> QED BY <3>1, <3>2
  <2> QED BY <2>1, <2>2, <2>3 DEF NewInv
<1>7. CASE NicSends
  <2>1. /\ TxCDO \in TxDescs /\ tx \in [TxDescs -> BOOLEAN] /\ since \in [TxDescs -> SUBSET Data]
        /\ tx' = [tx EXCEPT ![TxCDO] = FALSE] /\ since' = [since EXCEPT ![TxCDO] = {}]
        /\ UNCHANGED <<Lan_Initialed, pc, sending, cache, mem>> /\ tx[TxCDO]
    BY <1>7 DEF NicSends, TypeOK
  <2>2. \A i \in TxDescs : tx'[i] => i # TxCDO /\ tx[i] /\ since'[i] = since[i]
    BY <2>1
  <2> QED BY <2>1, <2>2 DEF NewInv
<1>8. CASE UNCHANGED vars
  BY <1>8 DEF vars, NewInv
<1> QED BY <1>1, <1>2, <1>3, <1>4, <1>5, <1>6, <1>7, <1>8 DEF Next

\* The NIC never sends what was in net_tx_packet before a frame was queued, for
\* any number of descriptors, and whenever the cache is written back: Lan_Transmit
\* flushes the buffer before it hands the descriptor over.
THEOREM FlushedBeforeHandOver == Spec => []NothingStaleSent
<1>1. Init => NewInv
  BY DEF Init, NewInv
<1>2. NewInv => NothingStaleSent
  BY DEF NewInv, NothingStaleSent
<1> QED BY <1>1, <1>2, InitType, StepType, StepNew, PTL DEF Spec

-----------------------------------------------------------------------------
(* Receiving: the ring as a queue.                                         *)

\* The NIC has filled n descriptors from rxBDtail on with frames and owns the
\* rest of them, but for the one whose frame was handed over last.
Filled(n) ==
    /\ n <= Room
    /\ RxCDO = (rxBDtail + n) % RX_DESC_NUM
    /\ \A m \in 1 .. n : ~rx[Place(m)].own /\ rx[Place(m)].buf \in Data
    /\ \A m \in n + 1 .. Room : rx[Place(m)].own
    /\ ~first_in => ~rx[Place(RX_DESC_NUM)].own

RingInv ==
    /\ \E n \in 0 .. RX_DESC_NUM : Filled(n)
    /\ ~Lan_Initialed => first_in /\ pc = "off"
    /\ pc = "take" => ~rx[rxBDtail].own
    /\ pc = "process" => ~first_in /\ rx[Place(RX_DESC_NUM)].buf \in Data

\* Going round a ring of size n once.
LEMMA Wrap ==
    ASSUME NEW n \in Nat \ {0}, NEW x \in 0 .. 2 * n - 1
    PROVE  (x % n) = (IF x < n THEN x ELSE x - n)
<1>1. CASE x < n
  BY <1>1
<1>2. CASE ~(x < n)
  BY <1>2
<1> QED BY <1>1, <1>2

\* The descriptors by their distance from a place t: they are in the ring, they
\* differ, and those from the place after t on are the same ones.
LEMMA Places ==
    ASSUME NEW t \in RxDescs
    PROVE  /\ \A m \in 1 .. RX_DESC_NUM : (t + m - 1) % RX_DESC_NUM \in RxDescs
           /\ \A m, k \in 1 .. RX_DESC_NUM :
                 m # k => (t + m - 1) % RX_DESC_NUM # (t + k - 1) % RX_DESC_NUM
           /\ (t + 1 - 1) % RX_DESC_NUM = t
           /\ (t + RX_DESC_NUM) % RX_DESC_NUM = t
           /\ (t + 1) % RX_DESC_NUM \in RxDescs
           /\ \A m \in 1 .. RX_DESC_NUM - 1 :
                 (((t + 1) % RX_DESC_NUM) + m - 1) % RX_DESC_NUM = (t + (m + 1) - 1) % RX_DESC_NUM
           /\ (((t + 1) % RX_DESC_NUM) + RX_DESC_NUM - 1) % RX_DESC_NUM = t
           /\ (t - 1) % RX_DESC_NUM = (t + RX_DESC_NUM - 1) % RX_DESC_NUM
           /\ (t + RX_DESC_NUM - 1) % RX_DESC_NUM = (IF t = 0 THEN RX_DESC_NUM - 1 ELSE t - 1)
<1> DEFINE n == RX_DESC_NUM
<1>1. n \in Nat \ {0} /\ n > 1 /\ t \in 0 .. n - 1
  BY LanAssumption DEF RxDescs
<1> HIDE DEF n
<1>2. \A m \in 1 .. n : (t + m - 1) % n = (IF t + m - 1 < n THEN t + m - 1 ELSE (t + m - 1) - n)
  <2> TAKE m \in 1 .. n
  <2> DEFINE x == t + m - 1
  <2>1. x \in 0 .. 2 * n - 1
    BY <1>1
  <2> HIDE DEF x
  <2>2. (x % n) = (IF x < n THEN x ELSE x - n)
    BY <1>1, <2>1, Wrap
  <2> QED BY <2>2 DEF x
<1>3. (t + n) % n = t
  <2>1. t + n \in 0 .. 2 * n - 1 /\ ~(t + n < n) /\ t + n - n = t
    BY <1>1
  <2> QED BY <1>1, <2>1, Wrap
<1>4. (t + 1) % n = (IF t + 1 < n THEN t + 1 ELSE 0)
  <2> DEFINE x == t + 1
  <2>1. x \in 0 .. 2 * n - 1 /\ (~(x < n) => x - n = 0)
    BY <1>1
  <2> HIDE DEF x
  <2>2. (x % n) = (IF x < n THEN x ELSE 0)
    BY <1>1, <2>1, Wrap
  <2> QED BY <2>2 DEF x
<1>5. \A m \in 1 .. n - 1 : (((t + 1) % n) + m - 1) % n = (t + (m + 1) - 1) % n
  <2> TAKE m \in 1 .. n - 1
  <2>1. m + 1 \in 1 .. n /\ m \in 1 .. n
    BY <1>1
  <2>2. (t + (m + 1) - 1) % n = (IF t + m < n THEN t + m ELSE t + m - n)
    BY <1>1, <1>2, <2>1
  <2>3. CASE t + 1 < n
    <3> DEFINE x == t + m
    <3>1. ((t + 1) % n) + m - 1 = x /\ x \in 0 .. 2 * n - 1
      BY <1>1, <1>4, <2>3
    <3> HIDE DEF x
    <3>2. (x % n) = (IF x < n THEN x ELSE x - n)
      BY <1>1, <3>1, Wrap
    <3> QED BY <2>2, <3>1, <3>2 DEF x
  <2>4. CASE ~(t + 1 < n)
    <3>1. ((t + 1) % n) + m - 1 = m - 1 /\ m - 1 \in 0 .. 2 * n - 1 /\ m - 1 < n
          /\ t = n - 1 /\ ~(t + m < n) /\ t + m - n = m - 1
      BY <1>1, <1>4, <2>4
    <3>2. (m - 1) % n = m - 1
      BY <1>1, <3>1, Wrap
    <3> QED BY <2>2, <3>1, <3>2
  <2> QED BY <2>3, <2>4
<1>6. (((t + 1) % n) + n - 1) % n = t
  <2>1. CASE t + 1 < n
    <3>1. ((t + 1) % n) + n - 1 = t + n
      BY <1>1, <1>4, <2>1
    <3> QED BY <1>3, <3>1
  <2>2. CASE ~(t + 1 < n)
    <3>1. ((t + 1) % n) + n - 1 = n - 1 /\ n - 1 \in 0 .. 2 * n - 1 /\ n - 1 < n /\ t = n - 1
      BY <1>1, <1>4, <2>2
    <3> QED BY <1>1, <3>1, Wrap
  <2> QED BY <2>1, <2>2
<1>7. (t + n - 1) % n = (IF t = 0 THEN n - 1 ELSE t - 1)
  <2>1. n \in 1 .. n /\ t + n - 1 - n = t - 1 /\ (t + n - 1 < n <=> t = 0)
    BY <1>1
  <2> QED BY <1>1, <1>2, <2>1
<1>8. (t - 1) % n = (IF t = 0 THEN n - 1 ELSE t - 1)
  <2>1. CASE t = 0
    BY <1>1, <2>1
  <2>2. CASE t # 0
    <3>1. t - 1 \in 0 .. 2 * n - 1 /\ t - 1 < n
      BY <1>1, <2>2
    <3> QED BY <1>1, <2>2, <3>1, Wrap
  <2> QED BY <2>1, <2>2
<1>9. \A m \in 1 .. n : (t + m - 1) % n \in 0 .. n - 1
  BY <1>1, <1>2
<1>10. \A m, k \in 1 .. n : m # k => (t + m - 1) % n # (t + k - 1) % n
  <2> SUFFICES ASSUME NEW m \in 1 .. n, NEW k \in 1 .. n, m # k
               PROVE  (t + m - 1) % n # (t + k - 1) % n
    OBVIOUS
  <2>1. /\ (t + m - 1) % n = (IF t + m - 1 < n THEN t + m - 1 ELSE (t + m - 1) - n)
        /\ (t + k - 1) % n = (IF t + k - 1 < n THEN t + k - 1 ELSE (t + k - 1) - n)
    BY <1>2
  <2> QED BY <1>1, <2>1
<1>11. (t + 1 - 1) % n = t
  <2>1. 1 \in 1 .. n /\ t + 1 - 1 = t /\ t < n
    BY <1>1
  <2> QED BY <1>1, <1>2, <2>1
<1>12. (t + 1) % n \in 0 .. n - 1
  BY <1>1, <1>4
<1> QED BY <1>3, <1>5, <1>6, <1>7, <1>8, <1>9, <1>10, <1>11, <1>12 DEF RxDescs, n

\* A sequence and the one without its first element.
LEMMA TailIs ==
    ASSUME NEW S, NEW n \in Nat \ {0}, NEW q \in [1 .. n -> S], NEW r \in [1 .. n - 1 -> S],
           \A m \in 1 .. n - 1 : r[m] = q[m + 1]
    PROVE  r = Tail(q) /\ Head(q) = q[1] /\ q # <<>>
<1>1. q \in Seq(S) /\ Len(q) = n /\ r \in Seq(S) /\ Len(r) = n - 1
  OBVIOUS
<1>2. q # <<>>
  BY <1>1
<1>3. /\ Head(q) = q[1] /\ Tail(q) \in Seq(S) /\ Len(Tail(q)) = n - 1
      /\ \A m \in 1 .. n - 1 : Tail(q)[m] = q[m + 1]
  BY <1>1, <1>2, HeadTailProperties
<1>4. r = Tail(q)
  BY <1>1, <1>3, SeqEqual
<1> QED BY <1>2, <1>3, <1>4

\* A sequence and the one with one more element.
LEMMA AppendIs ==
    ASSUME NEW S, NEW n \in Nat, NEW q \in [1 .. n -> S], NEW r \in [1 .. n + 1 -> S],
           NEW d \in S, r[n + 1] = d, \A m \in 1 .. n : r[m] = q[m]
    PROVE  r = Append(q, d) /\ Len(q) = n
<1>1. q \in Seq(S) /\ Len(q) = n /\ r \in Seq(S) /\ Len(r) = n + 1
  OBVIOUS
<1>2. /\ Append(q, d) \in Seq(S) /\ Len(Append(q, d)) = n + 1
      /\ \A m \in 1 .. n : Append(q, d)[m] = q[m]
      /\ Append(q, d)[n + 1] = d
  BY <1>1, AppendProperties
<1>3. \A m \in 1 .. n + 1 : m \in 1 .. n \/ m = n + 1
  OBVIOUS
<1>4. \A m \in 1 .. n + 1 : r[m] = Append(q, d)[m]
  BY <1>2, <1>3
<1> QED BY <1>1, <1>2, <1>4, SeqEqual

\* The descriptors seen from rxBDtail.
LEMMA PlaceFacts ==
    ASSUME TypeOK
    PROVE  /\ \A m \in 1 .. RX_DESC_NUM : Place(m) \in RxDescs
           /\ \A m, k \in 1 .. RX_DESC_NUM : m # k => Place(m) # Place(k)
           /\ Place(1) = rxBDtail
           /\ (rxBDtail - 1) % RX_DESC_NUM = Place(RX_DESC_NUM)
           /\ (IF rxBDtail = 0 THEN RX_DESC_NUM - 1 ELSE rxBDtail - 1) = Place(RX_DESC_NUM)
           /\ Room \in 0 .. RX_DESC_NUM
           /\ RX_DESC_NUM \in Nat /\ RX_DESC_NUM > 1
<1>1. rxBDtail \in RxDescs
  BY DEF TypeOK
<1>2. Room \in 0 .. RX_DESC_NUM /\ RX_DESC_NUM \in Nat /\ RX_DESC_NUM > 1
  BY LanAssumption DEF Room
<1> QED BY <1>1, <1>2, Places DEF Place

\* What waits in the ring: exactly the descriptors that the NIC has filled.
WaitingFact ==
    \A n \in 0 .. RX_DESC_NUM :
        TypeOK /\ Filled(n) =>
            /\ Waiting = [m \in 1 .. n |-> rx[Place(m)].buf]
            /\ Waiting \in [1 .. n -> Data]

LEMMA WaitingIs == WaitingFact
<1> SUFFICES ASSUME NEW n \in 0 .. RX_DESC_NUM, TypeOK, Filled(n)
             PROVE  /\ Waiting = [m \in 1 .. n |-> rx[Place(m)].buf]
                    /\ Waiting \in [1 .. n -> Data]
  BY DEF WaitingFact
<1> DEFINE P(k) == /\ \A m \in 1 .. k : ~rx[Place(m)].own
                   /\ k = Room \/ rx[Place(k + 1)].own
<1>1. Room \in 0 .. RX_DESC_NUM /\ n \in 0 .. Room /\ RX_DESC_NUM \in Nat
  BY PlaceFacts DEF Filled
<1>2. P(n)
  <2>1. n = Room \/ n + 1 \in n + 1 .. Room
    BY <1>1
  <2> QED BY <2>1 DEF Filled
<1>3. \A k \in 0 .. Room : P(k) => k = n
  <2> SUFFICES ASSUME NEW k \in 0 .. Room, P(k), k # n PROVE FALSE
    OBVIOUS
  <2>1. CASE k < n
    <3>1. k + 1 \in 1 .. n /\ k # Room
      BY <1>1, <2>1
    <3> QED BY <3>1 DEF Filled
  <2>2. CASE k > n
    <3>1. n + 1 \in 1 .. k /\ n + 1 \in n + 1 .. Room
      BY <1>1, <2>2
    <3> QED BY <3>1 DEF Filled
  <2> QED BY <1>1, <2>1, <2>2
<1>4. NumWaiting = CHOOSE k \in 0 .. Room : P(k)
  BY DEF NumWaiting
<1> HIDE DEF P
<1>5. NumWaiting = n
  BY <1>1, <1>2, <1>3, <1>4
<1>6. \A m \in 1 .. n : rx[Place(m)].buf \in Data
  BY DEF Filled
<1> QED BY <1>5, <1>6 DEF Waiting

\* The same after a step.
LEMMA WaitingIsNext == WaitingFact'
BY WaitingIs, PTL

\* The ring at the start.
LEMMA InitRing == Init => RingInv /\ Fifo!Init
<1> SUFFICES ASSUME Init PROVE RingInv /\ Fifo!Init
  OBVIOUS
<1>1. TypeOK
  BY InitType
<1>2. Room = 0 /\ RX_DESC_NUM \in Nat /\ 0 \in 0 .. RX_DESC_NUM /\ rxBDtail = 0 /\ RxCDO = 0
  BY LanAssumption DEF Init, Room
<1>3. (0 + 0) % RX_DESC_NUM = 0
  BY LanAssumption
<1>4. Filled(0)
  BY <1>2, <1>3 DEF Filled, Init
<1>5. Waiting = <<>>
  <2>1. Waiting \in [1 .. 0 -> Data]
    BY <1>1, <1>2, <1>4, WaitingIs DEF WaitingFact
  <2> QED BY <2>1
<1>6. RingInv
  BY <1>2, <1>4 DEF Init, RingInv
<1>7. InProcess = Empty
  BY DEF Init, InProcess
<1> QED BY <1>5, <1>6, <1>7 DEF Fifo!Init

\* A step that leaves the ring alone: the queue does not change.
LEMMA SameRing ==
    ASSUME UNCHANGED <<Lan_Initialed, rx, rxBDtail, first_in>>
    PROVE  /\ Waiting' = Waiting
           /\ \A m : Place(m)' = Place(m)
           /\ Room' = Room
           /\ UNCHANGED RxCDO => \A n : Filled(n)' = Filled(n)
<1>1. \A m : Place(m)' = Place(m)
  BY DEF Place
<1>2. Room' = Room
  BY DEF Room
<1>3. NumWaiting' = NumWaiting
  BY <1>1, <1>2 DEF NumWaiting, Place
<1>4. Waiting' = Waiting
  BY <1>1, <1>3 DEF Waiting, Place
<1>5. UNCHANGED RxCDO => \A n : Filled(n)' = Filled(n)
  BY <1>1, <1>2 DEF Filled, Place
<1> QED BY <1>1, <1>2, <1>4, <1>5

\* Lan_Initialize: the NIC gets all descriptors, and nothing waits.
LEMMA EthInitRing ==
    ASSUME TypeOK, TypeOK', RingInv, eth_init
    PROVE  RingInv' /\ Waiting' = Waiting /\ InProcess' = InProcess
<1>1. pc = "off" /\ pc' = "loop"
  BY DEF eth_init
<1>2. InProcess' = InProcess
  BY <1>1 DEF InProcess
<1>3. CASE Lan_Initialed
  <2>1. UNCHANGED <<Lan_Initialed, rx, RxCDO, rxBDtail, first_in>>
    BY <1>3 DEF eth_init, Lan_Initialize, rxVars
  <2>2. PICK n \in 0 .. RX_DESC_NUM : Filled(n)
    BY DEF RingInv
  <2>3. Filled(n)'
    BY <2>1, <2>2, SameRing
  <2> QED BY <1>1, <1>2, <1>3, <2>1, <2>3, SameRing DEF RingInv
<1>4. CASE ~Lan_Initialed
  <2>1. /\ Lan_Initialed' = TRUE /\ first_in' = first_in /\ first_in
        /\ rx' = [i \in RxDescs |-> [own |-> TRUE, buf |-> Empty]]
        /\ RxCDO' = 0 /\ rxBDtail' = 0
    BY <1>4 DEF eth_init, Lan_Initialize, RingInv
  <2>2. /\ RX_DESC_NUM \in Nat /\ 0 \in 0 .. RX_DESC_NUM /\ (0 + 0) % RX_DESC_NUM = 0
        /\ Room = 0 /\ Room' = RX_DESC_NUM
    BY <1>4, <2>1, LanAssumption DEF Room
  <2>3. \A m \in 1 .. RX_DESC_NUM : Place(m)' \in RxDescs
    BY PlaceFacts, <2>1, Places DEF TypeOK, Place
  <2>4. Filled(0)'
    BY <2>1, <2>2, <2>3 DEF Filled
  <2>5. PICK n \in 0 .. RX_DESC_NUM : Filled(n)
    BY DEF RingInv
  <2>6. n = 0
    BY <2>2, <2>5 DEF Filled
  <2>7. Waiting \in [1 .. 0 -> Data]
    BY <2>5, <2>6, WaitingIs DEF WaitingFact
  <2>8. Waiting' \in [1 .. 0 -> Data]
    BY <2>2, <2>4, WaitingIsNext DEF WaitingFact
  <2>9. Waiting' = Waiting
    BY <2>7, <2>8
  <2> QED BY <1>1, <1>2, <2>1, <2>2, <2>4, <2>9 DEF RingInv
<1> QED BY <1>3, <1>4

\* Lan_Receive hands over the oldest frame and gives the descriptor of the frame
\* before it back.
LEMMA TakeRing ==
    ASSUME TypeOK, TypeOK', RingInv, Lan_Receive_take
    PROVE  /\ RingInv'
           /\ Waiting # <<>> /\ InProcess = Empty
           /\ InProcess' = Head(Waiting) /\ Waiting' = Tail(Waiting)
<1> DEFINE N == RX_DESC_NUM
<1>1. /\ pc = "take" /\ pc' = "process" /\ Lan_Initialed' = Lan_Initialed /\ Lan_Initialed
      /\ ~first_in' /\ RxCDO' = RxCDO /\ rxBDtail' = (rxBDtail + 1) % N
      /\ rxBDtail \in RxDescs /\ ~rx[rxBDtail].own
      /\ rx \in [RxDescs -> [own : BOOLEAN, buf : Data \cup {Empty}]]
  BY DEF Lan_Receive_take, RingInv, TypeOK
<1>2. PICK n \in 0 .. N : Filled(n)
  BY DEF RingInv
<1>3. /\ \A m \in 1 .. N : Place(m) \in RxDescs
      /\ \A m, k \in 1 .. N : m # k => Place(m) # Place(k)
      /\ Place(1) = rxBDtail
      /\ (IF rxBDtail = 0 THEN N - 1 ELSE rxBDtail - 1) = Place(N)
      /\ N \in Nat /\ N > 1
  BY PlaceFacts
<1>4. rx' = IF first_in THEN rx ELSE [rx EXCEPT ![Place(N)].own = TRUE]
  BY <1>3 DEF Lan_Receive_take, GiveBack
<1>5. Room' = N - 1 /\ Room = (IF first_in THEN N ELSE N - 1)
  BY <1>1 DEF Room
<1>6. /\ \A m \in 1 .. N - 1 : Place(m)' = Place(m + 1)
      /\ Place(N)' = Place(1)
      /\ (rxBDtail' - 1) % N = Place(1)
  <2>1. rxBDtail' \in RxDescs
    BY DEF TypeOK
  <2>2. /\ \A m \in 1 .. N - 1 :
              (((rxBDtail + 1) % N) + m - 1) % N = (rxBDtail + (m + 1) - 1) % N
        /\ (((rxBDtail + 1) % N) + N - 1) % N = rxBDtail
    BY <1>1, Places
  <2>3. (rxBDtail' - 1) % N = (rxBDtail' + N - 1) % N
    BY <2>1, Places
  <2> QED BY <1>1, <1>3, <2>2, <2>3 DEF Place
<1>7. n \in 1 .. N /\ n <= Room
  <2>1. n <= Room /\ (n = 0 => \A m \in 1 .. Room : rx[Place(m)].own)
    BY <1>2 DEF Filled
  <2>2. 1 \in 1 .. Room
    BY <1>3, <1>5
  <2> QED BY <1>1, <1>2, <1>3, <2>1, <2>2
\* The other descriptors.
<1>8. \A m \in 1 .. N : m # N \/ first_in => rx'[Place(m)] = rx[Place(m)]
  <2> SUFFICES ASSUME NEW m \in 1 .. N, m # N, ~first_in PROVE rx'[Place(m)] = rx[Place(m)]
    BY <1>4
  <2>1. Place(m) # Place(N) /\ N \in 1 .. N
    BY <1>3
  <2> QED BY <1>1, <1>3, <1>4, <2>1
<1>9. ~first_in => rx'[Place(N)].own
  <2>1. N \in 1 .. N
    BY <1>3
  <2> QED BY <1>1, <1>3, <1>4, <2>1
<1>10. Filled(n - 1)'
  <2>1. n - 1 <= Room'
    BY <1>3, <1>5, <1>7
  <2>2. (RxCDO = (rxBDtail + (n - 1)) % RX_DESC_NUM)'
    <3>1. RxCDO = (rxBDtail + n) % N
      BY <1>2 DEF Filled
    <3>2. (((rxBDtail + 1) % N) + (n - 1)) % N = (rxBDtail + n) % N
      <4>1. CASE n \in 1 .. N - 1
        <5>1. (((rxBDtail + 1) % N) + n - 1) % N = (rxBDtail + (n + 1) - 1) % N
          BY <1>1, <4>1, Places
        <5>2. n + 1 - 1 = n
          BY <1>7
        <5> QED BY <5>1, <5>2
      <4>2. CASE n = N
        <5>1. (((rxBDtail + 1) % N) + N - 1) % N = rxBDtail /\ (rxBDtail + N) % N = rxBDtail
          BY <1>1, Places
        <5> QED BY <4>2, <5>1
      <4> QED BY <1>3, <1>7, <4>1, <4>2
    <3> QED BY <1>1, <3>1, <3>2
  <2>3. \A m \in 1 .. n - 1 : ~rx'[Place(m)'].own /\ rx'[Place(m)'].buf \in Data
    <3> TAKE m \in 1 .. n - 1
    <3>1. m \in 1 .. N - 1 /\ m + 1 \in 1 .. n /\ m + 1 \in 1 .. N /\ (m + 1 # N \/ first_in)
      BY <1>3, <1>5, <1>7
    <3>2. rx'[Place(m)'] = rx[Place(m + 1)]
      BY <1>6, <1>8, <3>1
    <3> QED BY <1>2, <3>1, <3>2 DEF Filled
  <2>4. \A m \in (n - 1) + 1 .. N - 1 : rx'[Place(m)'].own
    <3> TAKE m \in (n - 1) + 1 .. N - 1
    <3>1. m \in 1 .. N - 1 /\ m + 1 \in n + 1 .. N /\ m + 1 \in 1 .. N
          /\ (m + 1 # N \/ first_in => m + 1 \in n + 1 .. Room)
      BY <1>3, <1>5, <1>7
    <3>2. Place(m)' = Place(m + 1)
      BY <1>6, <3>1
    <3>3. CASE m + 1 # N \/ first_in
      BY <1>2, <1>8, <3>1, <3>2, <3>3 DEF Filled
    <3>4. CASE ~(m + 1 # N \/ first_in)
      BY <1>9, <3>2, <3>4
    <3> QED BY <3>3, <3>4
  <2>5. ~rx'[Place(N)'].own /\ rx'[Place(N)'] = rx[Place(1)]
    <3>1. 1 \in 1 .. N /\ 1 # N
      BY <1>3
    <3> QED BY <1>1, <1>3, <1>6, <1>8, <3>1
  <2> QED BY <1>5, <2>1, <2>2, <2>3, <2>4, <2>5 DEF Filled
<1>11. n \in 0 .. N /\ n - 1 \in 0 .. N /\ n \in Nat \ {0} /\ 1 \in 1 .. n
  BY <1>3, <1>7
<1>12. Waiting = [m \in 1 .. n |-> rx[Place(m)].buf] /\ Waiting \in [1 .. n -> Data]
  BY <1>2, WaitingIs DEF WaitingFact
<1>13. /\ Waiting' = [m \in 1 .. n - 1 |-> rx'[Place(m)'].buf]
       /\ Waiting' \in [1 .. n - 1 -> Data]
  BY <1>10, <1>11, WaitingIsNext DEF WaitingFact
<1>14. \A m \in 1 .. n - 1 : Waiting'[m] = Waiting[m + 1]
  <2> TAKE m \in 1 .. n - 1
  <2>1. m \in 1 .. N - 1 /\ m + 1 \in 1 .. n /\ m + 1 \in 1 .. N /\ (m + 1 # N \/ first_in)
    BY <1>3, <1>5, <1>7
  <2>2. rx'[Place(m)'] = rx[Place(m + 1)]
    BY <1>6, <1>8, <2>1
  <2> QED BY <1>12, <1>13, <2>1, <2>2
<1>15. Waiting' = Tail(Waiting) /\ Head(Waiting) = Waiting[1] /\ Waiting # <<>>
  <2> DEFINE w == Waiting
             v == Waiting'
  <2>1. w \in [1 .. n -> Data] /\ v \in [1 .. n - 1 -> Data] /\ \A m \in 1 .. n - 1 : v[m] = w[m + 1]
    BY <1>12, <1>13, <1>14
  <2> HIDE DEF w, v
  <2>2. v = Tail(w) /\ Head(w) = w[1] /\ w # <<>>
    BY <1>11, <2>1, TailIs
  <2> QED BY <2>2 DEF w, v
<1>16. rx'[Place(1)] = rx[Place(1)]
  <2>1. 1 \in 1 .. N /\ 1 # N
    BY <1>3
  <2> QED BY <1>8, <2>1
<1>17. InProcess' = Head(Waiting) /\ InProcess = Empty
  <2>1. InProcess' = rx'[Place(1)].buf
    BY <1>1, <1>6 DEF InProcess
  <2>2. Waiting[1] = rx[Place(1)].buf
    BY <1>11, <1>12
  <2> QED BY <1>1, <1>15, <1>16, <2>1, <2>2 DEF InProcess
<1>18. RingInv'
  <2>1. rx'[Place(N)'].buf \in Data
    BY <1>2, <1>6, <1>11, <1>16 DEF Filled
  <2> QED BY <1>1, <1>10, <1>11, <2>1 DEF RingInv
<1> QED BY <1>15, <1>17, <1>18

\* The NIC takes a frame only when a descriptor is left for it, and adds it
\* behind those that wait; the frame the stack works on is not touched.
LEMMA NicRing ==
    ASSUME TypeOK, TypeOK', RingInv, NicReceives
    PROVE  /\ RingInv'
           /\ InProcess' = InProcess
           /\ \/ Waiting' = Waiting
              \/ \E d \in Data : Waiting' = Append(Waiting, d) /\ Len(Waiting) < RX_DESC_NUM
<1> DEFINE N == RX_DESC_NUM
<1>1. /\ Lan_Initialed /\ UNCHANGED <<Lan_Initialed, rxBDtail, first_in, pc>>
      /\ rxBDtail \in RxDescs
      /\ rx \in [RxDescs -> [own : BOOLEAN, buf : Data \cup {Empty}]]
  BY DEF NicReceives, TypeOK
<1>2. PICK n \in 0 .. N : Filled(n)
  BY DEF RingInv
<1>3. /\ \A m \in 1 .. N : Place(m) \in RxDescs
      /\ \A m, k \in 1 .. N : m # k => Place(m) # Place(k)
      /\ Place(1) = rxBDtail
      /\ (rxBDtail - 1) % N = Place(N)
      /\ N \in Nat /\ N > 1
  BY PlaceFacts
<1>4. Room = (IF first_in THEN N ELSE N - 1) /\ Room' = Room /\ \A m : Place(m)' = Place(m)
  BY <1>1 DEF Room, Place
<1>5. CASE ~rx[RxCDO].own
  <2>1. UNCHANGED <<rx, RxCDO>>
    BY <1>5 DEF NicReceives
  <2>2. Filled(n)' /\ Waiting' = Waiting
    BY <1>1, <1>2, <2>1, SameRing
  <2>3. InProcess' = InProcess
    BY <1>1, <2>1 DEF InProcess
  <2> QED BY <1>1, <1>4, <2>1, <2>2, <2>3 DEF RingInv
<1>6. CASE rx[RxCDO].own
  <2>1. PICK d \in Data : rx' = [rx EXCEPT ![RxCDO] = [own |-> FALSE, buf |-> d]]
    BY <1>6 DEF NicReceives
  <2>2. RxCDO' = (RxCDO + 1) % N
    BY <1>6 DEF NicReceives
  <2>3. RxCDO = (rxBDtail + n) % N /\ n <= Room
    BY <1>2 DEF Filled
  <2>4. n < Room
    <3> SUFFICES ASSUME n = Room PROVE FALSE
      BY <1>3, <1>4, <2>3
    <3>1. CASE first_in
      <4>1. RxCDO = Place(1) /\ 1 \in 1 .. n
        BY <1>1, <1>3, <1>4, <2>3, <3>1, Places
      <4> QED BY <1>2, <1>6, <4>1 DEF Filled
    <3>2. CASE ~first_in
      <4>1. RxCDO = Place(N)
        BY <1>4, <2>3, <3>2 DEF Place
      <4> QED BY <1>2, <1>6, <3>2, <4>1 DEF Filled
    <3> QED BY <3>1, <3>2
  <2>5. /\ n + 1 \in 1 .. N /\ n + 1 \in 1 .. Room /\ n \in Nat /\ n < N
        /\ (~first_in => n + 1 # N) /\ N \in 1 .. N
    BY <1>3, <1>4, <2>4
  <2>6. RxCDO = Place(n + 1) /\ RxCDO \in RxDescs
    <3>1. n + 1 - 1 = n
      BY <2>5
    <3> QED BY <1>3, <2>3, <2>5, <3>1 DEF Place
  <2>7. /\ rx'[Place(n + 1)] = [own |-> FALSE, buf |-> d]
        /\ \A m \in 1 .. N : m # n + 1 => rx'[Place(m)] = rx[Place(m)]
    BY <1>1, <1>3, <2>1, <2>5, <2>6
  <2>8. RxCDO' = (rxBDtail + (n + 1)) % N
    <3>1. (((rxBDtail + n) % N) + 1) % N = (rxBDtail + (n + 1)) % N
      <4> DEFINE x == rxBDtail + n
      <4>1. x \in 0 .. 2 * N - 1 /\ x + 1 \in 0 .. 2 * N - 1 /\ N \in Nat \ {0} /\ rxBDtail + (n + 1) = x + 1
            /\ 0 \in 0 .. 2 * N - 1
        BY <1>1, <1>3, <2>5 DEF RxDescs
      <4> HIDE DEF x, N
      <4>2. (x % N) = (IF x < N THEN x ELSE x - N)
        BY <4>1, Wrap
      <4>3. ((x + 1) % N) = (IF x + 1 < N THEN x + 1 ELSE (x + 1) - N)
        <5> DEFINE y == x + 1
        <5>1. y \in 0 .. 2 * N - 1
          BY <4>1
        <5> HIDE DEF y
        <5>2. (y % N) = (IF y < N THEN y ELSE y - N)
          BY <4>1, <5>1, Wrap
        <5> QED BY <5>2 DEF y
      <4>4. CASE x < N
        BY <4>1, <4>2, <4>4 DEF x
      <4>5. CASE ~(x < N)
        <5> DEFINE y == x - N + 1
        <5>1. y \in 0 .. 2 * N - 1 /\ y < N /\ (x % N) + 1 = y /\ (x + 1) - N = y /\ ~(x + 1 < N)
          BY <4>1, <4>2, <4>5
        <5> HIDE DEF y
        <5>2. (y % N) = y
          BY <4>1, <5>1, Wrap
        <5>3. ((x % N) + 1) % N = (x + 1) % N
          BY <4>3, <5>1, <5>2
        <5> QED BY <4>1, <5>3 DEF x
      <4> QED BY <4>4, <4>5
    <3> QED BY <2>2, <2>3, <3>1
  <2>9. Filled(n + 1)'
    <3>1. \A m \in 1 .. n + 1 : ~rx'[Place(m)].own /\ rx'[Place(m)].buf \in Data
      <4> TAKE m \in 1 .. n + 1
      <4>1. CASE m = n + 1
        BY <2>7, <4>1
      <4>2. CASE m # n + 1
        <5>1. m \in 1 .. n /\ m \in 1 .. N
          BY <2>5, <4>2
        <5> QED BY <1>2, <2>7, <4>2, <5>1 DEF Filled
      <4> QED BY <4>1, <4>2
    <3>2. \A m \in (n + 1) + 1 .. Room : rx'[Place(m)].own
      <4> TAKE m \in (n + 1) + 1 .. Room
      <4>1. m \in n + 1 .. Room /\ m \in 1 .. N /\ m # n + 1
        BY <1>3, <1>4, <2>5
      <4> QED BY <1>2, <2>7, <4>1 DEF Filled
    <3>3. ~first_in => ~rx'[Place(N)].own
      BY <1>2, <2>5, <2>7 DEF Filled
    <3>4. n + 1 <= Room
      BY <1>3, <1>4, <2>4
    <3> QED BY <1>1, <1>4, <2>8, <3>1, <3>2, <3>3, <3>4 DEF Filled
  <2>10. Waiting = [m \in 1 .. n |-> rx[Place(m)].buf] /\ Waiting \in [1 .. n -> Data]
    BY <1>2, WaitingIs DEF WaitingFact
  <2>11. /\ Waiting' = [m \in 1 .. n + 1 |-> rx'[Place(m)].buf]
         /\ Waiting' \in [1 .. n + 1 -> Data]
    <3>1. n + 1 \in 0 .. N
      BY <2>5
    <3> QED BY <1>4, <2>9, <3>1, WaitingIsNext DEF WaitingFact
  <2>12. Waiting' = Append(Waiting, d) /\ Len(Waiting) < N
    <3> DEFINE w == Waiting
               v == Waiting'
    <3>1. /\ w \in [1 .. n -> Data] /\ v \in [1 .. n + 1 -> Data] /\ v[n + 1] = d
      BY <2>5, <2>7, <2>10, <2>11
    <3>2. \A m \in 1 .. n : v[m] = w[m]
      <4> TAKE m \in 1 .. n
      <4>1. m \in 1 .. N /\ m # n + 1 /\ m \in 1 .. n + 1
        BY <2>5
      <4> QED BY <2>7, <2>10, <2>11, <4>1
    <3> HIDE DEF w, v
    <3>3. v = Append(w, d) /\ Len(w) = n
      BY <2>5, <3>1, <3>2, AppendIs
    <3> QED BY <2>5, <3>3 DEF w, v
  <2>13. pc = "process" => ~first_in /\ rx'[Place(N)] = rx[Place(N)]
    BY <2>5, <2>7 DEF RingInv
  <2>14. InProcess' = InProcess
    BY <1>1, <1>3, <2>13 DEF InProcess
  <2>15. pc = "take" => ~rx'[rxBDtail].own
    <3>1. pc = "take" => RxCDO # rxBDtail
      BY <1>6 DEF RingInv
    <3> QED BY <1>1, <2>1, <2>6, <3>1 DEF RingInv
  <2>16. RingInv'
    <3>1. n + 1 \in 0 .. N
      BY <2>5
    <3> QED BY <1>1, <1>4, <2>9, <2>13, <2>15, <3>1 DEF RingInv
  <2> QED BY <2>12, <2>14, <2>16
<1> QED BY <1>5, <1>6

\* Every step keeps the ring in order and is a step of the queue, or none.
LEMMA StepRing ==
    TypeOK /\ TypeOK' /\ RingInv /\ [Next]_vars => RingInv' /\ [Fifo!Next]_Fifo!vars
<1> SUFFICES ASSUME TypeOK, TypeOK', RingInv, [Next]_vars
             PROVE  RingInv' /\ [Fifo!Next]_Fifo!vars
  OBVIOUS
<1> USE DEF rxVars, txVars, bufVars
<1>1. CASE eth_init
  BY <1>1, EthInitRing DEF Fifo!vars
<1>2. CASE Lan_Receive_take
  BY <1>2, TakeRing DEF Fifo!Next, Fifo!Fetch
<1>3. CASE NicReceives
  BY <1>3, NicRing DEF Fifo!Next, Fifo!Arrive, Fifo!vars
<1>4. ASSUME UNCHANGED <<Lan_Initialed, rx, RxCDO, rxBDtail, first_in>>,
             pc' # "process", pc' = "take" => ~rx[rxBDtail].own, Lan_Initialed
      PROVE  RingInv' /\ Waiting' = Waiting /\ InProcess' = Empty
  <2>1. \E n \in 0 .. RX_DESC_NUM : Filled(n)'
    BY <1>4, SameRing DEF RingInv
  <2>2. Waiting' = Waiting
    BY <1>4, SameRing
  <2> QED BY <1>4, <2>1, <2>2 DEF RingInv, InProcess
<1>5. pc # "off" => Lan_Initialed
  BY DEF RingInv
<1>6. CASE Processed
  <2>1. RingInv' /\ Waiting' = Waiting /\ InProcess' = Empty
    BY <1>4, <1>5, <1>6 DEF Processed
  <2>2. InProcess \in Data
    BY <1>6, PlaceFacts DEF Processed, InProcess, RingInv
  <2>3. InProcess # Empty
    BY <2>2, LanAssumption
  <2> QED BY <2>1, <2>3 DEF Fifo!Next, Fifo!Release
<1>7. CASE eth_halt \/ Lan_Receive \/ Lan_Receive_test
  <2>1. RingInv' /\ Waiting' = Waiting /\ InProcess' = Empty
    BY <1>4, <1>5, <1>7 DEF eth_halt, Lan_Receive, Lan_Receive_test
  <2>2. InProcess = Empty
    BY <1>7 DEF eth_halt, Lan_Receive, Lan_Receive_test, InProcess
  <2> QED BY <2>1, <2>2 DEF Fifo!vars
<1>8. ASSUME UNCHANGED <<Lan_Initialed, pc, rx, RxCDO, rxBDtail, first_in>>
      PROVE  RingInv' /\ UNCHANGED Fifo!vars
  <2>1. \E n \in 0 .. RX_DESC_NUM : Filled(n)'
    BY <1>8, SameRing DEF RingInv
  <2>2. Waiting' = Waiting /\ Place(RX_DESC_NUM)' = Place(RX_DESC_NUM)
    BY <1>8, SameRing
  <2>3. InProcess' = InProcess
    BY <1>8 DEF InProcess
  <2>4. RingInv'
    BY <1>8, <2>1, <2>2 DEF RingInv
  <2> QED BY <2>2, <2>3, <2>4 DEF Fifo!vars
<1>9. CASE (\E d \in Data : Compose(d)) \/ Lan_Transmit \/ Lan_Transmit_trigger
  BY <1>8, <1>9 DEF Compose, Lan_Transmit, Lan_Transmit_trigger
<1>10. CASE NicSends \/ NicStops \/ Evict
  BY <1>8, <1>10 DEF NicSends, NicStops, Evict
<1>11. CASE UNCHANGED vars
  BY <1>8, <1>11 DEF vars
<1> QED BY <1>1, <1>2, <1>3, <1>6, <1>7, <1>9, <1>10, <1>11 DEF Next

\* The receiving half of the driver is a queue of frames, for a ring of any size
\* of at least two: every frame the NIC takes is handed to the stack once, in
\* order and unchanged, and the NIC never writes into the buffer of the frame the
\* stack works on, whether the ring is empty, wraps, is full, or was left full by
\* an earlier session.
THEOREM RingIsFifo == Spec => ImplementsFifo
BY InitType, StepType, InitRing, StepRing, PTL DEF Spec, ImplementsFifo, Fifo!Spec

-----------------------------------------------------------------------------
(* The multicast upgrade: the images that fit, and the invariants.         *)

\* No image has as many frames as the array of flags has elements.  The comment
\* at its definition allows 10 MB, one frame more than this: the flag of the last
\* frame of such an image lies behind the array, where multicastListFree does not
\* clear it.
ImagesFit == \A i \in Images : i.len < FWSIZE

-----------------------------------------------------------------------------
(* The invariants.                                                         *)

Cells == {Nothing} \cup (Nat \X Nat)

\* What multicast_stop relies on: a session that succeeded has seen the whole
\* image announced, which lies within the buffer, and has loaded its length.
SessionInv ==
    /\ load_buf \in [Seqs -> Cells]
    /\ net_state = "success" => size = total.len /\ size <= FWSIZE

\* Where a flag within the array is set, the buffer holds a frame of this session.
FlagsFresh == \A k \in Seqs : k # FWSIZE /\ seqNumFlag[k] => load_buf[k] \in fresh

-----------------------------------------------------------------------------
(* Types.                                                                  *)

\* Facts about images that the provers need separately.
LEMMA ImageFacts ==
    /\ \A i \in Images : i.crc \in Nat /\ i.len \in Nat \ {0} /\ i.parts \in Seq(PartitionTypes)
    /\ \A i, j \in Images : i.crc = j.crc => i = j
    /\ FWSIZE \in Nat \ {0}
    /\ TimeoutMax \in Nat
    /\ TryMax \in Nat \ {0}
BY MulticastAssumption

\* The announced image.
LEMMA TotalFacts ==
    ASSUME McastTypeOK
    PROVE  total.len \in Nat
BY ImageFacts DEF McastTypeOK, NoImage

LEMMA FreedType ==
    ASSUME NEW flags
    PROVE  /\ flags \in [Seqs -> BOOLEAN] => Freed(flags) \in [Seqs -> BOOLEAN]
           /\ \A k \in Seqs : Freed(flags)[k] => k = FWSIZE
BY DEF Freed

\* finishFirmwareRecieve keeps what it changes typed, and succeeds only with
\* every frame flagged.
LEMMA FinishFacts ==
    ASSUME McastTypeOK, NEW flags \in [Seqs -> BOOLEAN], finishFirmwareRecieve(flags)
    PROVE  /\ seqNumFlag' \in [Seqs -> BOOLEAN]
           /\ \A k \in Seqs : k # FWSIZE /\ seqNumFlag'[k] => flags[k]
           /\ size' \in Nat
           /\ \/ net_state' = net_state /\ size' = size
              \/ /\ net_state' = "success" /\ size' = total.len /\ total.len <= FWSIZE
                 /\ \A k \in 1 .. total.len : k \in Seqs /\ flags[k]
<1>1. total.len \in Nat /\ size \in Nat
  BY TotalFacts DEF McastTypeOK
<1>2. Freed(flags) \in [Seqs -> BOOLEAN] /\ \A k \in Seqs : Freed(flags)[k] => k = FWSIZE
  BY FreedType
<1>3. CASE Integrity(flags)
  <2>1. \A k \in 1 .. total.len : k \in Seqs /\ flags[k]
    BY <1>3 DEF Integrity
  <2>2. total.len <= FWSIZE
    <3>1. total.len = 0 \/ total.len \in 1 .. total.len
      BY <1>1
    <3> QED BY <1>1, <2>1, <3>1, ImageFacts DEF Seqs
  <2> QED BY <1>1, <1>2, <1>3, <2>1, <2>2 DEF finishFirmwareRecieve
<1>4. CASE ~Integrity(flags)
  BY <1>1, <1>4 DEF finishFirmwareRecieve
<1> QED BY <1>3, <1>4

LEMMA InitMcast == McastInit => McastTypeOK /\ SessionInv
<1> SUFFICES ASSUME McastInit PROVE McastTypeOK /\ SessionInv
  OBVIOUS
<1>1. pkt \in [large : Builds, need : Nat, recv : Nat]
  BY DEF McastInit
<1>2. seqNumFlag \in [Seqs -> BOOLEAN] /\ load_buf \in [Seqs -> Cells]
  BY DEF McastInit, Cells
<1>3. \A k \in Seqs : load_buf[k] = Nothing
  BY DEF McastInit
<1>4. count \in 0 .. TimeoutMax /\ net_try_count \in 1 .. TryMax
  BY ImageFacts DEF McastInit
<1> QED BY <1>1, <1>2, <1>3, <1>4 DEF McastInit, McastTypeOK, SessionInv

\* Data frames.
LEMMA DataType ==
    ASSUME McastTypeOK, SessionInv, NEW i \in Images, NEW k \in 1 .. i.len, RecvData(i, k)
    PROVE  McastTypeOK' /\ SessionInv'
<1> DEFINE flags == [seqNumFlag EXCEPT ![k] = TRUE]
           need  == IF pkt.need = 0 THEN i.len ELSE pkt.need
<1>1. /\ k \in Seqs /\ k \in Nat /\ flags \in [Seqs -> BOOLEAN] /\ i.crc \in Nat /\ i.len \in Nat
      /\ net_pc = "loop" /\ net_state = "continue"
  BY ImageFacts DEF RecvData, McastTypeOK, Listening, Seqs
<1>2. load_buf' = [load_buf EXCEPT ![k] = Frame(i, k)] /\ Frame(i, k) \in Cells
  BY <1>1 DEF RecvData, Frame, Cells
<1>3. load_buf' \in [Seqs -> Cells]
  BY <1>1, <1>2 DEF SessionInv
<1>4. \A n \in Seqs : load_buf'[n] = Nothing \/ \E j \in Images : load_buf'[n] = Frame(j, n)
  <2> TAKE n \in Seqs
  <2>1. CASE n = k
    BY <1>1, <1>2, <2>1 DEF SessionInv
  <2>2. CASE n # k
    <3>1. load_buf'[n] = load_buf[n]
      BY <1>1, <1>2, <2>2 DEF SessionInv
    <3> QED BY <3>1 DEF McastTypeOK
  <2> QED BY <2>1, <2>2
<1>5. /\ pkt' \in [large : Builds, need : Nat, recv : Nat]
      /\ \/ finishFirmwareRecieve(flags)
         \/ seqNumFlag' = flags /\ net_state' = net_state /\ size' = size
  <2>1. CASE ~pkt.large
    BY <2>1 DEF RecvData, McastTypeOK
  <2>2. CASE pkt.large
    <3>1. /\ pkt' = [pkt EXCEPT !.need = need, !.recv = IF pkt.recv > need THEN pkt.recv ELSE pkt.recv + 1]
          /\ \/ finishFirmwareRecieve(flags)
             \/ seqNumFlag' = flags /\ net_state' = net_state /\ size' = size
      BY <2>2 DEF RecvData
    <3>2. need \in Nat /\ pkt.recv \in Nat /\ pkt \in [large : Builds, need : Nat, recv : Nat]
      BY <1>1 DEF McastTypeOK
    <3>3. (IF pkt.recv > need THEN pkt.recv ELSE pkt.recv + 1) \in Nat
      BY <3>2
    <3> HIDE DEF need
    <3>4. pkt' \in [large : Builds, need : Nat, recv : Nat]
      BY <3>1, <3>2, <3>3
    <3> QED BY <3>1, <3>4
  <2> QED BY <2>1, <2>2
<1> HIDE DEF flags
<1>6. /\ seqNumFlag' \in [Seqs -> BOOLEAN] /\ size' \in Nat
      /\ \/ net_state' = net_state /\ size' = size
         \/ /\ net_state' = "success" /\ size' = total.len
            /\ total.len <= FWSIZE
  BY <1>1, <1>5, FinishFacts DEF McastTypeOK
<1>7. /\ UNCHANGED <<total, frame, count, parts, net_try_count, env, net_pc>>
      /\ fresh' = fresh \cup {Frame(i, k)} /\ begin' = TRUE
  BY DEF RecvData, session
<1>10. \A x \in fresh' : \E j \in Images : \E n \in Seqs : x = Frame(j, n)
  BY <1>1, <1>7 DEF McastTypeOK
<1>8. McastTypeOK'
  BY <1>1, <1>4, <1>5, <1>6, <1>7, <1>10 DEF McastTypeOK
<1>9. net_state' = "success" => size' = total'.len /\ size' <= FWSIZE
  BY <1>1, <1>6, <1>7
<1> QED BY <1>3, <1>8, <1>9 DEF SessionInv

\* Announcements.
LEMMA InfoType ==
    ASSUME McastTypeOK, SessionInv, NEW i \in Images, RecvInfo(i)
    PROVE  McastTypeOK' /\ SessionInv'
<1>1. /\ UNCHANGED <<load_buf, count, pkt, net_try_count, env, net_pc, fresh>>
      /\ begin' = TRUE /\ frame' = [frame EXCEPT !.start = TRUE]
      /\ net_state = "continue"
  BY DEF RecvInfo, Listening
<1>2. \/ finishFirmwareRecieve(seqNumFlag) /\ total' = total /\ parts' = parts
      \/ /\ total' = total \/ total' = [len |-> i.len, crc |-> i.crc]
         /\ parts' = i.parts
         /\ UNCHANGED <<seqNumFlag, net_state, size>>
  BY DEF RecvInfo
<1>3. frame' \in [start : BOOLEAN, alive : BOOLEAN, stop : BOOLEAN]
  BY <1>1 DEF McastTypeOK
<1>4. /\ total' = NoImage \/ \E j \in Images : total' = [len |-> j.len, crc |-> j.crc]
      /\ parts' = <<>> \/ \E j \in Images : parts' = j.parts
  BY <1>2 DEF McastTypeOK
<1>5. /\ seqNumFlag' \in [Seqs -> BOOLEAN] /\ size' \in Nat
      /\ \/ net_state' = net_state /\ size' = size
         \/ /\ net_state' = "success" /\ size' = total.len /\ total' = total
            /\ total.len <= FWSIZE
  <2>1. CASE finishFirmwareRecieve(seqNumFlag) /\ total' = total
    BY <2>1, FinishFacts DEF McastTypeOK
  <2>2. CASE UNCHANGED <<seqNumFlag, net_state, size>>
    BY <2>2 DEF McastTypeOK
  <2> QED BY <1>2, <2>1, <2>2
<1>6. McastTypeOK'
  BY <1>1, <1>3, <1>4, <1>5 DEF McastTypeOK
<1> QED BY <1>1, <1>5, <1>6 DEF SessionInv

\* The timer, with net_start_again.
LEMMA TimeoutType ==
    ASSUME McastTypeOK, SessionInv, mcastUpgradeTimeout
    PROVE  McastTypeOK' /\ SessionInv'
<1>1. /\ UNCHANGED <<load_buf, parts, pkt, env>> /\ net_state = "continue" /\ net_pc = "loop"
  BY DEF mcastUpgradeTimeout
<1>2. CASE KeepWaiting
  <2>1. /\ count < TimeoutMax /\ count' = count + 1 /\ begin' = FALSE
        /\ UNCHANGED <<seqNumFlag, total, frame, net_state, size, net_try_count, net_pc, fresh>>
    BY <1>2 DEF mcastUpgradeTimeout, KeepWaiting
  <2>2. count' \in 0 .. TimeoutMax
    BY <2>1, ImageFacts DEF McastTypeOK
  <2> QED BY <1>1, <2>1, <2>2 DEF McastTypeOK, SessionInv
<1>3. CASE ~KeepWaiting
  <2>1. seqNumFlag' = Freed(seqNumFlag) /\ net_start_again /\ begin' = begin
    BY <1>3 DEF mcastUpgradeTimeout
  <2>2. seqNumFlag' \in [Seqs -> BOOLEAN]
    BY <2>1, FreedType DEF McastTypeOK
  <2>3. CASE net_try_count' = net_try_count /\ net_pc' = "boot" /\ UNCHANGED <<session, net_state, size, fresh>>
    BY <1>1, <2>1, <2>2, <2>3 DEF McastTypeOK, SessionInv, session
  <2>4. CASE net_try_count' = IF net_try_count < TryMax THEN net_try_count + 1 ELSE net_try_count
    <3>1. net_try_count' \in 1 .. TryMax /\ 0 \in 0 .. TimeoutMax
      BY <2>4, ImageFacts DEF McastTypeOK
    <3>2. CASE net_pc' = "boot" /\ UNCHANGED <<session, net_state, size, fresh>>
      BY <1>1, <2>1, <2>2, <3>1, <3>2 DEF McastTypeOK, SessionInv, session
    <3>3. CASE net_pc' = net_pc /\ multicast_start
      BY <1>1, <2>1, <2>2, <3>1, <3>3 DEF McastTypeOK, SessionInv, multicast_start
    <3> QED BY <2>1, <2>4, <3>2, <3>3 DEF net_start_again
  <2> QED BY <2>1, <2>3, <2>4 DEF net_start_again
<1> QED BY <1>2, <1>3

\* Every step preserves the types and what multicast_stop relies on.
LEMMA StepMcast == McastTypeOK /\ SessionInv /\ [McastNext]_mcastVars => McastTypeOK' /\ SessionInv'
<1> SUFFICES ASSUME McastTypeOK, SessionInv, [McastNext]_mcastVars PROVE McastTypeOK' /\ SessionInv'
  OBVIOUS
<1>1. CASE RecvDropped
  BY <1>1 DEF RecvDropped, McastTypeOK, SessionInv, session
<1>2. CASE \E i \in Images : RecvInfo(i)
  BY <1>2, InfoType
<1>3. CASE \E i \in Images : \E k \in 1 .. i.len : RecvData(i, k)
  BY <1>3, DataType
<1>4. ASSUME NEW on \in BOOLEAN, RecvAlive(on) PROVE McastTypeOK' /\ SessionInv'
  <2>1. frame' \in [start : BOOLEAN, alive : BOOLEAN, stop : BOOLEAN]
    BY <1>4 DEF RecvAlive, McastTypeOK
  <2> QED BY <1>4, <2>1 DEF RecvAlive, McastTypeOK, SessionInv
<1>5. CASE mcastUpgradeTimeout
  BY <1>5, TimeoutType
<1>6. CASE Abort
  BY <1>6 DEF Abort, McastTypeOK, SessionInv, session
<1>7. CASE multicast_stop
  BY <1>7 DEF multicast_stop, McastTypeOK, SessionInv, session
<1>8. CASE UNCHANGED mcastVars
  BY <1>8 DEF mcastVars, McastTypeOK, SessionInv, session
<1> QED BY <1>1, <1>2, <1>3, <1>4, <1>5, <1>6, <1>7, <1>8 DEF McastNext

\* The variables of the multicast upgrade keep their types, and the buffer only
\* ever holds frames at their places, for any images, bounds and build.
THEOREM MulticastTypeCorrect == McastSpec => []McastTypeOK
BY InitMcast, StepMcast, PTL DEF McastSpec

-----------------------------------------------------------------------------
(* What is installed.                                                      *)

\* multicast_stop hands over an image that a tool sent, or nothing.
LEMMA StopInstalls ==
    ASSUME McastTypeOK, SessionInv, multicast_stop
    PROVE  flash' = flash \/ \E i \in Images : i.known /\ flash' = Content(i)
<1> SUFFICES ASSUME flash' # flash PROVE \E i \in Images : i.known /\ flash' = Content(i)
  OBVIOUS
<1>1. /\ flash' = SubSeq(load_buf, 1, total.len) /\ size > 0 /\ ChecksumRight
      /\ \E j \in Images : j.known /\ load_buf[1] = Frame(j, 1)
      /\ net_state = "success"
  BY DEF multicast_stop
<1>2. PICK i \in Images : /\ i.crc = total.crc /\ i.len = total.len
                          /\ SubSeq(load_buf, 1, i.len) = Content(i)
  BY <1>1 DEF ChecksumRight
<1>3. PICK j \in Images : j.known /\ load_buf[1] = Frame(j, 1)
  BY <1>1
<1>4. /\ i.len \in Nat \ {0} /\ i.len <= FWSIZE /\ FWSIZE \in Nat \ {0}
      /\ load_buf \in [1 .. FWSIZE -> Cells]
  BY <1>1, <1>2, ImageFacts DEF SessionInv, Seqs
<1>5. load_buf \in Seq(Cells) /\ Len(load_buf) = FWSIZE
  BY <1>4
<1>6. 1 \in 1 .. Len(load_buf) + 1 /\ i.len \in 1 - 1 .. Len(load_buf) /\ 1 \in 1 .. i.len - 1 + 1
  BY <1>4, <1>5
<1>7. SubSeq(load_buf, 1, i.len)[1] = load_buf[1]
  <2>1. \A n \in 1 .. i.len - 1 + 1 : SubSeq(load_buf, 1, i.len)[n] = load_buf[1 + n - 1]
    BY <1>5, <1>6, SubSeqProperties
  <2>2. 1 + 1 - 1 = 1
    OBVIOUS
  <2> QED BY <1>6, <2>1, <2>2
<1>8. Content(i)[1] = Frame(i, 1)
  BY <1>4 DEF Content
<1>9. i = j
  BY <1>2, <1>3, <1>7, <1>8, ImageFacts DEF Frame
<1> QED BY <1>1, <1>2, <1>3, <1>9

\* Whatever mixture of frames of whatever images arrives, in whatever order and
\* however often, the upgrade commands are handed one complete image of a known
\* format that a tool sent, or nothing.
THEOREM InstalledImageIsWhole == McastSpec => []OnlyWholeImageInstalled
<1>1. McastInit => OnlyWholeImageInstalled
  BY DEF McastInit, OnlyWholeImageInstalled
<1>2. McastTypeOK /\ SessionInv /\ OnlyWholeImageInstalled /\ [McastNext]_mcastVars => OnlyWholeImageInstalled'
  <2> SUFFICES ASSUME McastTypeOK, SessionInv, OnlyWholeImageInstalled, [McastNext]_mcastVars
               PROVE  OnlyWholeImageInstalled'
    OBVIOUS
  <2>1. CASE multicast_stop
    BY <2>1, StopInstalls DEF OnlyWholeImageInstalled, Content, Frame
  <2>2. CASE flash' = flash
    BY <2>2 DEF OnlyWholeImageInstalled, Content, Frame
  <2>3. multicast_stop \/ flash' = flash
    BY DEF McastNext, mcastVars, RecvDropped, RecvInfo, RecvData, RecvAlive, mcastUpgradeTimeout, Abort
  <2> QED BY <2>1, <2>2, <2>3
<1> QED BY <1>1, <1>2, InitMcast, StepMcast, PTL DEF McastSpec

-----------------------------------------------------------------------------
(* What a session that succeeds has received.                              *)

\* Only finishFirmwareRecieve reports success.
LEMMA FinishFresh ==
    ASSUME ImagesFit, McastTypeOK, NEW flags \in [Seqs -> BOOLEAN], finishFirmwareRecieve(flags),
           net_state = "continue", NEW buf, NEW new,
           \A k \in Seqs : k # FWSIZE /\ flags[k] => buf[k] \in new
    PROVE  /\ \A k \in Seqs : k # FWSIZE /\ seqNumFlag'[k] => buf[k] \in new
           /\ net_state' = "success" => \A k \in 1 .. size' : buf[k] \in new
<1>1. /\ \A k \in Seqs : k # FWSIZE /\ seqNumFlag'[k] => flags[k]
      /\ \/ net_state' = net_state /\ size' = size
         \/ /\ net_state' = "success" /\ size' = total.len
            /\ \A k \in 1 .. total.len : k \in Seqs /\ flags[k]
  BY FinishFacts
<1>2. total.len \in Nat /\ total.len < FWSIZE /\ FWSIZE \in Nat
  BY ImageFacts DEF ImagesFit, McastTypeOK, NoImage
<1>3. \A k \in 1 .. total.len : k # FWSIZE
  BY <1>2
<1> QED BY <1>1, <1>3

LEMMA StepFresh ==
    ImagesFit /\ McastTypeOK /\ SessionInv /\ FlagsFresh /\ SuccessMeansReceived /\ [McastNext]_mcastVars
        => FlagsFresh' /\ SuccessMeansReceived'
<1> SUFFICES ASSUME ImagesFit, McastTypeOK, SessionInv, FlagsFresh, SuccessMeansReceived,
                    [McastNext]_mcastVars
             PROVE  FlagsFresh' /\ SuccessMeansReceived'
  OBVIOUS
<1>1. ASSUME UNCHANGED <<seqNumFlag, load_buf, net_state, size, fresh>>
      PROVE  FlagsFresh' /\ SuccessMeansReceived'
  BY <1>1 DEF FlagsFresh, SuccessMeansReceived
<1>2. CASE RecvDropped \/ (\E on \in BOOLEAN : RecvAlive(on)) \/ Abort \/ multicast_stop \/ UNCHANGED mcastVars
  BY <1>1, <1>2 DEF RecvDropped, RecvAlive, Abort, multicast_stop, mcastVars
<1>3. ASSUME NEW i \in Images, RecvInfo(i) PROVE FlagsFresh' /\ SuccessMeansReceived'
  <2>1. /\ net_state = "continue" /\ fresh' = fresh /\ load_buf' = load_buf
        /\ seqNumFlag \in [Seqs -> BOOLEAN]
    BY <1>3 DEF RecvInfo, Listening, McastTypeOK
  <2>2. CASE finishFirmwareRecieve(seqNumFlag)
    <3>1. \A k \in Seqs : k # FWSIZE /\ seqNumFlag[k] => load_buf[k] \in fresh
      BY DEF FlagsFresh
    <3>2. /\ \A k \in Seqs : k # FWSIZE /\ seqNumFlag'[k] => load_buf[k] \in fresh
          /\ net_state' = "success" => \A k \in 1 .. size' : load_buf[k] \in fresh
      BY <2>1, <2>2, <3>1, FinishFresh
    <3> QED BY <2>1, <3>2 DEF FlagsFresh, SuccessMeansReceived
  <2>3. CASE UNCHANGED <<seqNumFlag, net_state, size>>
    BY <1>1, <2>1, <2>3
  <2> QED BY <1>3, <2>2, <2>3 DEF RecvInfo
<1>4. ASSUME NEW i \in Images, NEW k \in 1 .. i.len, RecvData(i, k)
      PROVE  FlagsFresh' /\ SuccessMeansReceived'
  <2> DEFINE flags == [seqNumFlag EXCEPT ![k] = TRUE]
             new   == fresh \cup {Frame(i, k)}
             buf   == [load_buf EXCEPT ![k] = Frame(i, k)]
  <2>1. /\ net_state = "continue" /\ fresh' = new /\ load_buf' = buf
        /\ flags \in [Seqs -> BOOLEAN] /\ seqNumFlag \in [Seqs -> BOOLEAN] /\ k \in Seqs
    BY <1>4 DEF RecvData, Listening, McastTypeOK
  <2>5. \A n \in Seqs : n # FWSIZE /\ flags[n] => buf[n] \in new
    <3> SUFFICES ASSUME NEW n \in Seqs, n # FWSIZE, flags[n] PROVE buf[n] \in new
      OBVIOUS
    <3>1. CASE n = k
      BY <2>1, <3>1 DEF SessionInv
    <3>2. CASE n # k
      <4>1. buf[n] = load_buf[n] /\ seqNumFlag[n]
        BY <2>1, <3>2 DEF SessionInv
      <4> QED BY <4>1 DEF FlagsFresh
    <3> QED BY <3>1, <3>2
  <2>2. \/ finishFirmwareRecieve(flags)
        \/ seqNumFlag' = flags /\ net_state' = net_state /\ size' = size
    BY <1>4 DEF RecvData
  <2> HIDE DEF flags, new, buf
  <2>3. CASE finishFirmwareRecieve(flags)
    <3>1. /\ \A n \in Seqs : n # FWSIZE /\ seqNumFlag'[n] => buf[n] \in new
          /\ net_state' = "success" => \A n \in 1 .. size' : buf[n] \in new
      BY <2>1, <2>3, <2>5, FinishFresh
    <3> QED BY <2>1, <3>1 DEF FlagsFresh, SuccessMeansReceived
  <2>4. CASE seqNumFlag' = flags /\ net_state' = net_state /\ size' = size
    BY <2>1, <2>4, <2>5 DEF FlagsFresh, SuccessMeansReceived
  <2> QED BY <2>2, <2>3, <2>4
<1>5. CASE mcastUpgradeTimeout
  <2>1. CASE UNCHANGED <<seqNumFlag, net_state, size, fresh>>
    <3>1. load_buf' = load_buf
      BY <1>5 DEF mcastUpgradeTimeout
    <3> QED BY <1>1, <2>1, <3>1
  <2>2. CASE seqNumFlag' = Freed(seqNumFlag) /\ net_start_again
    <3>1. \A k \in Seqs : seqNumFlag'[k] => k = FWSIZE
      BY <2>2, FreedType
    <3>2. net_state' = "continue"
      BY <1>5, <2>2 DEF mcastUpgradeTimeout, net_start_again, multicast_start
    <3> QED BY <3>1, <3>2 DEF FlagsFresh, SuccessMeansReceived
  <2> QED BY <1>5, <2>1, <2>2 DEF mcastUpgradeTimeout
<1> QED BY <1>2, <1>3, <1>4, <1>5 DEF McastNext

\* A session succeeds only with a frame stored in that session in every place of
\* the announced image, for any images that the array of flags has room for: what
\* an earlier session left in the flags or in the buffer stands for nothing.  The
\* frames are known by their numbers; whose frames they are is not said, and the
\* code does not look (InstalledImageIsWhole is about that).
THEOREM SuccessIsReceived == ImagesFit /\ McastSpec => []SuccessMeansReceived
<1> SUFFICES ASSUME ImagesFit PROVE McastSpec => []SuccessMeansReceived
  OBVIOUS
<1>1. McastInit => FlagsFresh /\ SuccessMeansReceived
  BY DEF McastInit, FlagsFresh, SuccessMeansReceived
<1>2. McastTypeOK /\ SessionInv /\ FlagsFresh /\ SuccessMeansReceived /\ [McastNext]_mcastVars
        => FlagsFresh' /\ SuccessMeansReceived'
  BY StepFresh
<1> QED BY <1>1, <1>2, InitMcast, StepMcast, PTL DEF McastSpec
=============================================================================
