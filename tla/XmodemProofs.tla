---------------------------- MODULE XmodemProofs ----------------------------
(***************************************************************************)
(* Proofs about the XMODEM updater, for images, packets, pages and blocks  *)
(* of every size and any number of faults.                                 *)
(***************************************************************************)
EXTENDS Xmodem, SequenceTheorems, FiniteSetTheorems, WellFoundedInduction, TLAPS

-----------------------------------------------------------------------------
(* Arithmetic.                                                             *)

\* A quotient that is below n belongs to a number below n * p.
LEMMA DivBound ==
    ASSUME NEW p \in Nat \ {0}, NEW a \in Nat, NEW n \in Nat, a \div p < n
    PROVE  a < n * p
<1> DEFINE d == a \div p
<1>1. a = p * d + (a % p) /\ (a % p) < p /\ d \in Nat /\ (a % p) \in Nat
  OBVIOUS
<1>2. d + 1 <= n
  BY <1>1
<1> HIDE DEF d
<1>3. p * (d + 1) <= p * n
  BY <1>1, <1>2
<1> QED BY <1>1, <1>3

LEMMA Cancel ==
    ASSUME NEW a \in Nat, NEW b \in Nat, NEW c \in Nat \ {0}, a * c <= b * c
    PROVE  a <= b
OBVIOUS

LEMMA DivExact ==
    ASSUME NEW w \in Nat, NEW p \in Nat \ {0}, NEW r \in Nat, r < p
    PROVE  (w * p + r) \div p = w
OBVIOUS

LEMMA ModSucc ==
    ASSUME NEW x \in Nat, NEW m \in Nat \ {0}
    PROVE  ((x % m) + 1) % m = (x + 1) % m
<1> DEFINE q == x \div m
           r == x % m
<1>1. x = m * q + r /\ q \in Nat /\ r \in Nat /\ r < m
  OBVIOUS
<1> HIDE DEF q, r
<1>2. CASE r + 1 < m
  <2>1. (m * q + (r + 1)) % m = r + 1 /\ (r + 1) % m = r + 1
    BY <1>1, <1>2
  <2> QED BY <1>1, <2>1 DEF r
<1>3. CASE ~(r + 1 < m)
  <2>1. r + 1 = m
    BY <1>1, <1>3
  <2>2. x + 1 = m * (q + 1) + 0
    BY <1>1, <2>1
  <2>3. (m * (q + 1) + 0) % m = 0 /\ m % m = 0
    BY <1>1
  <2> QED BY <2>1, <2>2, <2>3 DEF r
<1> QED BY <1>2, <1>3

\* Numbers less than m apart with the same remainder are equal.
LEMMA ModEqual ==
    ASSUME NEW x \in Nat, NEW y \in Nat, NEW m \in Nat \ {0}, x % m = y % m, x - y < m, y - x < m
    PROVE  x = y
<1> DEFINE p == x \div m
           q == y \div m
           r == x % m
<1>1. x = m * p + r /\ p \in Nat /\ r \in Nat
  OBVIOUS
<1>2. y = m * q + r /\ q \in Nat
  OBVIOUS
<1> HIDE DEF p, q, r
<1>3. ~(p >= q + 1)
  <2> SUFFICES ASSUME p >= q + 1 PROVE FALSE
    OBVIOUS
  <2>1. m * p >= m * (q + 1)
    BY <1>1, <1>2
  <2> QED BY <1>1, <1>2, <2>1
<1>4. ~(q >= p + 1)
  <2> SUFFICES ASSUME q >= p + 1 PROVE FALSE
    OBVIOUS
  <2>1. m * q >= m * (p + 1)
    BY <1>1, <1>2
  <2> QED BY <1>1, <1>2, <2>1
<1> QED BY <1>1, <1>2, <1>3, <1>4

LEMMA Constants ==
    /\ FileUnits \in Nat \ {0} /\ PktUnits \in Nat \ {0} /\ PageUnits \in Nat \ {0}
    /\ PktUnits <= PageUnits
    /\ PagesPerBlock \in Nat \ {0} /\ EraseBlocks \in Nat \ {0} /\ NumBlocks \in Nat
    /\ SeqMod \in Nat /\ SeqMod >= 3
    /\ MAXRETRANS \in Nat \ {0} /\ MaxRetry \in Nat \ {0} /\ MaxFaults \in Nat
    /\ EraseBlocks * PagesPerBlock \in Nat \ {0}
    /\ 2 * (EraseBlocks * PagesPerBlock) <= NumBlocks * PagesPerBlock
    /\ NumBlocks * PagesPerBlock \in Nat
    /\ destsz = (EraseBlocks * PagesPerBlock) * PageUnits
    /\ destsz \in Nat
    /\ Packets \in Nat \ {0}
<1>1. /\ FileUnits \in Nat \ {0} /\ PktUnits \in Nat \ {0} /\ PageUnits \in Nat \ {0}
      /\ PktUnits <= PageUnits
      /\ PagesPerBlock \in Nat \ {0} /\ EraseBlocks \in Nat \ {0} /\ NumBlocks \in Nat
      /\ SeqMod \in Nat /\ SeqMod >= 3 /\ NumBlocks >= 2 * EraseBlocks
      /\ MAXRETRANS \in Nat \ {0} /\ MaxRetry \in Nat \ {0} /\ MaxFaults \in Nat
  BY XmodemAssumption
<1>2. EraseBlocks * PagesPerBlock \in Nat \ {0} /\ NumBlocks * PagesPerBlock \in Nat
  BY <1>1
<1>3. 2 * (EraseBlocks * PagesPerBlock) <= NumBlocks * PagesPerBlock
  BY <1>1
<1>4. destsz = (EraseBlocks * PagesPerBlock) * PageUnits /\ destsz \in Nat
  BY <1>1, <1>2 DEF destsz
<1>5. Packets \in Nat \ {0}
  <2>1. FileUnits + PktUnits - 1 \in Nat /\ FileUnits + PktUnits - 1 >= PktUnits
    BY <1>1
  <2>2. \A x \in Nat : x >= PktUnits => x \div PktUnits \in Nat \ {0}
    BY <1>1
  <2> QED BY <2>1, <2>2 DEF Packets
<1> QED BY <1>1, <1>2, <1>3, <1>4, <1>5

-----------------------------------------------------------------------------
(* Pages and bad blocks.                                                   *)

\* The pages in front of a destination that are not in a bad block.
Pages(dest, bad) == {a \in 0 .. dest - 1 : Block(a) \notin bad}

LEMMA PageBlocks ==
    /\ \A a \in Nat : Block(a) \in Nat
    /\ \A a \in Nat : Block(a) < EraseBlocks => a < EraseBlocks * PagesPerBlock
    /\ Block(EraseBlocks * PagesPerBlock) = EraseBlocks
<1>1. \A a \in Nat : Block(a) \in Nat
  BY Constants DEF Block
<1>2. ASSUME NEW a \in Nat, Block(a) < EraseBlocks PROVE a < EraseBlocks * PagesPerBlock
  BY <1>2, Constants, DivBound DEF Block
<1>3. Block(EraseBlocks * PagesPerBlock) = EraseBlocks
  <2>1. (EraseBlocks * PagesPerBlock + 0) \div PagesPerBlock = EraseBlocks
    BY Constants, DivExact
  <2>2. EraseBlocks * PagesPerBlock + 0 = EraseBlocks * PagesPerBlock
    BY Constants
  <2> QED BY <2>1, <2>2 DEF Block
<1> QED BY <1>1, <1>2, <1>3

\* A set of numbers that is not empty has a smallest element.
LEMMA Smallest ==
    ASSUME NEW S \in SUBSET Nat, S # {}
    PROVE  \E x \in S : \A y \in S : x <= y
<1>1. PICK x \in S : \A y \in S : ~(<<y, x>> \in OpToRel(<, Nat))
  BY NatLessThanWellFounded, WFMin
<1>2. \A y \in S : ~(y < x)
  BY <1>1 DEF OpToRel
<1> QED BY <1>2

\* There is a good page behind every page that the updater gets to: the blocks
\* behind the erased ones are not marked.
LEMMA NextGoodFacts ==
    ASSUME bbi_table \subseteq 0 .. EraseBlocks - 1, NEW d \in Nat,
           d < 2 * (EraseBlocks * PagesPerBlock)
    PROVE  /\ NextGood(d) \in Addrs
           /\ NextGood(d) \in Nat
           /\ NextGood(d) >= d
           /\ Block(NextGood(d)) \notin bbi_table
           /\ \A c \in d .. NextGood(d) - 1 : Block(c) \in bbi_table
<1> DEFINE e == EraseBlocks * PagesPerBlock
           S == {b \in Nat : b >= d /\ Block(b) \notin bbi_table}
           P(b) == /\ b >= d
                   /\ Block(b) \notin bbi_table
                   /\ \A c \in d .. b - 1 : Block(c) \in bbi_table
<1>1. e \in Nat \ {0} /\ 2 * e <= NumBlocks * PagesPerBlock /\ NumBlocks * PagesPerBlock \in Nat
  BY Constants
<1>2. \E b \in S : b < 2 * e
  <2>1. CASE d < e
    <3>1. Block(e) \notin bbi_table
      BY PageBlocks, Constants
    <3>2. e \in S /\ e < 2 * e
      BY <1>1, <2>1, <3>1
    <3> QED BY <3>2
  <2>2. CASE d >= e
    <3>1. ~(Block(d) < EraseBlocks)
      BY <1>1, <2>2, PageBlocks
    <3>2. Block(d) \notin 0 .. EraseBlocks - 1
      BY <3>1, Constants
    <3>3. Block(d) \notin bbi_table
      BY <3>2
    <3>4. d >= d
      OBVIOUS
    <3>5. d \in S
      BY <3>3, <3>4
    <3> QED BY <3>5
  <2> QED BY <1>1, <2>1, <2>2
<1>3. PICK b \in S : \A y \in S : b <= y
  BY <1>2, Smallest
<1>4. b \in Nat /\ b < 2 * e
  BY <1>1, <1>2, <1>3
<1>5. b \in Addrs
  BY <1>1, <1>4 DEF Addrs
<1>6. \A c \in d .. b - 1 : Block(c) \in bbi_table
  <2> SUFFICES ASSUME NEW c \in d .. b - 1, Block(c) \notin bbi_table PROVE FALSE
    OBVIOUS
  <2>1. c \in S /\ c < b
    BY <1>4
  <2> QED BY <1>3, <1>4, <2>1
<1>7. P(b)
  BY <1>3, <1>6
<1>8. NextGood(d) = CHOOSE x \in Addrs : P(x)
  BY DEF NextGood
<1> HIDE DEF P
<1>9. NextGood(d) \in Addrs /\ P(NextGood(d))
  BY <1>5, <1>7, <1>8
<1>10. \A x \in Addrs : x \in Nat
  BY <1>1 DEF Addrs
<1> QED BY <1>9, <1>10 DEF P

LEMMA PagesFinite ==
    ASSUME NEW d \in Nat, NEW bad
    PROVE  IsFiniteSet(Pages(d, bad)) /\ Cardinality(Pages(d, bad)) \in Nat
<1>1. IsFiniteSet(0 .. d - 1) /\ Pages(d, bad) \in SUBSET (0 .. d - 1)
  BY FS_Interval DEF Pages
<1>2. IsFiniteSet(Pages(d, bad))
  BY <1>1, FS_Subset
<1> QED BY <1>2, FS_CardinalityType

\* Writing the next good page adds it; passing bad pages adds none.
LEMMA PagesGrow ==
    ASSUME NEW d \in Nat, NEW bad, NEW a \in Nat, a >= d, Block(a) \notin bad,
           \A c \in d .. a - 1 : Block(c) \in bad
    PROVE  /\ Pages(a, bad) = Pages(d, bad)
           /\ Pages(a + 1, bad) = Pages(d, bad) \cup {a}
           /\ a \notin Pages(d, bad)
           /\ Cardinality(Pages(a + 1, bad)) = Cardinality(Pages(d, bad)) + 1
<1>1. \A c \in 0 .. a - 1 : c \in 0 .. d - 1 \/ c \in d .. a - 1
  OBVIOUS
<1>2. 0 .. d - 1 \subseteq 0 .. a - 1
  OBVIOUS
<1>3. Pages(a, bad) = Pages(d, bad)
  BY <1>1, <1>2 DEF Pages
<1>4. 0 .. (a + 1) - 1 = (0 .. a - 1) \cup {a}
  OBVIOUS
<1>5. Pages(a + 1, bad) = Pages(a, bad) \cup {a}
  BY <1>4 DEF Pages
<1>6. a \notin Pages(d, bad)
  BY DEF Pages
<1>7. IsFiniteSet(Pages(d, bad))
  BY PagesFinite
<1>8. Cardinality(Pages(d, bad) \cup {a}) = Cardinality(Pages(d, bad)) + 1
  BY <1>6, <1>7, FS_AddElement
<1> QED BY <1>3, <1>5, <1>6, <1>8

\* The destination is not further on than by the bad pages, which are in the
\* erased blocks.
LEMMA FewBadPages ==
    ASSUME NEW d \in Nat, NEW bad \in SUBSET (0 .. EraseBlocks - 1)
    PROVE  d <= Cardinality(Pages(d, bad)) + EraseBlocks * PagesPerBlock
<1> DEFINE G == Pages(d, bad)
           B == {a \in 0 .. d - 1 : Block(a) \in bad}
           e == EraseBlocks * PagesPerBlock
<1>1. e \in Nat \ {0}
  BY Constants
<1>2. B \in SUBSET (0 .. e - 1)
  <2> SUFFICES ASSUME NEW a \in B PROVE a \in 0 .. e - 1
    OBVIOUS
  <2>0. a \in 0 .. d - 1 /\ Block(a) \in 0 .. EraseBlocks - 1
    OBVIOUS
  <2>1. a \in Nat /\ Block(a) < EraseBlocks
    BY <2>0, Constants
  <2>2. a < e
    BY <2>1, PageBlocks
  <2> QED BY <1>1, <2>1, <2>2
<1>3. IsFiniteSet(0 .. e - 1) /\ Cardinality(0 .. e - 1) = e
  BY <1>1, FS_Interval
<1>4. IsFiniteSet(B) /\ Cardinality(B) <= e
  <2> HIDE DEF B, e
  <2>1. /\ IsFiniteSet(B)
        /\ Cardinality(B) <= Cardinality(0 .. e - 1)
    BY <1>2, <1>3, FS_Subset
  <2> QED BY <2>1, <1>3
<1>5. Cardinality(B) \in Nat
  BY <1>4, FS_CardinalityType
<1>6. IsFiniteSet(G) /\ Cardinality(G) \in Nat
  BY PagesFinite
<1>7. 0 .. d - 1 = G \cup B /\ G \cap B = {}
  BY DEF Pages
<1>8. Cardinality(0 .. d - 1) = d
  <2>1. Cardinality(0 .. d - 1) = IF 0 > d - 1 THEN 0 ELSE d - 1 - 0 + 1
    BY FS_Interval
  <2> QED BY <2>1
<1> HIDE DEF G, B, e
<1>9. Cardinality(G \cup B) = Cardinality(G) + Cardinality(B) - Cardinality(G \cap B)
  BY <1>4, <1>6, FS_Union
<1>10. Cardinality(G \cap B) = 0
  BY <1>7, FS_EmptySet
<1>11. d = Cardinality(G) + Cardinality(B)
  <2>1. Cardinality(G \cup B) = d
    BY <1>7, <1>8
  <2> QED BY <2>1, <1>5, <1>6, <1>9, <1>10
<1>12. d <= Cardinality(G) + e
  BY <1>1, <1>4, <1>5, <1>6, <1>11
<1> QED BY <1>12 DEF G, e
-----------------------------------------------------------------------------
(* The inductive invariant.                                                *)

Messages == [kind : {"data", "EOT", "CAN CAN", "CAN", "damaged", "headless"}, k : Nat]
FaultLog == [kinds : Lines, n : 0 .. MaxFaults]

Written == Cardinality(WrittenPages)

\* What was received is on the flash or in the buffer, less than a page of it in
\* the buffer; the page that failed to verify stays there and is not counted.
StoreInv ==
    /\ phase # "end" => ret = 0 /\ retrans >= 1
    /\ phase = "erase" => flash_dest = 0 /\ len = 0 /\ buf = <<>> /\ trychar = "C"
    /\ len <= destsz
    /\ Written * PageUnits <= len
    /\ ret # VERIFY_ERROR => len = Written * PageUnits + Len(buf) /\ Len(buf) < PageUnits

\* No message is sent again while it or its answer is only late.
Sequential == "early" \notin faults.kinds

\* Every message on its way to the receiver is the one that the sender is at.
MessagesInv ==
    \A i \in 1 .. Len(toRecv) :
        /\ toRecv[i].kind = "data" => toRecv[i].k = cur /\ cur < Packets
        /\ toRecv[i].kind = "EOT" => cur = Packets

\* c packets were received: the sender is at the next one, or at the last one if
\* its acknowledgement is still to come.  At most one message is under way.
ProtocolAt(c) ==
    /\ len = c * PktUnits
    /\ packetno = (c + 1) % SeqMod
    /\ cur = c \/ cur = c - 1
    /\ MessagesInv
    /\ sender = "start" => toRecv = <<>> /\ cur = 0 /\ c = 0
    /\ sender = "await" => toRecv = <<>> \/ toSend = <<>>
    /\ sender = "await" => Len(toRecv) <= 1 /\ Len(toSend) <= 1
    /\ sender = "await" /\ toSend = <<"ACK">> => cur = c - 1

ProtocolInv ==
    /\ len <= Packets * PktUnits
    /\ phase = "erase" => toSend = <<>> /\ sender = "start"
    /\ phase # "end" /\ len < destsz => \E c \in Nat : ProtocolAt(c)

\* Only a line with that fault shows the receiver a packet without its first byte.
HeadlessInv ==
    \A i \in 1 .. Len(toRecv) :
        toRecv[i].kind = "headless" => "headless" \in faults.kinds

\* The units received are those of the file, in order.
StreamInv ==
    /\ FlashIsPrefix
    /\ ret # VERIFY_ERROR => buf = Units(Written * PageUnits + 1, Len(buf))

-----------------------------------------------------------------------------
(* What the parts of the actions do.                                       *)

LEMMA AppendTyped ==
    ASSUME NEW S, NEW s \in Seq(S), NEW x \in S
    PROVE  Append(s, x) \in Seq(S)
OBVIOUS

LEMMA AppendAt ==
    ASSUME NEW S, NEW s \in Seq(S), NEW x \in S, NEW t, t = Append(s, x), NEW i \in 1 .. Len(t)
    PROVE  t[i] = x \/ (i \in 1 .. Len(s) /\ t[i] = s[i])
OBVIOUS

LEMMA FaultFacts ==
    ASSUME TypeOK, NEW kind, Fault(kind)
    PROVE  faults' \in FaultLog /\ faults'.kinds = faults.kinds /\ kind \in faults.kinds
<1>1. faults \in FaultLog /\ faults.n < MaxFaults /\ kind \in faults.kinds
      /\ faults' = [faults EXCEPT !.n = faults.n + 1]
  BY DEF TypeOK, FaultLog, Fault
<1>2. faults.n + 1 \in 0 .. MaxFaults
  BY <1>1, Constants DEF FaultLog
<1> QED BY <1>1, <1>2 DEF FaultLog

LEMMA AnswerFacts ==
    ASSUME TypeOK, NEW q \in Chars, Answer(q)
    PROVE  /\ toSend' \in Seq(Chars)
           /\ faults' \in FaultLog /\ faults'.kinds = faults.kinds
           /\ \/ toSend' = toSend
              \/ toSend' = Append(toSend, q)
              \/ sender = "start"
<1>1. toSend \in Seq(Chars) /\ faults \in FaultLog
  BY DEF TypeOK, FaultLog
<1>2. CASE UNCHANGED toSend /\ Fault("loss")
  BY <1>1, <1>2, FaultFacts
<1>3. CASE toSend' = (IF sender = "start" THEN <<q>> ELSE Append(toSend, q)) /\ UNCHANGED faults
  <2>1. <<q>> \in Seq(Chars) /\ Append(toSend, q) \in Seq(Chars)
    BY <1>1
  <2> QED BY <1>1, <1>3, <2>1
<1> QED BY <1>2, <1>3 DEF Answer

LEMMA TransmitFacts ==
    ASSUME TypeOK, NEW m \in Messages, NEW queue \in Seq(Messages), Transmit(queue, m)
    PROVE  /\ toRecv' \in Seq(Messages)
           /\ faults' \in FaultLog /\ faults'.kinds = faults.kinds
           /\ \/ toRecv' = queue
              \/ \E x \in Messages :
                    /\ toRecv' = Append(queue, x)
                    /\ \/ x = m
                       \/ x.kind = "damaged"
                       \/ x.kind = "headless" /\ "headless" \in faults.kinds
<1>1. faults \in FaultLog
  BY DEF TypeOK, FaultLog
<1>2. \A x \in Messages : Append(queue, x) \in Seq(Messages)
  OBVIOUS
<1>3. CASE toRecv' = Append(queue, m) /\ UNCHANGED faults
  BY <1>1, <1>2, <1>3
<1>4. CASE toRecv' = queue /\ Fault("loss")
  BY <1>4, FaultFacts
<1>5. CASE toRecv' = Append(queue, Msg("damaged")) /\ Fault("damage")
  <2>1. Msg("damaged") \in Messages /\ Msg("damaged").kind = "damaged"
    BY DEF Msg, Messages
  <2> QED BY <1>2, <1>5, <2>1, FaultFacts
<1>6. CASE toRecv' = Append(queue, Msg("headless")) /\ Fault("headless")
  <2>1. Msg("headless") \in Messages /\ Msg("headless").kind = "headless"
    BY DEF Msg, Messages
  <2> QED BY <1>2, <1>6, <2>1, FaultFacts
<1> QED BY <1>3, <1>4, <1>5, <1>6 DEF Transmit

LEMMA CurrentFacts ==
    ASSUME NEW k \in 0 .. Packets
    PROVE  /\ Current(k) \in Messages
           /\ Current(k).kind = "data" => Current(k).k = k /\ k < Packets
           /\ Current(k).kind = "EOT" => k = Packets
           /\ Current(k).kind \in {"data", "EOT"}
<1>1. k \in Nat /\ Packets \in Nat
  BY Constants
<1>2. CASE k < Packets
  BY <1>1, <1>2 DEF Current, Data, Messages
<1>3. CASE ~(k < Packets)
  BY <1>1, <1>3 DEF Current, Msg, Messages
<1> QED BY <1>2, <1>3

LEMMA NextTryFacts ==
    ASSUME TypeOK, phase = "receive", ret = 0, NextTry
    PROVE  /\ trychar' \in {"C", "NAK", "none"}
           /\ retry' \in 0 .. MaxRetry - 1
           /\ \/ ret' = 0 /\ phase' = "receive"
              \/ ret' = SYNC_ERROR /\ phase' = "end"
           /\ toSend' \in Seq(Chars)
           /\ faults' \in FaultLog /\ faults'.kinds = faults.kinds
           /\ \/ toSend' = toSend
              \/ \E q \in {"C", "NAK"} : toSend' = Append(toSend, q)
              \/ sender = "start"
<1> DEFINE again == retry + 1 < MaxRetry
           char == IF again THEN trychar ELSE "NAK"
<1>1. trychar \in {"C", "NAK", "none"} /\ retry \in 0 .. MaxRetry - 1
      /\ toSend \in Seq(Chars) /\ faults \in FaultLog
  BY DEF TypeOK, FaultLog
<1>2. char \in {"C", "NAK", "none"}
  BY <1>1
<1>3. CASE ~(again \/ trychar = "C")
  BY <1>1, <1>3 DEF NextTry, Return
<1>4. CASE again \/ trychar = "C"
  <2>1. /\ trychar' = char
        /\ retry' = IF again THEN retry + 1 ELSE 0
        /\ IF char = "none" THEN UNCHANGED <<toSend, faults>> ELSE Answer(char)
        /\ UNCHANGED <<ret, phase>>
    BY <1>4 DEF NextTry
  <2>2. retry' \in 0 .. MaxRetry - 1
    BY <1>1, <2>1, Constants
  <2> HIDE DEF char, again
  <2>3. CASE char = "none"
    BY <1>1, <1>2, <2>1, <2>2, <2>3
  <2>4. CASE char # "none"
    <3>1. char \in {"C", "NAK"} /\ char \in Chars /\ Answer(char)
      BY <1>2, <2>1, <2>4 DEF Chars
    <3> QED BY <1>2, <2>1, <2>2, <3>1, AnswerFacts
  <2> QED BY <2>3, <2>4
<1> QED BY <1>3, <1>4

LEMMA UnitsFacts ==
    ASSUME NEW f \in Nat, NEW n \in Nat
    PROVE  /\ Units(f, n) \in Seq(Int)
           /\ Len(Units(f, n)) = n
           /\ \A i \in 1 .. n : Units(f, n)[i] = Unit(f + i - 1)
<1>1. \A i \in 1 .. n : Unit(f + i - 1) \in Int
  BY Constants DEF Unit
<1> QED BY <1>1 DEF Units

LEMMA CountFacts ==
    ASSUME len \in Nat, len <= destsz
    PROVE  /\ Count \in Nat /\ Count <= PktUnits /\ len + Count <= destsz
           /\ len = destsz => Count = 0
           /\ len + Count < destsz => Count = PktUnits
BY Constants DEF Count

LEMMA ReceivedFacts ==
    ASSUME TypeOK, StoreInv, NEW k \in 0 .. Packets - 1
    PROVE  /\ Received(k) \in Seq(Int)
           /\ Len(Received(k)) = Len(buf) + Count
           /\ Len(buf) \in Nat
<1>0. buf \in Seq(Int) /\ len \in Nat /\ len <= destsz
  BY DEF TypeOK, StoreInv
<1>1. buf \in Seq(Int) /\ Count \in Nat /\ Len(buf) \in Nat
  BY <1>0, CountFacts
<1>2. k * PktUnits + 1 \in Nat
  BY Constants
<1>3. Units(k * PktUnits + 1, Count) \in Seq(Int) /\ Len(Units(k * PktUnits + 1, Count)) = Count
  BY <1>1, <1>2, UnitsFacts
<1> QED BY <1>1, <1>3, ConcatProperties DEF Received

\* The state of the receiver that does not belong to the flash.
RecvType ==
    /\ phase \in {"erase", "receive", "end"}
    /\ ret \in {CANCELED, SYNC_ERROR, RETRY_ERROR, VERIFY_ERROR} \cup Nat
    /\ trychar \in {"C", "NAK", "none"}
    /\ retry \in 0 .. MaxRetry - 1
    /\ packetno \in 0 .. SeqMod - 1
    /\ retrans \in 0 .. MAXRETRANS

FlashType ==
    /\ flash \in [Addrs -> Seq(Int)]
    /\ bbi_table \subseteq 0 .. EraseBlocks - 1
    /\ flash_dest \in 0 .. NumBlocks * PagesPerBlock
    /\ buf \in Seq(Int)
    /\ len \in Nat

LineType ==
    /\ toRecv \in Seq(Messages)
    /\ toSend \in Seq(Chars)
    /\ cur \in 0 .. Packets
    /\ sender \in {"start", "await", "done"}
    /\ faults \in FaultLog

LEMMA TypeParts == TypeOK <=> RecvType /\ FlashType /\ LineType
BY DEF TypeOK, RecvType, FlashType, LineType, Messages, FaultLog

\* The pages that are written are no more than fit into the erased blocks.
LEMMA WrittenFacts ==
    ASSUME TypeOK, StoreInv
    PROVE  /\ WrittenPages = Pages(flash_dest, bbi_table)
           /\ Written \in Nat
           /\ Written <= EraseBlocks * PagesPerBlock
           /\ flash_dest \in Nat
           /\ flash_dest <= Written + EraseBlocks * PagesPerBlock
<1>1. WrittenPages = Pages(flash_dest, bbi_table)
  BY DEF WrittenPages, Pages
<1>2. flash_dest \in Nat /\ bbi_table \in SUBSET (0 .. EraseBlocks - 1) /\ len \in Nat
  <2>1. FlashType
    BY TypeParts
  <2>2. flash_dest \in 0 .. NumBlocks * PagesPerBlock
    BY <2>1 DEF FlashType
  <2> QED BY <2>1, <2>2, Constants DEF FlashType
<1>3. Written \in Nat
  BY <1>1, <1>2, PagesFinite DEF Written
<1>4. flash_dest <= Written + EraseBlocks * PagesPerBlock
  BY <1>1, <1>2, FewBadPages DEF Written
<1>5. Written * PageUnits <= len /\ len <= destsz
  BY DEF StoreInv
<1>6. Written * PageUnits <= (EraseBlocks * PagesPerBlock) * PageUnits
  <2>1. Written * PageUnits \in Nat
    BY <1>3, Constants
  <2> QED BY <1>2, <1>5, <2>1, Constants
<1>7. Written <= EraseBlocks * PagesPerBlock
  BY <1>3, <1>6, Constants, Cancel
<1> QED BY <1>1, <1>2, <1>3, <1>4, <1>7

\* A complete page has a place on the flash.
LEMMA PagePlace ==
    ASSUME TypeOK, StoreInv, ret = 0, NEW k \in 0 .. Packets - 1, PageFull(Received(k))
    PROVE  LET a == NextGood(flash_dest)
           IN /\ a \in Addrs /\ a \in Nat /\ a >= flash_dest
              /\ Block(a) \notin bbi_table
              /\ \A c \in flash_dest .. a - 1 : Block(c) \in bbi_table
              /\ Pages(a, bbi_table) = WrittenPages
              /\ Pages(a + 1, bbi_table) = WrittenPages \cup {a}
              /\ a \notin WrittenPages
              /\ Cardinality(Pages(a + 1, bbi_table)) = Written + 1
<1>1. /\ bbi_table \subseteq 0 .. EraseBlocks - 1 /\ len \in Nat /\ len <= destsz
      /\ len = Written * PageUnits + Len(buf) /\ Len(buf) < PageUnits
  <2>1. FlashType
    BY TypeParts
  <2>2. ret # VERIFY_ERROR
    BY DEF VERIFY_ERROR
  <2> QED BY <2>1, <2>2 DEF FlashType, StoreInv
<1>2. Len(buf) \in Nat /\ Len(buf) + Count >= PageUnits
  BY ReceivedFacts DEF PageFull
<1>3. Count \in Nat /\ len + Count <= destsz
  BY <1>1, CountFacts
<1>4. Written \in Nat /\ flash_dest \in Nat /\ flash_dest <= Written + EraseBlocks * PagesPerBlock
      /\ WrittenPages = Pages(flash_dest, bbi_table)
  BY WrittenFacts
<1>5. (Written + 1) * PageUnits <= (EraseBlocks * PagesPerBlock) * PageUnits
  <2>1. (Written + 1) * PageUnits = Written * PageUnits + PageUnits /\ Written * PageUnits \in Nat
    BY <1>4, Constants
  <2> QED BY <1>1, <1>2, <1>3, <2>1, Constants
<1>6. Written + 1 <= EraseBlocks * PagesPerBlock
  BY <1>4, <1>5, Constants, Cancel
<1>7. flash_dest < 2 * (EraseBlocks * PagesPerBlock)
  BY <1>4, <1>6, Constants
<1> DEFINE a == NextGood(flash_dest)
<1>8. /\ a \in Addrs /\ a \in Nat /\ a >= flash_dest
      /\ Block(a) \notin bbi_table
      /\ \A c \in flash_dest .. a - 1 : Block(c) \in bbi_table
  BY <1>1, <1>4, <1>7, NextGoodFacts
<1> HIDE DEF a
<1>9. /\ Pages(a, bbi_table) = Pages(flash_dest, bbi_table)
      /\ Pages(a + 1, bbi_table) = Pages(flash_dest, bbi_table) \cup {a}
      /\ a \notin Pages(flash_dest, bbi_table)
      /\ Cardinality(Pages(a + 1, bbi_table)) = Cardinality(Pages(flash_dest, bbi_table)) + 1
  BY <1>4, <1>8, PagesGrow
<1> QED BY <1>4, <1>8, <1>9 DEF a, Written

\* Actions that store nothing and leave the result alone.
Idle == UNCHANGED <<flashVars, phase, ret, trychar, retry, packetno, retrans, buf, len>>

\* The flash, the buffer and the length are left alone, and the result is not that of
\* a page that failed.
LEMMA KeepsStore ==
    ASSUME StoreInv, UNCHANGED <<flashVars, buf, len>>, phase = "receive",
           phase' \in {"receive", "end"},
           phase' # "end" => ret' = 0 /\ retrans' >= 1
    PROVE  StoreInv'
<1>1. ret = 0 /\ ret # VERIFY_ERROR
  BY DEF StoreInv, VERIFY_ERROR
<1>2. Written' = Written
  BY DEF Written, WrittenPages, flashVars
<1> QED BY <1>1, <1>2 DEF StoreInv

LEMMA IdleStep ==
    ASSUME RecvType, FlashType, StoreInv, Idle
    PROVE  RecvType' /\ FlashType' /\ StoreInv'
<1>1. Written' = Written
  BY DEF Idle, Written, WrittenPages, flashVars
<1> QED BY <1>1 DEF Idle, RecvType, FlashType, StoreInv, flashVars

-----------------------------------------------------------------------------
(* Types and the store.                                                    *)

BaseInv == TypeOK /\ StoreInv

LEMMA SenderBase ==
    ASSUME BaseInv, Sender \/ SenderTooEarly \/ SenderCancels
    PROVE  BaseInv'
<1>1. RecvType /\ FlashType /\ LineType /\ StoreInv /\ TypeOK
  BY TypeParts DEF BaseInv
<1>2. toRecv \in Seq(Messages) /\ toSend \in Seq(Chars) /\ cur \in 0 .. Packets /\ faults \in FaultLog
  BY <1>1 DEF LineType
<1>3. Current(cur) \in Messages
  BY <1>2, CurrentFacts
<1>4. ASSUME Idle, LineType' PROVE BaseInv'
  <2>1. RecvType' /\ FlashType' /\ StoreInv'
    BY <1>1, <1>4, IdleStep
  <2>2. (RecvType /\ FlashType /\ LineType)' => TypeOK'
    BY DEF TypeOK, RecvType, FlashType, LineType, Messages, FaultLog
  <2> QED BY <1>4, <2>1, <2>2 DEF BaseInv
<1>5. CASE SenderStarts
  <2>1. 0 \in 0 .. Packets
    BY Constants
  <2>2. Current(0) \in Messages
    BY <2>1, CurrentFacts
  <2>3. Transmit(toRecv, Current(0)) /\ toSend' = <<>> /\ sender' = "await" /\ cur' = cur
    BY <1>5 DEF SenderStarts
  <2>4. toRecv' \in Seq(Messages) /\ faults' \in FaultLog
    BY <1>1, <1>2, <2>2, <2>3, TransmitFacts
  <2>5. toSend' \in Seq(Chars)
    BY <2>3
  <2>6. LineType'
    BY <1>2, <2>3, <2>4, <2>5 DEF LineType
  <2>7. Idle
    BY <1>5 DEF SenderStarts, Idle, recvVars, flashVars
  <2> QED BY <1>4, <2>6, <2>7
<1>6. CASE SenderAcked
  <2>1. toSend # <<>> /\ toSend' = Tail(toSend)
    BY <1>6 DEF SenderAcked
  <2>2. toSend' \in Seq(Chars)
    BY <1>2, <2>1
  <2>3. Idle
    BY <1>6 DEF SenderAcked, Idle, recvVars, flashVars
  <2>4. CASE cur = Packets
    BY <1>1, <1>4, <2>2, <2>3, <1>6, <2>4 DEF SenderAcked, LineType
  <2>5. CASE cur # Packets
    <3>1. cur' = cur + 1 /\ Transmit(toRecv, Current(cur + 1)) /\ sender' = sender
      BY <1>6, <2>5 DEF SenderAcked
    <3>2. cur + 1 \in 0 .. Packets
      BY <1>2, <2>5, Constants
    <3>3. Current(cur + 1) \in Messages
      BY <3>2, CurrentFacts
    <3>4. toRecv' \in Seq(Messages) /\ faults' \in FaultLog
      BY <1>1, <1>2, <3>1, <3>3, TransmitFacts
    <3>5. LineType'
      BY <1>1, <2>2, <3>1, <3>2, <3>4 DEF LineType
    <3> QED BY <1>4, <2>3, <3>5
  <2> QED BY <2>4, <2>5
<1>7. CASE SenderNaked
  <2>1. toSend # <<>> /\ toSend' = Tail(toSend) /\ Transmit(toRecv, Current(cur))
        /\ UNCHANGED sendVars
    BY <1>7 DEF SenderNaked
  <2>2. toSend' \in Seq(Chars)
    BY <1>2, <2>1
  <2>3. toRecv' \in Seq(Messages) /\ faults' \in FaultLog
    BY <1>1, <1>2, <1>3, <2>1, TransmitFacts
  <2>4. LineType'
    BY <1>1, <2>1, <2>2, <2>3 DEF LineType, sendVars
  <2>5. Idle
    BY <1>7 DEF SenderNaked, Idle, recvVars, flashVars
  <2> QED BY <1>4, <2>4, <2>5
<1>8. CASE SenderTimeout
  <2>1. Transmit(toRecv, Current(cur)) /\ UNCHANGED <<toSend, sendVars>>
    BY <1>8 DEF SenderTimeout
  <2>3. toRecv' \in Seq(Messages) /\ faults' \in FaultLog
    BY <1>1, <1>2, <1>3, <2>1, TransmitFacts
  <2>4. LineType'
    BY <1>1, <2>1, <2>3 DEF LineType, sendVars
  <2>5. Idle
    BY <1>8 DEF SenderTimeout, Idle, recvVars, flashVars
  <2> QED BY <1>4, <2>4, <2>5
<1>9. CASE SenderTooEarly
  <2>1. toRecv' = Append(toRecv, Current(cur)) /\ Fault("early") /\ UNCHANGED <<toSend, sendVars>>
    BY <1>9 DEF SenderTooEarly
  <2>2. faults' \in FaultLog
    BY <1>1, <2>1, FaultFacts
  <2>3. toRecv' \in Seq(Messages)
    BY <1>2, <1>3, <2>1
  <2>4. LineType'
    BY <1>1, <2>1, <2>2, <2>3 DEF LineType, sendVars
  <2>5. Idle
    BY <1>9 DEF SenderTooEarly, Idle, recvVars, flashVars
  <2> QED BY <1>4, <2>4, <2>5
<1>10. CASE SenderCancels
  <2>1. PICK kind \in {"CAN CAN", "CAN"} : toRecv' = Append(toRecv, Msg(kind))
    BY <1>10 DEF SenderCancels
  <2>2. Fault("cancel") /\ sender' = "done" /\ UNCHANGED <<toSend, cur>>
    BY <1>10 DEF SenderCancels
  <2>3. faults' \in FaultLog
    BY <1>1, <2>2, FaultFacts
  <2>4. Msg(kind) \in Messages
    BY DEF Msg, Messages
  <2>5. toRecv' \in Seq(Messages)
    BY <1>2, <2>1, <2>4, AppendTyped
  <2>6. LineType'
    BY <1>1, <2>2, <2>3, <2>5 DEF LineType
  <2>7. Idle
    BY <1>10 DEF SenderCancels, Idle, recvVars, flashVars
  <2> QED BY <1>4, <2>6, <2>7
<1> QED BY <1>5, <1>6, <1>7, <1>8, <1>9, <1>10 DEF Sender

LEMMA EraseBase ==
    ASSUME BaseInv, erase_blocks
    PROVE  BaseInv'
<1>1. RecvType /\ FlashType /\ LineType /\ StoreInv
  BY TypeParts DEF BaseInv
<1>2. PICK bad \in SUBSET (0 .. EraseBlocks - 1) :
          /\ bbi_table' = bad
          /\ flash' = [a \in Addrs |->
                         IF Block(a) < EraseBlocks /\ Block(a) \notin bad THEN Blank ELSE flash[a]]
          /\ IF bad = 0 .. EraseBlocks - 1
             THEN phase' = "end" /\ UNCHANGED toSend
             ELSE phase' = "receive" /\ toSend' = <<trychar>>
  BY DEF erase_blocks
<1>3. /\ phase = "erase" /\ flash_dest = 0 /\ len = 0 /\ buf = <<>> /\ ret = 0
      /\ retrans >= 1 /\ trychar = "C"
  BY <1>1 DEF erase_blocks, StoreInv
<1>4. UNCHANGED <<flash_dest, ret, trychar, retry, packetno, retrans, buf, len,
                   toRecv, sendVars, faults>>
  BY DEF erase_blocks
<1>5. flash' \in [Addrs -> Seq(Int)]
  BY <1>1, <1>2 DEF FlashType, Blank
<1>6. FlashType'
  BY <1>1, <1>2, <1>4, <1>5 DEF FlashType
<1>7. RecvType'
  BY <1>1, <1>2, <1>4 DEF RecvType
<1>8. toSend' \in Seq(Chars)
  <2>1. toSend \in Seq(Chars) /\ <<"C">> \in Seq(Chars)
    BY <1>1 DEF LineType, Chars
  <2> QED BY <1>2, <1>3, <2>1
<1>9. LineType'
  BY <1>1, <1>4, <1>8 DEF LineType, sendVars
<1>10. Written' = 0
  <2>1. WrittenPages' = {a \in 0 .. -1 : Block(a) \notin bbi_table'}
    BY <1>3, <1>4 DEF WrittenPages
  <2>2. WrittenPages' = {}
    BY <2>1
  <2> QED BY <2>2, FS_EmptySet DEF Written
<1>11. StoreInv'
  <2>1. phase' # "erase" /\ len' = 0 /\ buf' = <<>> /\ ret' = 0 /\ retrans' >= 1
    BY <1>2, <1>3, <1>4
  <2>2. Len(buf') = 0 /\ 0 * PageUnits = 0 /\ destsz >= 0 /\ 0 < PageUnits
    BY <2>1, Constants
  <2> QED BY <1>10, <2>1, <2>2 DEF StoreInv
<1>12. (RecvType /\ FlashType /\ LineType)' => TypeOK'
  BY DEF TypeOK, RecvType, FlashType, LineType, Messages, FaultLog
<1> QED BY <1>6, <1>7, <1>9, <1>11, <1>12 DEF BaseInv

\* A page is not touched: a wait, a command, or a packet that is rejected or repeated.
Controls ==
    WaitTimesOut \/ GetEOT \/ GetCANs \/ GetCAN \/ GetDamaged \/ GetHeadless \/ GetOther
    \/ GetRepeated

LEMMA QueueFacts ==
    ASSUME TypeOK
    PROVE  /\ toRecv \in Seq(Messages)
           /\ <<>> \in Seq(Messages)
           /\ toRecv # <<>> => Tail(toRecv) \in Seq(Messages) /\ Head(toRecv) \in Messages
<1>1. toRecv \in Seq(Messages)
  BY TypeParts DEF LineType
<1> QED BY <1>1, HeadTailProperties

LEMMA ControlsBase ==
    ASSUME BaseInv, Controls
    PROVE  BaseInv'
<1>1. RecvType /\ FlashType /\ LineType /\ StoreInv /\ TypeOK
  BY TypeParts DEF BaseInv
<1>2. phase = "receive"
  BY DEF Controls, WaitTimesOut, GetEOT, GetCANs, GetCAN, GetDamaged, GetHeadless, GetOther,
         GetRepeated, Receiving
<1>3. ret = 0 /\ retrans >= 1
  BY <1>1, <1>2 DEF StoreInv
<1>4. UNCHANGED <<flashVars, buf, len, packetno, sendVars>>
  BY DEF Controls, WaitTimesOut, GetEOT, GetCANs, GetCAN, GetDamaged, GetHeadless, GetOther,
         GetRepeated, Reject
<1>5. toRecv \in Seq(Messages) /\ toSend \in Seq(Chars) /\ faults \in FaultLog /\ len \in Nat
  BY <1>1 DEF LineType, FlashType
<1>6. <<>> \in Seq(Messages)
      /\ (toRecv # <<>> => Tail(toRecv) \in Seq(Messages) /\ Head(toRecv) \in Messages)
  BY <1>1, QueueFacts
<1>7. "ACK" \in Chars /\ "NAK" \in Chars
  BY DEF Chars
<1>8. retrans \in 0 .. MAXRETRANS /\ trychar \in {"C", "NAK", "none"} /\ retry \in 0 .. MaxRetry - 1
  BY <1>1 DEF RecvType
<1> DEFINE Kept == /\ phase' \in {"receive", "end"}
                   /\ ret' \in {CANCELED, SYNC_ERROR, RETRY_ERROR, VERIFY_ERROR} \cup Nat
                   /\ phase' # "end" => ret' = 0 /\ retrans' >= 1
                   /\ trychar' \in {"C", "NAK", "none"}
                   /\ retry' \in 0 .. MaxRetry - 1
                   /\ retrans' \in 0 .. MAXRETRANS
                   /\ toRecv' \in Seq(Messages)
                   /\ toSend' \in Seq(Chars)
                   /\ faults' \in FaultLog
<1>9. SUFFICES Kept
  <2> SUFFICES ASSUME Kept PROVE BaseInv'
    OBVIOUS
  <2>1. StoreInv'
    BY <1>1, <1>2, <1>4, KeepsStore
  <2>2. RecvType'
    BY <1>1, <1>4 DEF RecvType
  <2>3. FlashType'
    BY <1>1, <1>4 DEF FlashType, flashVars
  <2>4. LineType'
    BY <1>1, <1>4 DEF LineType, sendVars
  <2>5. (RecvType /\ FlashType /\ LineType)' => TypeOK'
    BY DEF TypeOK, RecvType, FlashType, LineType, Messages, FaultLog
  <2> QED BY <2>1, <2>2, <2>3, <2>4, <2>5 DEF BaseInv
<1>10. ASSUME NextTry, retrans' = retrans, toRecv' \in Seq(Messages) PROVE Kept
  <2>1. /\ trychar' \in {"C", "NAK", "none"}
        /\ retry' \in 0 .. MaxRetry - 1
        /\ \/ ret' = 0 /\ phase' = "receive"
           \/ ret' = SYNC_ERROR /\ phase' = "end"
        /\ toSend' \in Seq(Chars)
        /\ faults' \in FaultLog
    BY <1>1, <1>2, <1>3, <1>10, NextTryFacts
  <2> QED BY <1>3, <1>8, <1>10, <2>1
<1>11. ASSUME Reject PROVE Kept
  <2>1. Answer("NAK") /\ trychar' = "none" /\ retry' = 0 /\ toRecv' = <<>>
        /\ UNCHANGED <<phase, ret, retrans>>
    BY <1>11 DEF Reject
  <2>2. toSend' \in Seq(Chars) /\ faults' \in FaultLog
    BY <1>1, <1>7, <2>1, AnswerFacts
  <2>3. 0 \in 0 .. MaxRetry - 1
    BY Constants
  <2> QED BY <1>2, <1>3, <1>6, <1>8, <2>1, <2>2, <2>3
<1>12. CASE WaitTimesOut
  BY <1>5, <1>10, <1>12 DEF WaitTimesOut
<1>13. CASE GetEOT
  <2>1. Answer("ACK") /\ ret' = len /\ phase' = "end" /\ toRecv' = <<>>
        /\ UNCHANGED <<trychar, retry, retrans>>
    BY <1>13 DEF GetEOT, Return
  <2>2. toSend' \in Seq(Chars) /\ faults' \in FaultLog
    BY <1>1, <1>7, <2>1, AnswerFacts
  <2> QED BY <1>5, <1>6, <1>8, <2>1, <2>2
<1>14. CASE GetCANs
  BY <1>5, <1>6, <1>8, <1>14 DEF GetCANs, Return
<1>15. CASE GetCAN
  BY <1>6, <1>10, <1>15 DEF GetCAN, Receiving
<1>16. CASE GetDamaged
  BY <1>11, <1>16 DEF GetDamaged
<1>17. CASE GetHeadless
  <2>1. CASE Reject
    BY <1>11, <2>1
  <2>2. CASE ~Reject
    <3>1. PICK r \in {SYNC_ERROR, CANCELED, len} : Return(r)
      BY <1>17, <2>2 DEF GetHeadless
    <3>2. toRecv' = <<>> /\ UNCHANGED <<trychar, retry, retrans, toSend, faults>>
      BY <1>17, <2>2 DEF GetHeadless
    <3> QED BY <1>5, <1>6, <1>8, <3>1, <3>2 DEF Return
  <2> QED BY <2>1, <2>2
<1>18. CASE GetOther
  BY <1>11, <1>18 DEF GetOther
<1>19. CASE GetRepeated
  <2>1. retrans' = retrans - 1 /\ trychar' = "none" /\ retry' = 0 /\ toRecv # <<>>
    BY <1>19 DEF GetRepeated, Receiving
  <2>2. 0 \in 0 .. MaxRetry - 1 /\ retrans - 1 \in 0 .. MAXRETRANS
    BY <1>3, <1>8, Constants
  <2>3. CASE retrans - 1 <= 0
    <3>1. ret' = RETRY_ERROR /\ phase' = "end" /\ toRecv' = <<>> /\ UNCHANGED <<toSend, faults>>
      BY <1>19, <2>3 DEF GetRepeated, Return
    <3> QED BY <1>5, <1>6, <2>1, <2>2, <3>1
  <2>4. CASE ~(retrans - 1 <= 0)
    <3>1. toRecv' = Tail(toRecv) /\ Answer("ACK") /\ UNCHANGED <<ret, phase>>
      BY <1>19, <2>4 DEF GetRepeated
    <3>2. toSend' \in Seq(Chars) /\ faults' \in FaultLog
      BY <1>1, <1>7, <3>1, AnswerFacts
    <3>3. retrans' >= 1
      BY <1>8, <2>1, <2>4
    <3> QED BY <1>2, <1>3, <1>6, <2>1, <2>2, <3>1, <3>2, <3>3
  <2> QED BY <2>3, <2>4
<1> QED BY <1>12, <1>13, <1>14, <1>15, <1>16, <1>17, <1>18, <1>19 DEF Controls

\* The expected packet: what Accept and the answer make of the receiver.
LEMMA AcceptFacts ==
    ASSUME BaseInv, phase = "receive", toRecv # <<>>, Accept, Answer("ACK")
    PROVE  RecvType' /\ LineType' /\ ret' = 0 /\ retrans' >= 1 /\ phase' = "receive"
<1>1. RecvType /\ LineType /\ StoreInv /\ TypeOK
  BY TypeParts DEF BaseInv
<1>2. /\ packetno' = NextNumber(packetno) /\ retrans' = MAXRETRANS /\ trychar' = "none"
      /\ retry' = 0 /\ toRecv' = Tail(toRecv) /\ UNCHANGED <<phase, ret, sendVars>>
  BY DEF Accept
<1>3. NextNumber(packetno) \in 0 .. SeqMod - 1
  <2>1. packetno \in Nat
    BY <1>1, Constants DEF RecvType
  <2> QED BY <2>1, Constants DEF NextNumber
<1>4. 0 \in 0 .. MaxRetry - 1 /\ MAXRETRANS \in 0 .. MAXRETRANS /\ MAXRETRANS >= 1
  BY Constants
<1>5. RecvType'
  BY <1>1, <1>2, <1>3, <1>4 DEF RecvType
<1>6. toSend' \in Seq(Chars) /\ faults' \in FaultLog
  <2>1. "ACK" \in Chars
    BY DEF Chars
  <2> QED BY <1>1, <2>1, AnswerFacts
<1>7. toRecv' \in Seq(Messages)
  BY <1>1, <1>2, QueueFacts
<1>8. LineType'
  BY <1>1, <1>2, <1>6, <1>7 DEF LineType, sendVars
<1>9. ret = 0
  BY <1>1 DEF StoreInv
<1> QED BY <1>2, <1>4, <1>5, <1>8, <1>9

LEMMA PartBase ==
    ASSUME BaseInv, GetPart
    PROVE  BaseInv'
<1>1. RecvType /\ FlashType /\ LineType /\ StoreInv /\ TypeOK
  BY TypeParts DEF BaseInv
<1>2. PICK k \in 0 .. Packets - 1 :
        /\ GetNext(k)
        /\ ~PageFull(Received(k))
        /\ buf' = Received(k)
        /\ Accept
        /\ Answer("ACK")
        /\ UNCHANGED <<flash, flash_dest>>
  BY DEF GetPart
<1>3. phase = "receive" /\ toRecv # <<>>
  BY <1>2 DEF GetNext, Receiving
<1>4. RecvType' /\ LineType' /\ ret' = 0 /\ retrans' >= 1 /\ phase' = "receive"
  BY <1>2, <1>3, AcceptFacts
<1>5. Received(k) \in Seq(Int) /\ Len(Received(k)) = Len(buf) + Count /\ Len(buf) \in Nat
  BY <1>1, ReceivedFacts
<1>6. len \in Nat /\ len <= destsz
  BY <1>1 DEF FlashType, StoreInv
<1>7. Count \in Nat /\ len + Count <= destsz
  BY <1>6, CountFacts
<1>8. len' = len + Count /\ bbi_table' = bbi_table
  BY <1>2 DEF Accept
<1>9. FlashType'
  BY <1>1, <1>2, <1>5, <1>6, <1>7, <1>8 DEF FlashType
<1>10. Written' = Written /\ Written \in Nat
  BY <1>1, <1>2, <1>8, WrittenFacts DEF Written, WrittenPages
<1>11. len = Written * PageUnits + Len(buf)
  <2>1. ret # VERIFY_ERROR
    BY <1>1, <1>3 DEF StoreInv, VERIFY_ERROR
  <2> QED BY <1>1, <2>1 DEF StoreInv
<1>12. Len(buf') = Len(buf) + Count /\ Len(buf') < PageUnits
  BY <1>2, <1>5, <1>7, Constants DEF PageFull
<1>13. Written * PageUnits \in Nat
  BY <1>10, Constants
<1>14. len' = Written' * PageUnits + Len(buf') /\ Written' * PageUnits <= len' /\ len' <= destsz
  BY <1>5, <1>6, <1>7, <1>8, <1>10, <1>11, <1>12, <1>13
<1>15. StoreInv'
  BY <1>4, <1>12, <1>14 DEF StoreInv
<1>16. (RecvType /\ FlashType /\ LineType)' => TypeOK'
  BY DEF TypeOK, RecvType, FlashType, LineType, Messages, FaultLog
<1> QED BY <1>4, <1>9, <1>15, <1>16 DEF BaseInv

\* The two parts of a buffer that holds a page and the beginning of the next.
LEMMA PageAndRest ==
    ASSUME NEW b \in Seq(Int), Len(b) >= PageUnits
    PROVE  /\ SubSeq(b, 1, PageUnits) \in Seq(Int)
           /\ SubSeq(b, PageUnits + 1, Len(b)) \in Seq(Int)
           /\ Len(SubSeq(b, PageUnits + 1, Len(b))) = Len(b) - PageUnits
<1>1. Len(b) \in Nat /\ PageUnits \in Nat \ {0}
  BY Constants
<1>2. \A i \in 1 .. PageUnits : b[i] \in Int
  BY <1>1
<1>3. \A i \in PageUnits + 1 .. Len(b) : b[i] \in Int
  BY <1>1
<1>4. SubSeq(b, 1, PageUnits) \in Seq(Int)
  BY <1>1, <1>2, SubSeqProperties
<1>5. /\ SubSeq(b, PageUnits + 1, Len(b)) \in Seq(Int)
      /\ Len(SubSeq(b, PageUnits + 1, Len(b)))
           = IF PageUnits + 1 <= Len(b) THEN Len(b) - (PageUnits + 1) + 1 ELSE 0
  BY <1>1, <1>3, SubSeqProperties
<1> QED BY <1>1, <1>4, <1>5

LEMMA PageBase ==
    ASSUME BaseInv, GetPage
    PROVE  BaseInv'
<1>1. RecvType /\ FlashType /\ LineType /\ StoreInv /\ TypeOK
  BY TypeParts DEF BaseInv
<1> DEFINE a == NextGood(flash_dest)
<1>2. PICK k \in 0 .. Packets - 1 :
        /\ GetNext(k)
        /\ PageFull(Received(k))
        /\ flash' = [flash EXCEPT ![a] = SubSeq(Received(k), 1, PageUnits)]
        /\ flash_dest' = a + 1
        /\ buf' = SubSeq(Received(k), PageUnits + 1, Len(Received(k)))
        /\ Accept
        /\ Answer("ACK")
  BY DEF GetPage
<1> DEFINE b == Received(k)
<1>3. phase = "receive" /\ toRecv # <<>>
  BY <1>2 DEF GetNext, Receiving
<1>4. RecvType' /\ LineType' /\ ret' = 0 /\ retrans' >= 1 /\ phase' = "receive"
  BY <1>2, <1>3, AcceptFacts
<1>5. b \in Seq(Int) /\ Len(b) = Len(buf) + Count /\ Len(buf) \in Nat /\ Len(b) >= PageUnits
  BY <1>1, <1>2, ReceivedFacts DEF PageFull
<1>6. len \in Nat /\ len <= destsz /\ ret = 0
  BY <1>1, <1>3 DEF FlashType, StoreInv
<1>7. Count \in Nat /\ Count <= PktUnits /\ len + Count <= destsz
  BY <1>6, CountFacts
<1>8. len' = len + Count /\ bbi_table' = bbi_table
  BY <1>2 DEF Accept
<1>9. /\ a \in Addrs /\ a \in Nat
      /\ Cardinality(Pages(a + 1, bbi_table)) = Written + 1
  BY <1>1, <1>2, <1>6, PagePlace
<1> HIDE DEF a, b
<1>10. /\ SubSeq(b, 1, PageUnits) \in Seq(Int)
       /\ buf' \in Seq(Int) /\ Len(buf') = Len(b) - PageUnits
  BY <1>2, <1>5, PageAndRest DEF b
<1>11. flash' \in [Addrs -> Seq(Int)]
  BY <1>1, <1>2, <1>9, <1>10 DEF FlashType, b
<1>12. flash_dest' \in 0 .. NumBlocks * PagesPerBlock
  BY <1>2, <1>9, Constants DEF Addrs
<1>13. FlashType'
  BY <1>1, <1>6, <1>7, <1>8, <1>10, <1>11, <1>12 DEF FlashType
<1>14. Written' = Written + 1 /\ Written \in Nat
  <2>1. WrittenPages' = Pages(a + 1, bbi_table)
    BY <1>2, <1>8 DEF WrittenPages, Pages
  <2> QED BY <1>1, <1>9, <2>1, WrittenFacts DEF Written
<1>15. len = Written * PageUnits + Len(buf) /\ Len(buf) < PageUnits
  <2>1. ret # VERIFY_ERROR
    BY <1>6 DEF VERIFY_ERROR
  <2> QED BY <1>1, <2>1 DEF StoreInv
<1>16. Len(buf') < PageUnits /\ Len(buf') \in Nat
  BY <1>5, <1>7, <1>10, <1>15, Constants
<1>17. (Written + 1) * PageUnits = Written * PageUnits + PageUnits /\ Written * PageUnits \in Nat
  BY <1>14, Constants
<1>18. len' = Written' * PageUnits + Len(buf') /\ Written' * PageUnits <= len' /\ len' <= destsz
  BY <1>5, <1>6, <1>7, <1>8, <1>10, <1>14, <1>15, <1>16, <1>17, Constants
<1>19. StoreInv'
  BY <1>4, <1>16, <1>18 DEF StoreInv
<1>20. (RecvType /\ FlashType /\ LineType)' => TypeOK'
  BY DEF TypeOK, RecvType, FlashType, LineType, Messages, FaultLog
<1> QED BY <1>4, <1>13, <1>19, <1>20 DEF BaseInv

LEMMA BadPageBase ==
    ASSUME BaseInv, GetBadPage
    PROVE  BaseInv'
<1>1. RecvType /\ FlashType /\ LineType /\ StoreInv /\ TypeOK
  BY TypeParts DEF BaseInv
<1> DEFINE a == NextGood(flash_dest)
<1>2. PICK k \in 0 .. Packets - 1 :
           /\ GetNext(k)
           /\ PageFull(Received(k))
           /\ UNCHANGED faults \/ Fault("write")
           /\ flash' = [flash EXCEPT ![a] = Junk]
           /\ flash_dest' = a
           /\ buf' = Received(k)
           /\ Return(VERIFY_ERROR)
           /\ trychar' = "none"
           /\ retry' = 0
           /\ toRecv' = Tail(toRecv)
           /\ UNCHANGED <<bbi_table, packetno, retrans, len, toSend, sendVars>>
  BY DEF GetBadPage
<1>3. phase = "receive" /\ toRecv # <<>>
  BY <1>2 DEF GetNext, Receiving
<1>4. Received(k) \in Seq(Int)
  BY <1>1, ReceivedFacts
<1>5. ret = 0
  BY <1>1, <1>3 DEF StoreInv
<1>6. /\ a \in Addrs /\ a \in Nat
      /\ Pages(a, bbi_table) = WrittenPages
  BY <1>1, <1>2, <1>5, PagePlace
<1> HIDE DEF a
<1>7. flash' \in [Addrs -> Seq(Int)]
  <2>1. Junk \in Seq(Int)
    BY DEF Junk
  <2> QED BY <1>1, <1>2, <1>6, <2>1 DEF FlashType
<1>8. flash_dest' \in 0 .. NumBlocks * PagesPerBlock
  BY <1>2, <1>6, Constants DEF Addrs
<1>9. FlashType'
  BY <1>1, <1>2, <1>4, <1>7, <1>8 DEF FlashType
<1>10. 0 \in 0 .. MaxRetry - 1
  BY Constants
<1>11. RecvType'
  BY <1>1, <1>2, <1>10 DEF RecvType, Return
<1>12. faults' \in FaultLog
  BY <1>1, <1>2, FaultFacts DEF LineType
<1>13. toRecv' \in Seq(Messages)
  BY <1>1, <1>2, <1>3, QueueFacts
<1>14. LineType'
  BY <1>1, <1>2, <1>12, <1>13 DEF LineType, sendVars
<1>15. Written' = Written
  <2>1. WrittenPages' = Pages(a, bbi_table)
    BY <1>2 DEF WrittenPages, Pages
  <2> QED BY <1>6, <2>1 DEF Written
<1>16. StoreInv'
  BY <1>1, <1>2, <1>15 DEF StoreInv, Return
<1>17. (RecvType /\ FlashType /\ LineType)' => TypeOK'
  BY DEF TypeOK, RecvType, FlashType, LineType, Messages, FaultLog
<1> QED BY <1>9, <1>11, <1>14, <1>16, <1>17 DEF BaseInv

LEMMA InitBase == Init => BaseInv
<1> SUFFICES ASSUME Init PROVE BaseInv
  OBVIOUS
<1>1. PICK used \in SUBSET Blocks :
          flash = [a \in Addrs |-> IF Block(a) \in used THEN Old ELSE Blank]
  BY DEF Init
<1>2. flash \in [Addrs -> Seq(Int)]
  <2>1. Old \in Seq(Int) /\ Blank \in Seq(Int)
    BY DEF Old, Blank
  <2> QED BY <1>1, <2>1
<1>3. /\ bbi_table = {} /\ phase = "erase" /\ ret = 0 /\ trychar = "C" /\ retry = 0
      /\ packetno = 1 /\ retrans = MAXRETRANS /\ buf = <<>> /\ len = 0 /\ flash_dest = 0
      /\ toRecv = <<>> /\ toSend = <<>> /\ cur = 0 /\ sender = "start"
  BY DEF Init
<1>4. PICK kinds \in Lines : faults = [kinds |-> kinds, n |-> 0]
  BY DEF Init
<1>5. /\ 0 \in 0 .. NumBlocks * PagesPerBlock /\ 0 \in 0 .. MaxRetry - 1
      /\ 1 \in 0 .. SeqMod - 1 /\ MAXRETRANS \in 0 .. MAXRETRANS /\ MAXRETRANS >= 1
      /\ 0 \in 0 .. Packets /\ 0 \in 0 .. MaxFaults
  BY Constants
<1>6. faults \in FaultLog
  BY <1>4, <1>5 DEF FaultLog
<1>7. RecvType
  BY <1>3, <1>5 DEF RecvType
<1>8. FlashType
  BY <1>2, <1>3, <1>5 DEF FlashType
<1>9. LineType
  BY <1>3, <1>5, <1>6 DEF LineType
<1>10. Written = 0
  <2>1. WrittenPages = {a \in 0 .. -1 : Block(a) \notin bbi_table}
    BY <1>3 DEF WrittenPages
  <2>2. WrittenPages = {}
    BY <2>1
  <2> QED BY <2>2, FS_EmptySet DEF Written
<1>11. Len(buf) = 0 /\ 0 * PageUnits = 0 /\ destsz >= 0 /\ 0 < PageUnits
  BY <1>3, Constants
<1>12. StoreInv
  BY <1>3, <1>5, <1>10, <1>11 DEF StoreInv
<1> QED BY <1>7, <1>8, <1>9, <1>12, TypeParts DEF BaseInv

LEMMA NextBase == BaseInv /\ [Next]_vars => BaseInv'
<1> SUFFICES ASSUME BaseInv, [Next]_vars PROVE BaseInv'
  OBVIOUS
<1>1. CASE Next
  BY <1>1, SenderBase, EraseBase, ControlsBase, PartBase, PageBase, BadPageBase
     DEF Next, Receiver, Controls
<1>2. CASE UNCHANGED vars
  <2>1. RecvType /\ FlashType /\ LineType /\ StoreInv
    BY TypeParts DEF BaseInv
  <2>2. Idle /\ UNCHANGED <<toRecv, toSend, cur, sender, faults>>
    BY <1>2 DEF vars, Idle, flashVars, recvVars, lineVars, sendVars
  <2>3. RecvType' /\ FlashType' /\ StoreInv'
    BY <2>1, <2>2, IdleStep
  <2>4. LineType'
    BY <2>1, <2>2 DEF LineType
  <2>5. (RecvType /\ FlashType /\ LineType)' => TypeOK'
    BY DEF TypeOK, RecvType, FlashType, LineType, Messages, FaultLog
  <2> QED BY <2>3, <2>4, <2>5 DEF BaseInv
<1> QED BY <1>1, <1>2

LEMMA BaseAlways == Spec => []BaseInv
BY InitBase, NextBase, PTL DEF Spec

\* The variables keep their types whatever the line does; a complete page always has
\* a place on the device (cli_xmodem_nand.c: flash_dest).
THEOREM XmodemTypeCorrect == Spec => []TypeOK
<1>1. BaseInv => TypeOK
  BY DEF BaseInv
<1> QED BY <1>1, BaseAlways, PTL

\* The search for a good block stays in the eight entries of bbi_table, for every
\* pattern of bad blocks and an image of any length (while(bbi_table[flash_dest>>6])
\* flash_dest++ has no limit of its own).
THEOREM LookupsStayInTable == Spec => []LookupsInTable
<1>1. ASSUME BaseInv PROVE LookupsInTable
  <2>1. /\ Written \in Nat /\ flash_dest \in Nat
        /\ Written <= EraseBlocks * PagesPerBlock
        /\ flash_dest <= Written + EraseBlocks * PagesPerBlock
    BY <1>1, WrittenFacts DEF BaseInv
  <2>2. 2 * EraseBlocks * PagesPerBlock = 2 * (EraseBlocks * PagesPerBlock)
    BY Constants
  <2> QED BY <2>1, <2>2, Constants DEF LookupsInTable
<1> QED BY <1>1, BaseAlways, PTL

-----------------------------------------------------------------------------
(* The units on the flash.                                                 *)

LEMMA UnitsJoin ==
    ASSUME NEW f \in Nat, NEW n \in Nat, NEW m \in Nat
    PROVE  Units(f, n) \o Units(f + n, m) = Units(f, n + m)
<1> DEFINE s == Units(f, n)
           t == Units(f + n, m)
           u == Units(f, n + m)
<1>1. /\ s \in Seq(Int) /\ Len(s) = n
      /\ t \in Seq(Int) /\ Len(t) = m
      /\ u \in Seq(Int) /\ Len(u) = n + m
      /\ f + n \in Nat /\ n + m \in Nat
  BY UnitsFacts
<1>2. \A i \in 1 .. n : s[i] = Unit(f + i - 1)
  BY UnitsFacts
<1>3. \A i \in 1 .. m : t[i] = Unit((f + n) + i - 1)
  BY <1>1, UnitsFacts
<1>4. \A i \in 1 .. n + m : u[i] = Unit(f + i - 1)
  BY <1>1, UnitsFacts
<1> HIDE DEF s, t, u
<1>5. /\ s \o t \in Seq(Int) /\ Len(s \o t) = n + m
      /\ \A i \in 1 .. n + m : (s \o t)[i] = IF i <= n THEN s[i] ELSE t[i - n]
  BY <1>1, ConcatProperties
<1>6. ASSUME NEW i \in 1 .. n + m PROVE (s \o t)[i] = u[i]
  <2>1. CASE i <= n
    <3>1. i \in 1 .. n
      BY <2>1
    <3> QED BY <1>2, <1>4, <1>5, <2>1, <3>1
  <2>2. CASE ~(i <= n)
    <3>1. i - n \in 1 .. m /\ (f + n) + (i - n) - 1 = f + i - 1
      BY <2>2
    <3>2. t[i - n] = Unit((f + n) + (i - n) - 1)
      BY <1>3, <3>1
    <3> QED BY <1>4, <1>5, <2>2, <3>1, <3>2
  <2> QED BY <2>1, <2>2
<1>7. s \o t = u
  BY <1>1, <1>5, <1>6, SeqEqual
<1> QED BY <1>7 DEF s, t, u

LEMMA UnitsPart ==
    ASSUME NEW f \in Nat, NEW n \in Nat, NEW x \in Nat, NEW m \in Nat, x + m <= n
    PROVE  SubSeq(Units(f, n), x + 1, x + m) = Units(f + x, m)
<1> DEFINE s == Units(f, n)
           t == Units(f + x, m)
           r == SubSeq(s, x + 1, x + m)
<1>1. /\ s \in Seq(Int) /\ Len(s) = n
      /\ t \in Seq(Int) /\ Len(t) = m
      /\ f + x \in Nat
  BY UnitsFacts
<1>2. \A i \in 1 .. n : s[i] = Unit(f + i - 1)
  BY UnitsFacts
<1>3. \A i \in 1 .. m : t[i] = Unit((f + x) + i - 1)
  BY <1>1, UnitsFacts
<1> HIDE DEF s, t
<1>4. \A i \in x + 1 .. x + m : s[i] \in Int
  <2> SUFFICES ASSUME NEW i \in x + 1 .. x + m PROVE s[i] \in Int
    OBVIOUS
  <2>1. i \in 1 .. Len(s)
    BY <1>1
  <2> QED BY <1>1, <2>1, ElementOfSeq
<1>5. x + 1 \in Int /\ x + m \in Int
  OBVIOUS
<1>6. /\ r \in Seq(Int)
      /\ Len(r) = IF x + 1 <= x + m THEN (x + m) - (x + 1) + 1 ELSE 0
      /\ \A i \in 1 .. (x + m) - (x + 1) + 1 : r[i] = s[(x + 1) + i - 1]
  BY <1>4, <1>5, SubSeqProperties
<1> HIDE DEF r
<1>7. Len(r) = m /\ (x + m) - (x + 1) + 1 = m
  BY <1>6
<1>8. ASSUME NEW i \in 1 .. m PROVE r[i] = t[i]
  <2>1. r[i] = s[(x + 1) + i - 1]
    BY <1>6, <1>7
  <2>2. (x + 1) + i - 1 \in 1 .. n /\ (x + 1) + i - 1 = x + i
    OBVIOUS
  <2>3. s[x + i] = Unit(f + (x + i) - 1)
    BY <1>2, <2>2
  <2>4. f + (x + i) - 1 = (f + x) + i - 1
    OBVIOUS
  <2> QED BY <1>3, <2>1, <2>2, <2>3, <2>4
<1>9. r = t
  BY <1>1, <1>6, <1>7, <1>8, SeqEqual
<1> QED BY <1>9 DEF r, s, t

\* The packet that is accepted continues what was received.
Follows == \A k \in 0 .. Packets - 1 : GetNext(k) /\ len < destsz => k * PktUnits = len

LEMMA ReceivedIs ==
    ASSUME BaseInv, StreamInv, Follows, NEW k \in 0 .. Packets - 1, GetNext(k)
    PROVE  /\ Received(k) = Units(Written * PageUnits + 1, Len(buf) + Count)
           /\ Written * PageUnits + 1 \in Nat /\ Len(buf) \in Nat /\ Count \in Nat
           /\ ret = 0
<1>1. TypeOK /\ StoreInv /\ FlashType
  BY TypeParts DEF BaseInv
<1>2. ret = 0 /\ ret # VERIFY_ERROR
  BY <1>1 DEF StoreInv, GetNext, Receiving, VERIFY_ERROR
<1>3. len \in Nat /\ len <= destsz /\ buf \in Seq(Int) /\ Len(buf) \in Nat
  BY <1>1 DEF FlashType, StoreInv
<1>4. Count \in Nat /\ (len = destsz => Count = 0)
  BY <1>3, CountFacts
<1>5. len = Written * PageUnits + Len(buf) /\ Written \in Nat
  BY <1>1, <1>2, WrittenFacts DEF StoreInv
<1>6. Written * PageUnits + 1 \in Nat
  BY <1>5, Constants
<1> DEFINE f == Written * PageUnits + 1
<1>7. buf = Units(f, Len(buf))
  BY <1>2 DEF StreamInv
<1>8. CASE len < destsz
  <2>1. k * PktUnits = len
    BY <1>8 DEF Follows
  <2>2. k * PktUnits + 1 = f + Len(buf)
    BY <1>3, <1>5, <1>6, <2>1, Constants
  <2>3. Received(k) = Units(f, Len(buf)) \o Units(f + Len(buf), Count)
    BY <1>7, <2>2 DEF Received
  <2> HIDE DEF f
  <2>4. Received(k) = Units(f, Len(buf) + Count)
    BY <1>3, <1>4, <1>6, <2>3, UnitsJoin DEF f
  <2> QED BY <1>2, <1>3, <1>4, <1>6, <2>4 DEF f
<1>9. CASE ~(len < destsz)
  <2>1. Count = 0
    BY <1>3, <1>4, <1>9, Constants
  <2>2. Units(k * PktUnits + 1, Count) = <<>>
    <3>1. k * PktUnits + 1 \in Nat
      BY Constants
    <3>2. Units(k * PktUnits + 1, 0) \in Seq(Int) /\ Len(Units(k * PktUnits + 1, 0)) = 0
      BY <3>1, UnitsFacts
    <3> QED BY <2>1, <3>2, EmptySeq
  <2>3. Received(k) = buf
    BY <1>3, <2>2, ConcatEmptySeq DEF Received
  <2>4. Len(buf) + Count = Len(buf)
    BY <1>3, <2>1
  <2> QED BY <1>2, <1>3, <1>4, <1>6, <1>7, <2>3, <2>4
<1> QED BY <1>8, <1>9

LEMMA StreamPart ==
    ASSUME BaseInv, StreamInv, Follows, GetPart
    PROVE  StreamInv'
<1>1. PICK k \in 0 .. Packets - 1 :
        /\ GetNext(k)
        /\ buf' = Received(k)
        /\ Accept
        /\ UNCHANGED <<flash, flash_dest>>
  BY DEF GetPart
<1>2. /\ Received(k) = Units(Written * PageUnits + 1, Len(buf) + Count)
      /\ Written * PageUnits + 1 \in Nat /\ Len(buf) \in Nat /\ Count \in Nat
  BY <1>1, ReceivedIs
<1>3. bbi_table' = bbi_table
  BY <1>1 DEF Accept
<1>4. WrittenPages' = WrittenPages /\ Written' = Written
  BY <1>1, <1>3 DEF WrittenPages, Written
<1>5. FlashIsPrefix'
  BY <1>1, <1>4 DEF StreamInv, FlashIsPrefix
<1>6. Len(buf') = Len(buf) + Count
  <2>1. Len(buf) + Count \in Nat
    BY <1>2
  <2> QED BY <1>1, <1>2, <2>1, UnitsFacts
<1> QED BY <1>1, <1>2, <1>4, <1>5, <1>6 DEF StreamInv

LEMMA StreamPage ==
    ASSUME BaseInv, StreamInv, Follows, GetPage
    PROVE  StreamInv'
<1> DEFINE a == NextGood(flash_dest)
           f == Written * PageUnits + 1
           n == Len(buf) + Count
<1>1. PICK k \in 0 .. Packets - 1 :
        /\ GetNext(k)
        /\ PageFull(Received(k))
        /\ flash' = [flash EXCEPT ![a] = SubSeq(Received(k), 1, PageUnits)]
        /\ flash_dest' = a + 1
        /\ buf' = SubSeq(Received(k), PageUnits + 1, Len(Received(k)))
        /\ Accept
  BY DEF GetPage
<1>2. Received(k) = Units(f, n) /\ f \in Nat /\ n \in Nat /\ ret = 0
  BY <1>1, ReceivedIs
<1>3. /\ a \in Addrs /\ a \in Nat /\ a >= flash_dest
      /\ Pages(a + 1, bbi_table) = WrittenPages \cup {a}
      /\ a \notin WrittenPages
      /\ Cardinality(Pages(a + 1, bbi_table)) = Written + 1
  BY <1>1, <1>2, PagePlace DEF BaseInv
<1>4. bbi_table' = bbi_table
  BY <1>1 DEF Accept
<1>5. flash \in [Addrs -> Seq(Int)] /\ flash_dest \in Nat /\ Written \in Nat
  BY TypeParts, WrittenFacts DEF BaseInv, FlashType
<1> HIDE DEF a, f, n
<1>6. Len(Units(f, n)) = n /\ n >= PageUnits
  BY <1>1, <1>2, UnitsFacts DEF PageFull
<1>7. SubSeq(Units(f, n), 1, PageUnits) = Units(f, PageUnits)
  <2> DEFINE z == 0
  <2>0. PageUnits \in Nat
    BY Constants
  <2>1. z + 1 = 1 /\ z + PageUnits = PageUnits /\ f + z = f
    BY <1>2, <1>6, Constants
  <2>3. z \in Nat /\ z + PageUnits <= n
    BY <1>2, <1>6, Constants
  <2> HIDE DEF z
  <2>2. SubSeq(Units(f, n), z + 1, z + PageUnits) = Units(f + z, PageUnits)
    BY <1>2, <2>0, <2>3, UnitsPart
  <2> QED BY <2>1, <2>2
<1>8. SubSeq(Units(f, n), PageUnits + 1, n) = Units(f + PageUnits, n - PageUnits)
  <2> DEFINE m == n - PageUnits
  <2>1. m \in Nat /\ PageUnits + m <= n /\ PageUnits + m = n
    BY <1>2, <1>6, Constants
  <2> HIDE DEF m
  <2>2. SubSeq(Units(f, n), PageUnits + 1, PageUnits + m) = Units(f + PageUnits, m)
    BY <1>2, <2>1, Constants, UnitsPart
  <2> QED BY <2>1, <2>2 DEF m
<1>9. WrittenPages' = WrittenPages \cup {a} /\ Written' = Written + 1
  <2>1. WrittenPages' = Pages(a + 1, bbi_table)
    BY <1>1, <1>4 DEF WrittenPages, Pages
  <2> QED BY <1>3, <2>1 DEF Written
<1>10. flash'[a] = Units(f, PageUnits) /\ \A b \in WrittenPages : flash'[b] = flash[b]
  <2>1. \A b \in WrittenPages : b # a
    BY <1>3
  <2>2. \A b \in WrittenPages : b \in Addrs
    <3>1. \A b \in WrittenPages : b \in 0 .. flash_dest - 1
      BY DEF WrittenPages
    <3> QED BY <1>3, <1>5, <3>1, Constants DEF Addrs
  <2> QED BY <1>1, <1>2, <1>3, <1>5, <1>7, <2>1, <2>2
<1>11. ASSUME NEW b \in WrittenPages
       PROVE  {x \in WrittenPages' : x < b} = {x \in WrittenPages : x < b}
  <2>1. b < a
    <3>1. b \in 0 .. flash_dest - 1
      BY DEF WrittenPages
    <3> QED BY <1>3, <1>5, <3>1
  <2>2. b \in Nat
    BY <1>5 DEF WrittenPages
  <2>3. ~(a < b)
    BY <1>3, <2>1, <2>2
  <2> QED BY <1>9, <2>3
<1>12. {x \in WrittenPages' : x < a} = WrittenPages
  <2>1. \A x \in WrittenPages : x < a
    <3>1. \A x \in WrittenPages : x \in 0 .. flash_dest - 1
      BY DEF WrittenPages
    <3> QED BY <1>3, <1>5, <3>1
  <2>2. ~(a < a)
    BY <1>3
  <2> QED BY <1>9, <2>1, <2>2
<1>13. FlashIsPrefix'
  <2> SUFFICES ASSUME NEW b \in WrittenPages'
               PROVE  flash'[b] = Units(Cardinality({x \in WrittenPages' : x < b}) * PageUnits + 1,
                                        PageUnits)
    BY DEF FlashIsPrefix
  <2>1. CASE b \in WrittenPages
    <3>1. flash[b] = Units(Cardinality({x \in WrittenPages : x < b}) * PageUnits + 1, PageUnits)
      BY <2>1 DEF StreamInv, FlashIsPrefix
    <3> QED BY <1>10, <1>11, <2>1, <3>1
  <2>2. CASE b = a
    BY <1>10, <1>12, <2>2 DEF f, Written
  <2> QED BY <1>9, <2>1, <2>2
<1>14. buf' = Units(f + PageUnits, n - PageUnits)
  BY <1>1, <1>2, <1>6, <1>8
<1>15. Len(buf') = n - PageUnits
  <2>1. f + PageUnits \in Nat /\ n - PageUnits \in Nat
    BY <1>2, <1>6, Constants
  <2> QED BY <1>14, <2>1, UnitsFacts
<1>16. f + PageUnits = Written' * PageUnits + 1
  <2>1. (Written + 1) * PageUnits = Written * PageUnits + PageUnits /\ Written * PageUnits \in Nat
    BY <1>5, Constants
  <2> QED BY <1>9, <2>1, Constants DEF f
<1> QED BY <1>13, <1>14, <1>15, <1>16 DEF StreamInv

LEMMA StreamBadPage ==
    ASSUME BaseInv, StreamInv, GetBadPage
    PROVE  StreamInv'
<1> DEFINE a == NextGood(flash_dest)
<1>1. PICK k \in 0 .. Packets - 1 :
           /\ GetNext(k)
           /\ PageFull(Received(k))
           /\ flash' = [flash EXCEPT ![a] = Junk]
           /\ flash_dest' = a
           /\ Return(VERIFY_ERROR)
           /\ UNCHANGED bbi_table
  BY DEF GetBadPage
<1>2. ret = 0
  BY <1>1 DEF BaseInv, StoreInv, GetNext, Receiving
<1>3. /\ a \in Addrs /\ a \in Nat /\ a >= flash_dest
      /\ Pages(a, bbi_table) = WrittenPages
      /\ a \notin WrittenPages
  BY <1>1, <1>2, PagePlace DEF BaseInv
<1>4. flash \in [Addrs -> Seq(Int)] /\ flash_dest \in Nat
  BY TypeParts, WrittenFacts DEF BaseInv, FlashType
<1> HIDE DEF a
<1>5. WrittenPages' = WrittenPages
  <2>1. WrittenPages' = Pages(a, bbi_table)
    BY <1>1 DEF WrittenPages, Pages
  <2> QED BY <1>3, <2>1
<1>6. \A b \in WrittenPages : flash'[b] = flash[b]
  <2>1. \A b \in WrittenPages : b # a
    BY <1>3
  <2>2. \A b \in WrittenPages : b \in Addrs
    <3>1. \A b \in WrittenPages : b \in 0 .. flash_dest - 1
      BY DEF WrittenPages
    <3> QED BY <1>3, <1>4, <3>1, Constants DEF Addrs
  <2> QED BY <1>1, <1>3, <1>4, <2>1, <2>2
<1>7. FlashIsPrefix'
  BY <1>5, <1>6 DEF StreamInv, FlashIsPrefix
<1>8. ret' = VERIFY_ERROR
  BY <1>1 DEF Return
<1> QED BY <1>7, <1>8 DEF StreamInv

LEMMA EmptyUnits == \A f \in Nat : Units(f, 0) = <<>>
<1> SUFFICES ASSUME NEW f \in Nat PROVE Units(f, 0) = <<>>
  OBVIOUS
<1>1. Units(f, 0) \in Seq(Int) /\ Len(Units(f, 0)) = 0
  BY UnitsFacts
<1> QED BY <1>1, EmptySeq

LEMMA StreamStep ==
    ASSUME BaseInv, StreamInv, Follows, [Next]_vars
    PROVE  StreamInv'
<1>1. ASSUME UNCHANGED <<flashVars, buf>>, ret = 0 \/ ret' = ret PROVE StreamInv'
  <2>1. WrittenPages' = WrittenPages /\ Written' = Written
    BY <1>1 DEF WrittenPages, Written, flashVars
  <2>2. FlashIsPrefix'
    BY <1>1, <2>1 DEF StreamInv, FlashIsPrefix, flashVars
  <2>3. ret' # VERIFY_ERROR => ret # VERIFY_ERROR
    BY <1>1 DEF VERIFY_ERROR
  <2> QED BY <1>1, <2>1, <2>2, <2>3 DEF StreamInv
<1>2. CASE Sender \/ SenderTooEarly \/ SenderCancels \/ UNCHANGED vars
  <2>1. UNCHANGED <<flashVars, recvVars>>
    BY <1>2 DEF Sender, SenderStarts, SenderAcked, SenderNaked, SenderTimeout, SenderTooEarly,
                SenderCancels, vars
  <2> QED BY <1>1, <2>1 DEF recvVars
<1>3. CASE Controls
  <2>1. phase = "receive"
    BY <1>3 DEF Controls, WaitTimesOut, GetEOT, GetCANs, GetCAN, GetDamaged, GetHeadless, GetOther,
         GetRepeated, Receiving
  <2>2. UNCHANGED <<flashVars, buf>>
    BY <1>3 DEF Controls, WaitTimesOut, GetEOT, GetCANs, GetCAN, GetDamaged, GetHeadless, GetOther,
         GetRepeated, Reject
  <2>3. ret = 0
    BY <2>1 DEF BaseInv, StoreInv
  <2> QED BY <1>1, <2>2, <2>3
<1>4. CASE erase_blocks
  <2>1. flash_dest' = 0 /\ buf' = <<>>
    BY <1>4 DEF erase_blocks, BaseInv, StoreInv
  <2>2. WrittenPages' = {}
    <3>1. WrittenPages' = {a \in 0 .. -1 : Block(a) \notin bbi_table'}
      BY <2>1 DEF WrittenPages
    <3> QED BY <3>1
  <2>3. FlashIsPrefix'
    BY <2>2 DEF FlashIsPrefix
  <2>4. Written' = 0 /\ 0 * PageUnits + 1 \in Nat /\ Len(buf') = 0
    BY <2>1, <2>2, Constants, FS_EmptySet DEF Written
  <2> QED BY <2>1, <2>3, <2>4, EmptyUnits DEF StreamInv
<1> QED BY <1>2, <1>3, <1>4, StreamPart, StreamPage, StreamBadPage
        DEF Next, Receiver, Controls

LEMMA InitStream == Init => StreamInv
<1> SUFFICES ASSUME Init PROVE StreamInv
  OBVIOUS
<1>1. flash_dest = 0 /\ buf = <<>>
  BY DEF Init
<1>2. WrittenPages = {}
  <2>1. WrittenPages = {a \in 0 .. -1 : Block(a) \notin bbi_table}
    BY <1>1 DEF WrittenPages
  <2> QED BY <2>1
<1>3. FlashIsPrefix
  BY <1>2 DEF FlashIsPrefix
<1>4. Written = 0 /\ 0 * PageUnits + 1 \in Nat /\ Len(buf) = 0
  BY <1>1, <1>2, Constants, FS_EmptySet DEF Written
<1> QED BY <1>1, <1>3, <1>4, EmptyUnits DEF StreamInv

-----------------------------------------------------------------------------
(* Packet numbers.                                                         *)

\* While there is room, the number expected is that of the packet behind the units
\* received.
NumberInv ==
    len < destsz => \E c \in Nat : len = c * PktUnits /\ packetno = (c + 1) % SeqMod

LEMMA NumberStep ==
    ASSUME BaseInv, NumberInv, [Next]_vars
    PROVE  NumberInv'
<1>1. CASE UNCHANGED <<len, packetno>>
  BY <1>1 DEF NumberInv
<1>2. CASE Accept
  <2> SUFFICES ASSUME len' < destsz
               PROVE  \E c \in Nat : len' = c * PktUnits /\ packetno' = (c + 1) % SeqMod
    BY DEF NumberInv
  <2>1. len' = len + Count /\ packetno' = (packetno + 1) % SeqMod
    BY <1>2 DEF Accept, NextNumber
  <2>2. len \in Nat /\ len <= destsz
    BY TypeParts DEF BaseInv, FlashType, StoreInv
  <2>3. Count = PktUnits /\ len < destsz
    BY <2>1, <2>2, CountFacts, Constants
  <2>4. PICK c \in Nat : len = c * PktUnits /\ packetno = (c + 1) % SeqMod
    BY <2>3 DEF NumberInv
  <2>5. len' = (c + 1) * PktUnits /\ c + 1 \in Nat
    BY <2>1, <2>3, <2>4, Constants
  <2>6. packetno' = ((c + 1) + 1) % SeqMod
    <3> DEFINE x == c + 1
    <3>1. x \in Nat /\ packetno' = ((x % SeqMod) + 1) % SeqMod
      BY <2>1, <2>4
    <3>2. SeqMod \in Nat \ {0}
      BY Constants
    <3> HIDE DEF x
    <3>3. ((x % SeqMod) + 1) % SeqMod = (x + 1) % SeqMod
      BY <3>1, <3>2, ModSucc
    <3> QED BY <3>1, <3>3 DEF x
  <2> QED BY <2>5, <2>6
<1>3. \/ UNCHANGED <<len, packetno>>
      \/ Accept
  <2>1. CASE Sender \/ SenderTooEarly \/ SenderCancels \/ UNCHANGED vars
    BY <2>1 DEF Sender, SenderStarts, SenderAcked, SenderNaked, SenderTimeout, SenderTooEarly,
                SenderCancels, vars, recvVars
  <2>2. CASE Controls
    BY <2>2 DEF Controls, WaitTimesOut, GetEOT, GetCANs, GetCAN, GetDamaged, GetHeadless, GetOther,
         GetRepeated, Reject
  <2>3. CASE erase_blocks \/ GetPart \/ GetPage \/ GetBadPage
    BY <2>3 DEF erase_blocks, GetPart, GetPage, GetBadPage
  <2> QED BY <2>1, <2>2, <2>3 DEF Next, Receiver, Controls
<1> QED BY <1>1, <1>2, <1>3

\* The packet at hand is less than a round of the packet numbers away from the one
\* expected: what an eight-bit packet number can tell apart.
InWindow ==
    \A k \in 0 .. Packets - 1, c \in Nat :
        Receiving("data") /\ Head(toRecv) = Data(k) /\ len = c * PktUnits
            => k - c < SeqMod /\ c - k < SeqMod

LEMMA WindowFollows ==
    ASSUME BaseInv, NumberInv, InWindow
    PROVE  Follows
<1> SUFFICES ASSUME NEW k \in 0 .. Packets - 1, GetNext(k), len < destsz
             PROVE  k * PktUnits = len
  BY DEF Follows
<1>1. PICK c \in Nat : len = c * PktUnits /\ packetno = (c + 1) % SeqMod
  BY DEF NumberInv
<1>2. k - c < SeqMod /\ c - k < SeqMod /\ (k + 1) % SeqMod = (c + 1) % SeqMod
  BY <1>1 DEF InWindow, GetNext, IsNext, Number
<1> DEFINE x == k + 1
           y == c + 1
<1>3. x \in Nat /\ y \in Nat /\ x - y < SeqMod /\ y - x < SeqMod /\ x % SeqMod = y % SeqMod
      /\ SeqMod \in Nat \ {0}
  BY <1>2, Constants
<1>4. x = y => k = c
  BY Constants
<1> HIDE DEF x, y
<1>5. x = y
  BY <1>3, ModEqual
<1> QED BY <1>1, <1>4, <1>5

\* Whatever arrives, and however often, the pages written are the first pages of the
\* file in order, as long as no packet is a whole round of packet numbers early or
\* late (cli_xmodemReceive compares unsigned chars).
THEOREM ReceiverKeepsOrder == Spec /\ []InWindow => []FlashIsPrefix
<1> DEFINE I == BaseInv /\ NumberInv /\ StreamInv
<1>1. Init => I
  <2>1. Init => NumberInv
    <3> SUFFICES ASSUME Init PROVE NumberInv
      OBVIOUS
    <3>1. len = 0 /\ packetno = 1
      BY DEF Init
    <3>2. 0 \in Nat /\ 0 = 0 * PktUnits /\ (0 + 1) % SeqMod = 1
      BY Constants
    <3> QED BY <3>1, <3>2 DEF NumberInv
  <2> QED BY <2>1, InitBase, InitStream
<1>2. I /\ InWindow /\ [Next]_vars => I'
  <2> SUFFICES ASSUME I, InWindow, [Next]_vars PROVE I'
    OBVIOUS
  <2>1. Follows
    BY WindowFollows
  <2> QED BY <2>1, NextBase, NumberStep, StreamStep
<1>3. I => FlashIsPrefix
  BY DEF StreamInv
<1> QED BY <1>1, <1>2, <1>3, PTL DEF Spec

-----------------------------------------------------------------------------
(* The protocol on a line without repeats that come too early.             *)

LEMMA KindsKept ==
    ASSUME BaseInv, [Next]_vars
    PROVE  faults'.kinds = faults.kinds
<1>1. TypeOK /\ RecvType /\ LineType
  BY TypeParts DEF BaseInv
<1>2. \A q \in Chars : Answer(q) => faults'.kinds = faults.kinds
  BY <1>1, AnswerFacts
<1>3. \A m \in Messages : Transmit(toRecv, m) => faults'.kinds = faults.kinds
  BY <1>1, TransmitFacts DEF LineType
<1>4. \A kind : Fault(kind) => faults'.kinds = faults.kinds
  BY <1>1, FaultFacts
<1>5. "ACK" \in Chars /\ "NAK" \in Chars /\ "C" \in Chars
  BY DEF Chars
<1>6. phase = "receive" /\ NextTry => faults'.kinds = faults.kinds
  <2> SUFFICES ASSUME phase = "receive", NextTry PROVE faults'.kinds = faults.kinds
    OBVIOUS
  <2>1. ret = 0
    BY DEF BaseInv, StoreInv
  <2> QED BY <1>1, <2>1, NextTryFacts
<1>7. Reject => faults'.kinds = faults.kinds
  BY <1>2, <1>5 DEF Reject
<1>8. \A k \in 0 .. Packets : Transmit(toRecv, Current(k)) => faults'.kinds = faults.kinds
  BY <1>3, CurrentFacts
<1>9. CASE Sender
  <2>1. cur \in 0 .. Packets /\ 0 \in 0 .. Packets /\ (cur # Packets => cur + 1 \in 0 .. Packets)
    BY <1>1, Constants DEF LineType
  <2> QED BY <1>8, <1>9, <2>1 DEF Sender, SenderStarts, SenderAcked, SenderNaked, SenderTimeout
<1>10. CASE SenderTooEarly \/ SenderCancels
  BY <1>4, <1>10 DEF SenderTooEarly, SenderCancels
<1>11. CASE Controls
  BY <1>2, <1>5, <1>6, <1>7, <1>11 DEF Controls, WaitTimesOut, GetEOT, GetCANs, GetCAN, GetDamaged,
         GetHeadless, GetOther, GetRepeated, Receiving
<1>12. CASE erase_blocks \/ GetPart \/ GetPage \/ GetBadPage
  BY <1>2, <1>4, <1>5, <1>12 DEF erase_blocks, GetPart, GetPage, GetBadPage
<1>13. CASE UNCHANGED vars
  BY <1>13 DEF vars
<1> QED BY <1>9, <1>10, <1>11, <1>12, <1>13 DEF Next, Receiver, Controls

\* The receiver takes a message and answers it; d packets were received then.
LEMMA Answered ==
    ASSUME TypeOK, NEW c \in Nat, NEW d \in Nat, ProtocolAt(c),
           toRecv # <<>>, toRecv' = <<>> \/ toRecv' = Tail(toRecv), UNCHANGED sendVars,
           len' = d * PktUnits, packetno' = (d + 1) % SeqMod, cur = d \/ cur = d - 1,
           \/ toSend' = toSend
           \/ \E q \in Chars : toSend' = Append(toSend, q) /\ (q = "ACK" => cur = d - 1)
    PROVE  ProtocolAt(d)'
<1>1. toRecv \in Seq(Messages) /\ toSend \in Seq(Chars)
  BY TypeParts DEF LineType
<1>2. cur' = cur /\ sender' = sender
  BY DEF sendVars
<1>3. sender # "start"
  BY DEF ProtocolAt
<1>4. Len(toRecv) \in Nat \ {0}
  BY <1>1, EmptySeq
<1>5. MessagesInv'
  <2>1. CASE toRecv' = <<>>
    BY <2>1 DEF MessagesInv
  <2>2. CASE toRecv' = Tail(toRecv)
    <3>1. /\ Len(toRecv') = Len(toRecv) - 1
          /\ \A i \in 1 .. Len(toRecv') : toRecv'[i] = toRecv[i + 1]
      BY <1>1, <2>2, HeadTailProperties
    <3>2. \A i \in 1 .. Len(toRecv') : i + 1 \in 1 .. Len(toRecv)
      BY <1>4, <3>1
    <3>3. MessagesInv
      BY DEF ProtocolAt
    <3> QED BY <1>2, <3>1, <3>2, <3>3 DEF MessagesInv
  <2> QED BY <2>1, <2>2
<1>6. ASSUME sender = "await"
      PROVE  toRecv' = <<>> /\ Len(toRecv') <= 1 /\ Len(toSend') <= 1
             /\ (toSend' = <<"ACK">> => cur = d - 1)
  <2>1. toSend = <<>> /\ Len(toRecv) <= 1
    BY <1>6 DEF ProtocolAt
  <2>2. toRecv' = <<>>
    <3>0. Len(Tail(toRecv)) = Len(toRecv) - 1 /\ Tail(toRecv) \in Seq(Messages)
      BY <1>1, HeadTailProperties
    <3>1. Len(Tail(toRecv)) = 0
      BY <1>4, <2>1, <3>0
    <3>2. Tail(toRecv) = <<>>
      BY <3>0, <3>1, EmptySeq
    <3> QED BY <3>2
  <2>3. CASE toSend' = toSend
    BY <2>1, <2>2, <2>3
  <2>4. CASE \E q \in Chars : toSend' = Append(toSend, q) /\ (q = "ACK" => cur = d - 1)
    <3>1. PICK q \in Chars : toSend' = Append(toSend, q) /\ (q = "ACK" => cur = d - 1)
      BY <2>4
    <3>2. toSend' = <<q>>
      BY <2>1, <3>1
    <3>3. Len(toSend') = 1 /\ (toSend' = <<"ACK">> => q = "ACK")
      BY <3>2
    <3> QED BY <2>2, <3>1, <3>3
  <2> QED BY <2>3, <2>4
<1> QED BY <1>2, <1>3, <1>5, <1>6 DEF ProtocolAt

\* The sender sends the packet it is at; nothing else is under way.
LEMMA Sent ==
    ASSUME TypeOK, NEW c \in Nat, ProtocolAt(c), toRecv = <<>>, toSend' = <<>>, sender' = "await",
           NEW k \in 0 .. Packets, cur' = k, k = c \/ k = c - 1,
           Transmit(toRecv, Current(k)), UNCHANGED <<len, packetno>>
    PROVE  ProtocolAt(c)'
<1>1. toRecv \in Seq(Messages)
  BY TypeParts DEF LineType
<1>2. /\ Current(k) \in Messages
      /\ Current(k).kind = "data" => Current(k).k = k /\ k < Packets
      /\ Current(k).kind = "EOT" => k = Packets
  BY CurrentFacts
<1>3. \/ toRecv' = toRecv
      \/ \E x \in Messages :
            /\ toRecv' = Append(toRecv, x)
            /\ \/ x = Current(k)
               \/ x.kind = "damaged"
               \/ x.kind = "headless"
  BY <1>1, <1>2, TransmitFacts
<1>4. MessagesInv' /\ Len(toRecv') <= 1
  <2>1. CASE toRecv' = toRecv
    <3>1. toRecv' = <<>>
      BY <2>1
    <3> QED BY <3>1 DEF MessagesInv
  <2>2. CASE toRecv' # toRecv
    <3>1. PICK x \in Messages :
            /\ toRecv' = Append(toRecv, x)
            /\ \/ x = Current(k)
               \/ x.kind = "damaged"
               \/ x.kind = "headless"
      BY <1>3, <2>2
    <3>2. toRecv' = <<x>>
      BY <3>1
    <3>3. Len(toRecv') = 1 /\ toRecv'[1] = x
      BY <3>2
    <3>4. \A i \in 1 .. Len(toRecv') : toRecv'[i] = x
      BY <3>3
    <3>5. /\ x.kind = "data" => x.k = k /\ k < Packets
          /\ x.kind = "EOT" => k = Packets
      BY <1>2, <3>1
    <3> QED BY <3>3, <3>4, <3>5 DEF MessagesInv
  <2> QED BY <2>1, <2>2
<1>5. Len(toSend') = 0 /\ toSend' # <<"ACK">>
  OBVIOUS
<1> QED BY <1>4, <1>5 DEF ProtocolAt

\* The message at hand is the one the sender is at.
LEMMA HeadIs ==
    ASSUME TypeOK, NEW c \in Nat, ProtocolAt(c), toRecv # <<>>
    PROVE  /\ Head(toRecv).kind = "data" => Head(toRecv).k = cur /\ cur < Packets
           /\ Head(toRecv).kind = "EOT" => cur = Packets
<1>1. toRecv \in Seq(Messages)
  BY TypeParts DEF LineType
<1>2. Len(toRecv) \in Nat \ {0}
  BY <1>1, EmptySeq
<1>3. 1 \in 1 .. Len(toRecv) /\ Head(toRecv) = toRecv[1]
  BY <1>1, <1>2
<1> QED BY <1>3 DEF ProtocolAt, MessagesInv

LEMMA NumbersDiffer ==
    ASSUME NEW c \in Nat
    PROVE  c % SeqMod # (c + 1) % SeqMod
<1> DEFINE y == c + 1
<1>1. y \in Nat /\ c - y < SeqMod /\ y - c < SeqMod /\ SeqMod \in Nat \ {0} /\ c # y
  BY Constants
<1> HIDE DEF y
<1>2. c % SeqMod # y % SeqMod
  BY <1>1, ModEqual
<1> QED BY <1>2 DEF y

\* The packet accepted is the one expected; a packet taken for a repeated one is the
\* one before it.
LEMMA TakenFor ==
    ASSUME TypeOK, NEW c \in Nat, ProtocolAt(c), toRecv # <<>>, Head(toRecv).kind = "data"
    PROVE  /\ IsNext(Head(toRecv).k) => cur = c
           /\ IsRepeated(Head(toRecv).k) => cur = c - 1
<1>1. /\ Head(toRecv).k = cur /\ (cur = c \/ cur = c - 1) /\ packetno = (c + 1) % SeqMod
  BY HeadIs DEF ProtocolAt
<1>2. (c - 1) + 1 = c /\ packetno \in Nat
  BY <1>1, Constants
<1>3. ASSUME IsNext(cur) PROVE cur = c
  <2> SUFFICES ASSUME cur = c - 1 PROVE FALSE
    BY <1>1
  <2>1. c % SeqMod = (c + 1) % SeqMod
    BY <1>1, <1>2, <1>3 DEF IsNext, Number
  <2> QED BY <2>1, NumbersDiffer
<1>4. ASSUME IsRepeated(cur) PROVE cur = c - 1
  <2> SUFFICES ASSUME cur = c PROVE FALSE
    BY <1>1
  <2>1. packetno = packetno - 1
    BY <1>1, <1>4 DEF IsRepeated, Number
  <2> QED BY <1>2, <2>1
<1> QED BY <1>1, <1>3, <1>4

\* There is a state of the protocol as long as the receiver waits and has room.
AtSome == \E c \in Nat : ProtocolAt(c)

LEMMA SenderAt ==
    ASSUME BaseInv, Sequential, Sender \/ SenderTooEarly \/ SenderCancels,
           NEW c \in Nat, ProtocolAt(c)
    PROVE  ProtocolAt(c)'
<1>1. TypeOK /\ LineType
  BY TypeParts DEF BaseInv
<1>2. toRecv \in Seq(Messages) /\ toSend \in Seq(Chars) /\ cur \in 0 .. Packets
  BY <1>1 DEF LineType
<1>3. UNCHANGED <<phase, len, packetno>>
  BY DEF Sender, SenderStarts, SenderAcked, SenderNaked, SenderTimeout, SenderTooEarly,
         SenderCancels, recvVars
<1>6. cur = c \/ cur = c - 1
  BY DEF ProtocolAt
<1>7. ASSUME sender = "await", toSend # <<>>
      PROVE  toRecv = <<>> /\ Tail(toSend) = <<>> /\ (Head(toSend) = "ACK" => cur = c - 1)
  <2>1. toRecv = <<>> /\ Len(toSend) <= 1
    BY <1>7 DEF ProtocolAt
  <2>2. Len(toSend) \in Nat \ {0}
    BY <1>2, <1>7, EmptySeq
  <2>3. Len(toSend) = 1
    <3> DEFINE n == Len(toSend)
    <3>1. n <= 1 /\ n \in Nat \ {0}
      BY <2>1, <2>2
    <3> HIDE DEF n
    <3>2. n = 1
      BY <3>1
    <3> QED BY <3>2 DEF n
  <2>4. toSend = <<Head(toSend)>>
    BY <1>2, <2>3
  <2>5. Tail(toSend) = <<>>
    <3>1. Len(Tail(toSend)) = Len(toSend) - 1 /\ Tail(toSend) \in Seq(Chars)
      BY <1>2, <1>7, HeadTailProperties
    <3>2. Len(Tail(toSend)) = 0
      BY <2>3, <3>1
    <3> QED BY <3>1, <3>2, EmptySeq
  <2>6. Head(toSend) = "ACK" => toSend = <<"ACK">>
    BY <2>4
  <2> QED BY <1>7, <2>1, <2>5, <2>6 DEF ProtocolAt
<1>8. CASE SenderStarts
  <2>1. toRecv = <<>> /\ cur = 0 /\ c = 0
    BY <1>8 DEF SenderStarts, ProtocolAt
  <2>2. toSend' = <<>> /\ sender' = "await" /\ cur' = 0 /\ Transmit(toRecv, Current(0))
    BY <1>8, <2>1 DEF SenderStarts
  <2>3. 0 \in 0 .. Packets
    BY Constants
  <2> QED BY <1>1, <1>3, <2>1, <2>2, <2>3, Sent
<1>9. CASE SenderAcked
  <2>1. toRecv = <<>> /\ cur = c - 1 /\ toSend' = <<>>
    BY <1>7, <1>9 DEF SenderAcked
  <2>2. CASE cur = Packets
    <3>1. sender' = "done" /\ cur' = cur /\ toRecv' = toRecv
      BY <1>9, <2>2 DEF SenderAcked
    <3>2. MessagesInv'
      BY <2>1, <3>1 DEF MessagesInv
    <3> QED BY <1>3, <1>6, <3>1, <3>2 DEF ProtocolAt
  <2>3. CASE cur # Packets
    <3>1. cur' = cur + 1 /\ Transmit(toRecv, Current(cur + 1)) /\ sender' = "await"
      BY <1>9, <2>3 DEF SenderAcked
    <3>2. cur + 1 = c /\ c \in 0 .. Packets
      BY <1>2, <2>1, <2>3, Constants
    <3> QED BY <1>1, <1>3, <2>1, <3>1, <3>2, Sent
  <2> QED BY <2>2, <2>3
<1>10. CASE SenderNaked
  <2>1. toRecv = <<>> /\ toSend' = <<>>
    BY <1>7, <1>10 DEF SenderNaked
  <2>2. Transmit(toRecv, Current(cur)) /\ cur' = cur /\ sender' = "await"
    BY <1>10 DEF SenderNaked, sendVars
  <2> QED BY <1>1, <1>2, <1>3, <1>6, <2>1, <2>2, Sent
<1>11. CASE SenderTimeout
  <2>1. toRecv = <<>> /\ toSend' = <<>>
    BY <1>11 DEF SenderTimeout
  <2>2. Transmit(toRecv, Current(cur)) /\ cur' = cur /\ sender' = "await"
    BY <1>11 DEF SenderTimeout, sendVars
  <2> QED BY <1>1, <1>2, <1>3, <1>6, <2>1, <2>2, Sent
<1>12. CASE SenderTooEarly
  BY <1>12 DEF SenderTooEarly, Fault, Sequential
<1>13. CASE SenderCancels
  <2>1. PICK m \in Messages :
            toRecv' = Append(toRecv, m) /\ m.kind # "data" /\ m.kind # "EOT"
    <3>1. PICK kind \in {"CAN CAN", "CAN"} : toRecv' = Append(toRecv, Msg(kind))
      BY <1>13 DEF SenderCancels
    <3>2. Msg(kind) \in Messages
      BY DEF Msg, Messages
    <3>3. Msg(kind).kind # "data" /\ Msg(kind).kind # "EOT"
      BY DEF Msg
    <3> QED BY <3>1, <3>2, <3>3
  <2>2. sender' = "done" /\ UNCHANGED <<toSend, cur>>
    BY <1>13 DEF SenderCancels
  <2>5. MessagesInv'
    <3> SUFFICES ASSUME NEW i \in 1 .. Len(toRecv')
                 PROVE  /\ toRecv'[i].kind = "data" => toRecv'[i].k = cur' /\ cur' < Packets
                        /\ toRecv'[i].kind = "EOT" => cur' = Packets
      BY DEF MessagesInv
    <3>1. toRecv'[i] = m \/ (i \in 1 .. Len(toRecv) /\ toRecv'[i] = toRecv[i])
      BY <1>2, <2>1, AppendAt
    <3>2. MessagesInv
      BY DEF ProtocolAt
    <3> QED BY <2>1, <2>2, <3>1, <3>2 DEF MessagesInv
  <2> QED BY <1>3, <1>6, <2>2, <2>5 DEF ProtocolAt
<1> QED BY <1>8, <1>9, <1>10, <1>11, <1>12, <1>13 DEF Sender

LEMMA SenderProtocol ==
    ASSUME BaseInv, Sequential, ProtocolInv, Sender \/ SenderTooEarly \/ SenderCancels
    PROVE  ProtocolInv'
<1>1. UNCHANGED <<phase, len>>
  BY DEF Sender, SenderStarts, SenderAcked, SenderNaked, SenderTimeout, SenderTooEarly,
         SenderCancels, recvVars
<1>2. phase # "erase"
  BY DEF ProtocolInv, Sender, SenderStarts, SenderAcked, SenderNaked, SenderTimeout,
         SenderTooEarly, SenderCancels
<1>3. ASSUME phase # "end", len < destsz PROVE \E c \in Nat : ProtocolAt(c)'
  BY <1>3, SenderAt DEF ProtocolInv
<1> QED BY <1>1, <1>2, <1>3 DEF ProtocolInv

LEMMA ControlsProtocol ==
    ASSUME BaseInv, ProtocolInv, Controls
    PROVE  ProtocolInv'
<1>1. TypeOK /\ LineType
  BY TypeParts DEF BaseInv
<1>2. toRecv \in Seq(Messages) /\ toSend \in Seq(Chars)
  BY <1>1 DEF LineType
<1>3. phase = "receive"
  BY DEF Controls, WaitTimesOut, GetEOT, GetCANs, GetCAN, GetDamaged, GetHeadless, GetOther,
         GetRepeated, Receiving
<1>4. UNCHANGED <<len, packetno, sendVars>>
  BY DEF Controls, WaitTimesOut, GetEOT, GetCANs, GetCAN, GetDamaged, GetHeadless, GetOther,
         GetRepeated, Reject
<1>5. ret = 0
  BY <1>3 DEF BaseInv, StoreInv
<1>6. phase' \in {"receive", "end"}
  BY <1>1, <1>3, <1>5, NextTryFacts
     DEF Controls, WaitTimesOut, GetEOT, GetCANs, GetCAN, GetDamaged, GetHeadless, GetOther,
         GetRepeated, Reject, Return
<1>7. ASSUME NEW c \in Nat, ProtocolAt(c), phase' # "end" PROVE ProtocolAt(c)'
  <2>0. cur = c \/ cur = c - 1
    BY <1>7 DEF ProtocolAt
  <2>1. len' = c * PktUnits /\ packetno' = (c + 1) % SeqMod
    BY <1>4, <1>7 DEF ProtocolAt
  <2>2. ASSUME toRecv # <<>>, toRecv' = <<>> \/ toRecv' = Tail(toRecv),
               \/ toSend' = toSend
               \/ \E q \in Chars : toSend' = Append(toSend, q) /\ (q = "ACK" => cur = c - 1)
        PROVE  ProtocolAt(c)'
    BY <1>1, <1>4, <1>7, <2>0, <2>1, <2>2, Answered
  <2>3. sender = "start" => toRecv = <<>>
    BY <1>7 DEF ProtocolAt
  <2>4. ASSUME NEW q \in Chars, Answer(q), toRecv # <<>>
        PROVE  toSend' = toSend \/ toSend' = Append(toSend, q)
    BY <1>1, <2>3, <2>4, AnswerFacts
  <2>5. ASSUME Reject, toRecv # <<>> PROVE ProtocolAt(c)'
    <3>1. "NAK" \in Chars /\ "NAK" # "ACK"
      BY DEF Chars
    <3>2. toRecv' = <<>> /\ Answer("NAK")
      BY <2>5 DEF Reject
    <3> QED BY <2>2, <2>4, <2>5, <3>1, <3>2
  <2>6. NextTry => \/ toSend' = toSend
                   \/ \E q \in {"C", "NAK"} : toSend' = Append(toSend, q)
                   \/ sender = "start"
    BY <1>1, <1>3, <1>5, NextTryFacts
  <2>7. CASE WaitTimesOut
    <3>1. toRecv = <<>> /\ (toSend = <<>> \/ sender # "await") /\ NextTry /\ toRecv' = <<>>
          /\ UNCHANGED <<cur, sender>>
      BY <2>7 DEF WaitTimesOut, sendVars
    <3>2. MessagesInv'
      BY <3>1 DEF MessagesInv
    <3>3. ASSUME sender = "await" PROVE Len(toSend') <= 1 /\ toSend' # <<"ACK">>
      <4>1. toSend = <<>>
        BY <3>1, <3>3
      <4>2. CASE toSend' = toSend
        BY <4>1, <4>2
      <4>3. CASE \E q \in {"C", "NAK"} : toSend' = Append(toSend, q)
        <5>1. PICK q \in {"C", "NAK"} : toSend' = Append(toSend, q)
          BY <4>3
        <5>2. toSend' = <<q>> /\ q # "ACK"
          BY <4>1, <5>1
        <5> QED BY <5>2
      <4> QED BY <2>6, <3>1, <3>3, <4>2, <4>3
    <3>4. Len(toRecv') = 0
      BY <3>1
    <3> QED BY <1>7, <2>1, <3>1, <3>2, <3>3, <3>4 DEF ProtocolAt
  <2>8. CASE GetEOT \/ GetCANs
    BY <1>7, <2>8 DEF GetEOT, GetCANs, Return
  <2>9. CASE GetCAN
    <3>1. toRecv # <<>> /\ toRecv' = Tail(toRecv) /\ NextTry
      BY <2>9 DEF GetCAN, Receiving
    <3>2. \A q \in {"C", "NAK"} : q \in Chars /\ q # "ACK"
      BY DEF Chars
    <3> QED BY <2>2, <2>3, <2>6, <3>1, <3>2
  <2>10. CASE GetDamaged \/ GetOther
    BY <2>5, <2>10 DEF GetDamaged, GetOther, Receiving
  <2>11. CASE GetHeadless
    BY <1>7, <2>5, <2>11 DEF GetHeadless, Receiving, Return
  <2>12. CASE GetRepeated
    <3>1. /\ toRecv # <<>> /\ Head(toRecv).kind = "data" /\ IsRepeated(Head(toRecv).k)
          /\ toRecv' = Tail(toRecv) /\ Answer("ACK")
      BY <1>7, <2>12 DEF GetRepeated, Receiving, Return
    <3>2. cur = c - 1
      BY <1>1, <1>7, <3>1, TakenFor
    <3>3. "ACK" \in Chars
      BY DEF Chars
    <3> QED BY <2>2, <2>4, <3>1, <3>2, <3>3
  <2> QED BY <2>7, <2>8, <2>9, <2>10, <2>11, <2>12 DEF Controls
<1>8. ASSUME phase' # "end", len < destsz PROVE \E c \in Nat : ProtocolAt(c)'
  BY <1>3, <1>7, <1>8 DEF ProtocolInv
<1> QED BY <1>4, <1>6, <1>8 DEF ProtocolInv

LEMMA NextIsCurrent ==
    ASSUME TypeOK, NEW c \in Nat, ProtocolAt(c), NEW k \in 0 .. Packets - 1, GetNext(k)
    PROVE  k = c /\ cur = c
<1>1. toRecv # <<>> /\ Head(toRecv).kind = "data" /\ Head(toRecv).k = k /\ IsNext(k)
  BY DEF GetNext, Receiving, Data
<1>2. k = cur
  BY <1>1, HeadIs
<1>3. cur = c
  BY <1>1, TakenFor
<1> QED BY <1>2, <1>3

LEMMA ProtocolFollows ==
    ASSUME BaseInv, ProtocolInv
    PROVE  Follows
<1> SUFFICES ASSUME NEW k \in 0 .. Packets - 1, GetNext(k), len < destsz
             PROVE  k * PktUnits = len
  BY DEF Follows
<1>1. phase # "end"
  BY DEF GetNext, Receiving
<1>2. PICK c \in Nat : ProtocolAt(c)
  BY <1>1 DEF ProtocolInv
<1>3. k = c
  BY <1>2, NextIsCurrent DEF BaseInv
<1> QED BY <1>2, <1>3 DEF ProtocolAt

LEMMA AcceptProtocol ==
    ASSUME BaseInv, ProtocolInv, NEW k \in 0 .. Packets - 1, GetNext(k), Accept, Answer("ACK")
    PROVE  ProtocolInv'
<1>1. TypeOK /\ phase = "receive" /\ toRecv # <<>>
  BY DEF BaseInv, GetNext, Receiving
<1>2. len \in Nat /\ len <= destsz
  BY TypeParts DEF BaseInv, FlashType, StoreInv
<1>3. /\ Count \in Nat /\ Count <= PktUnits
      /\ len = destsz => Count = 0
      /\ len + Count < destsz => Count = PktUnits
  BY <1>2, CountFacts
<1>4. /\ len' = len + Count /\ packetno' = (packetno + 1) % SeqMod /\ toRecv' = Tail(toRecv)
      /\ phase' = "receive" /\ UNCHANGED sendVars
  BY <1>1 DEF Accept, NextNumber
<1>5. CASE len = destsz
  BY <1>2, <1>3, <1>4, <1>5, Constants DEF ProtocolInv
<1>6. CASE len # destsz
  <2>1. len < destsz
    BY <1>2, <1>6, Constants
  <2>2. PICK c \in Nat : ProtocolAt(c)
    BY <1>1, <2>1 DEF ProtocolInv
  <2>3. k = c /\ cur = c /\ len = c * PktUnits /\ packetno = (c + 1) % SeqMod
    BY <1>1, <2>2, NextIsCurrent DEF ProtocolAt
  <2>4. (c + 1) * PktUnits <= Packets * PktUnits /\ (c + 1) * PktUnits = c * PktUnits + PktUnits
    <3>1. c + 1 <= Packets /\ Packets \in Nat /\ PktUnits \in Nat
      BY <2>3, Constants
    <3> QED BY <3>1
  <2>5. len' <= Packets * PktUnits
    <3>1. Packets * PktUnits \in Nat /\ c * PktUnits \in Nat
      BY Constants
    <3> QED BY <1>3, <1>4, <2>3, <2>4, <3>1, Constants
  <2>6. ASSUME len' < destsz PROVE ProtocolAt(c + 1)'
    <3> DEFINE d == c + 1
    <3>1. d \in Nat /\ cur = d - 1
      BY <2>3
    <3>2. len' = d * PktUnits
      BY <1>2, <1>3, <1>4, <2>3, <2>4, <2>6
    <3>3. packetno' = (d + 1) % SeqMod
      <4>1. packetno' = ((d % SeqMod) + 1) % SeqMod /\ SeqMod \in Nat \ {0}
        BY <1>4, <2>3, Constants
      <4> HIDE DEF d
      <4> QED BY <3>1, <4>1, ModSucc
    <3>4. "ACK" \in Chars
      BY DEF Chars
    <3>5. sender # "start"
      BY <1>1, <2>2 DEF ProtocolAt
    <3>6. toSend' = toSend \/ toSend' = Append(toSend, "ACK")
      BY <1>1, <3>4, <3>5, AnswerFacts
    <3> HIDE DEF d
    <3>7. ProtocolAt(d)'
      BY <1>1, <1>4, <2>2, <3>1, <3>2, <3>3, <3>4, <3>6, Answered
    <3> QED BY <3>7 DEF d
  <2>7. c + 1 \in Nat
    OBVIOUS
  <2> QED BY <1>4, <2>5, <2>6, <2>7 DEF ProtocolInv
<1> QED BY <1>5, <1>6

LEMMA ProtocolStep ==
    ASSUME BaseInv, Sequential, ProtocolInv, [Next]_vars
    PROVE  ProtocolInv'
<1>1. CASE UNCHANGED vars
  BY <1>1 DEF vars, recvVars, lineVars, sendVars, ProtocolInv, ProtocolAt, MessagesInv
<1>2. CASE erase_blocks
  <2>1. /\ phase = "erase" /\ phase' \in {"receive", "end"}
        /\ UNCHANGED <<len, packetno, toRecv, cur, sender>>
    BY <1>2 DEF erase_blocks, sendVars
  <2>2. sender = "start"
    BY <2>1 DEF ProtocolInv
  <2>3. ASSUME NEW c \in Nat, ProtocolAt(c) PROVE ProtocolAt(c)'
    <3>1. MessagesInv'
      BY <2>1, <2>3 DEF ProtocolAt, MessagesInv
    <3> QED BY <2>1, <2>2, <2>3, <3>1 DEF ProtocolAt
  <2> QED BY <2>1, <2>3 DEF ProtocolInv
<1>3. CASE GetPart \/ GetPage
  BY <1>3, AcceptProtocol DEF GetPart, GetPage
<1>4. CASE GetBadPage
  BY <1>4 DEF GetBadPage, Return, ProtocolInv
<1> QED BY <1>1, <1>2, <1>3, <1>4, SenderProtocol, ControlsProtocol DEF Next, Receiver, Controls

LEMMA InitProtocol == Init => ProtocolInv
<1> SUFFICES ASSUME Init PROVE ProtocolInv
  OBVIOUS
<1>1. /\ len = 0 /\ packetno = 1 /\ cur = 0 /\ toRecv = <<>> /\ toSend = <<>> /\ sender = "start"
  BY DEF Init
<1>2. 0 = 0 * PktUnits /\ 1 = (0 + 1) % SeqMod /\ 0 <= Packets * PktUnits /\ 0 \in Nat
  BY Constants
<1>3. MessagesInv
  BY <1>1 DEF MessagesInv
<1>4. ProtocolAt(0)
  BY <1>1, <1>2, <1>3 DEF ProtocolAt
<1> QED BY <1>1, <1>2, <1>4 DEF ProtocolInv

\* Over a line that loses, damages or beheads messages any number of times, with a
\* sender that repeats only after its time-out, the pages written are the first pages
\* of the file, in order, and none of them is in a block found bad.
THEOREM PagesInOrder == Spec /\ Sequential => []FlashIsPrefix
<1> DEFINE I == BaseInv /\ Sequential /\ ProtocolInv /\ StreamInv
<1>1. Init /\ Sequential => I
  BY InitBase, InitProtocol, InitStream
<1>2. I /\ [Next]_vars => I'
  <2> SUFFICES ASSUME I, [Next]_vars PROVE I'
    OBVIOUS
  <2>1. Follows
    BY ProtocolFollows
  <2>2. Sequential'
    BY KindsKept DEF Sequential
  <2> QED BY <2>1, <2>2, NextBase, ProtocolStep, StreamStep
<1>3. I => FlashIsPrefix
  BY DEF StreamInv
<1> QED BY <1>1, <1>2, <1>3, PTL DEF Spec

-----------------------------------------------------------------------------
(* The normal end.                                                         *)

LEMMA HeadlessKept ==
    ASSUME BaseInv, HeadlessInv, faults'.kinds = faults.kinds,
           \/ toRecv' = toRecv
           \/ toRecv' = <<>>
           \/ toRecv # <<>> /\ toRecv' = Tail(toRecv)
           \/ \E x \in Messages : /\ toRecv' = Append(toRecv, x)
                                  /\ x.kind = "headless" => "headless" \in faults.kinds
    PROVE  HeadlessInv'
<1>1. toRecv \in Seq(Messages)
  BY TypeParts DEF BaseInv, LineType
<1>2. CASE toRecv' = toRecv
  BY <1>2 DEF HeadlessInv
<1>3. CASE toRecv' = <<>>
  BY <1>3 DEF HeadlessInv
<1>4. CASE toRecv # <<>> /\ toRecv' = Tail(toRecv)
  <2>1. /\ Len(toRecv') = Len(toRecv) - 1
        /\ \A i \in 1 .. Len(toRecv') : toRecv'[i] = toRecv[i + 1]
    BY <1>1, <1>4, HeadTailProperties
  <2>2. Len(toRecv) \in Nat \ {0}
    BY <1>1, <1>4, EmptySeq
  <2>3. \A i \in 1 .. Len(toRecv') : i + 1 \in 1 .. Len(toRecv)
    BY <2>1, <2>2
  <2> QED BY <2>1, <2>3 DEF HeadlessInv
<1>5. CASE \E x \in Messages : /\ toRecv' = Append(toRecv, x)
                               /\ x.kind = "headless" => "headless" \in faults.kinds
  <2>1. PICK x \in Messages : /\ toRecv' = Append(toRecv, x)
                              /\ x.kind = "headless" => "headless" \in faults.kinds
    BY <1>5
  <2>2. \A i \in 1 .. Len(toRecv') :
            toRecv'[i] = x \/ (i \in 1 .. Len(toRecv) /\ toRecv'[i] = toRecv[i])
    BY <1>1, <2>1, AppendAt
  <2> QED BY <2>1, <2>2 DEF HeadlessInv
<1> QED BY <1>2, <1>3, <1>4, <1>5

LEMMA HeadlessStep ==
    ASSUME BaseInv, HeadlessInv, [Next]_vars
    PROVE  HeadlessInv'
<1> DEFINE Sending == \E x \in Messages : /\ toRecv' = Append(toRecv, x)
                                          /\ x.kind = "headless" => "headless" \in faults.kinds
<1>1. TypeOK /\ LineType
  BY TypeParts DEF BaseInv
<1>2. \A k \in 0 .. Packets : Transmit(toRecv, Current(k)) => toRecv' = toRecv \/ Sending
  <2> SUFFICES ASSUME NEW k \in 0 .. Packets, Transmit(toRecv, Current(k))
               PROVE  toRecv' = toRecv \/ Sending
    OBVIOUS
  <2>1. Current(k) \in Messages /\ Current(k).kind # "headless"
    BY CurrentFacts
  <2>2. toRecv \in Seq(Messages)
    BY <1>1 DEF LineType
  <2>3. \/ toRecv' = toRecv
        \/ \E x \in Messages :
              /\ toRecv' = Append(toRecv, x)
              /\ \/ x = Current(k)
                 \/ x.kind = "damaged"
                 \/ x.kind = "headless" /\ "headless" \in faults.kinds
    BY <1>1, <2>1, <2>2, TransmitFacts
  <2> QED BY <2>1, <2>3
<1>3. cur \in 0 .. Packets /\ 0 \in 0 .. Packets /\ (cur # Packets => cur + 1 \in 0 .. Packets)
  BY <1>1, Constants DEF LineType
<1>4. CASE Sender
  <2> HIDE DEF Sending
  <2>1. toRecv' = toRecv \/ Sending
    BY <1>2, <1>3, <1>4 DEF Sender, SenderStarts, SenderAcked, SenderNaked, SenderTimeout
  <2> QED BY <2>1, KindsKept, HeadlessKept DEF Sending
<1>5. CASE SenderTooEarly
  <2>1. Current(cur) \in Messages /\ Current(cur).kind # "headless"
    BY <1>3, CurrentFacts
  <2>2. toRecv' = Append(toRecv, Current(cur))
    BY <1>5 DEF SenderTooEarly
  <2> QED BY <2>1, <2>2, KindsKept, HeadlessKept
<1>6. CASE SenderCancels
  <2>1. PICK m \in Messages : toRecv' = Append(toRecv, m) /\ m.kind # "headless"
    <3>1. PICK kind \in {"CAN CAN", "CAN"} : toRecv' = Append(toRecv, Msg(kind))
      BY <1>6 DEF SenderCancels
    <3>2. Msg(kind) \in Messages
      BY DEF Msg, Messages
    <3>3. Msg(kind).kind # "headless"
      BY DEF Msg
    <3> QED BY <3>1, <3>2, <3>3
  <2> QED BY <2>1, KindsKept, HeadlessKept
<1>7. CASE Controls \/ erase_blocks \/ GetPart \/ GetPage \/ GetBadPage \/ UNCHANGED vars
  <2>1. toRecv' = toRecv \/ toRecv' = <<>> \/ (toRecv # <<>> /\ toRecv' = Tail(toRecv))
    BY <1>7 DEF Controls, WaitTimesOut, GetEOT, GetCANs, GetCAN, GetDamaged, GetHeadless, GetOther,
         GetRepeated, Reject, Receiving, erase_blocks, GetPart, GetPage, GetBadPage, GetNext, Accept,
         vars, lineVars
  <2> QED BY <2>1, KindsKept, HeadlessKept
<1> QED BY <1>4, <1>5, <1>6, <1>7 DEF Next, Receiver, Controls

\* At the end of the file the sender has got through all packets.
LEMMA EndOfFile ==
    ASSUME BaseInv, ProtocolInv, Receiving("EOT")
    PROVE  Written = FullPages
<1>1. TypeOK /\ StoreInv /\ FlashType
  BY TypeParts DEF BaseInv
<1>2. phase = "receive" /\ toRecv # <<>> /\ Head(toRecv).kind = "EOT"
  BY DEF Receiving
<1>3. len = Written * PageUnits + Len(buf) /\ Len(buf) < PageUnits
  <2>1. ret # VERIFY_ERROR
    BY <1>1, <1>2 DEF StoreInv, VERIFY_ERROR
  <2> QED BY <1>1, <2>1 DEF StoreInv
<1>4. Written \in Nat /\ Len(buf) \in Nat /\ len \in Nat /\ len <= destsz
  BY <1>1, WrittenFacts DEF FlashType, StoreInv
<1>5. len <= Packets * PktUnits
  BY DEF ProtocolInv
<1>6. len = IF Packets * PktUnits < destsz THEN Packets * PktUnits ELSE destsz
  <2>1. Packets * PktUnits \in Nat /\ destsz \in Nat
    BY Constants
  <2>2. CASE len = destsz
    BY <1>5, <2>1, <2>2
  <2>3. CASE len # destsz
    <3>1. len < destsz
      BY <1>4, <2>1, <2>3
    <3>2. PICK c \in Nat : ProtocolAt(c)
      BY <1>2, <3>1 DEF ProtocolInv
    <3>3. cur = Packets /\ len = c * PktUnits /\ (cur = c \/ cur = c - 1)
      BY <1>1, <1>2, <3>2, HeadIs DEF ProtocolAt
    <3>4. c * PktUnits <= Packets * PktUnits
      BY <1>5, <3>3
    <3>5. c <= Packets
      BY <3>4, Constants, Cancel
    <3>6. c = Packets
      BY <3>3, <3>5, Constants
    <3> QED BY <3>1, <3>3, <3>6
  <2> QED BY <2>2, <2>3
<1>7. (Written * PageUnits + Len(buf)) \div PageUnits = Written
  BY <1>3, <1>4, Constants, DivExact
<1> QED BY <1>3, <1>6, <1>7 DEF FullPages

LEMMA SuccessStep ==
    ASSUME BaseInv, HeadlessInv, ProtocolInv, Orderly, SuccessMeansWritten, [Next]_vars
    PROVE  SuccessMeansWritten'
<1> SUFFICES ASSUME phase' = "end", ret' > 0 PROVE Written' = FullPages
  BY DEF SuccessMeansWritten, Written
<1>1. CASE Sender \/ SenderTooEarly \/ SenderCancels \/ UNCHANGED vars
  <2>1. UNCHANGED <<flashVars, recvVars>>
    BY <1>1 DEF Sender, SenderStarts, SenderAcked, SenderNaked, SenderTimeout, SenderTooEarly,
                SenderCancels, vars
  <2>2. Written' = Written /\ phase = "end" /\ ret > 0
    BY <2>1 DEF Written, WrittenPages, flashVars, recvVars
  <2> QED BY <2>2 DEF SuccessMeansWritten, Written
<1>2. CASE Controls
  <2>1. phase = "receive"
    BY <1>2 DEF Controls, WaitTimesOut, GetEOT, GetCANs, GetCAN, GetDamaged, GetHeadless, GetOther,
         GetRepeated, Receiving
  <2>2. ret = 0 /\ TypeOK
    BY <2>1 DEF BaseInv, StoreInv
  <2>3. Written' = Written
    BY <1>2 DEF Controls, WaitTimesOut, GetEOT, GetCANs, GetCAN, GetDamaged, GetHeadless, GetOther,
         GetRepeated, Reject, Written, WrittenPages, flashVars
  <2>4. ~(CANCELED > 0) /\ ~(SYNC_ERROR > 0) /\ ~(RETRY_ERROR > 0)
    BY DEF CANCELED, SYNC_ERROR, RETRY_ERROR
  <2>5. CASE GetEOT
    BY <2>3, <2>5, EndOfFile DEF GetEOT
  <2>6. CASE GetCANs
    BY <2>4, <2>6 DEF GetCANs, Return
  <2>7. CASE WaitTimesOut \/ GetCAN
    <3>1. NextTry
      BY <2>7 DEF WaitTimesOut, GetCAN
    <3>2. ret' = SYNC_ERROR \/ phase' = "receive"
      BY <2>1, <2>2, <3>1, NextTryFacts
    <3> QED BY <2>4, <3>2
  <2>8. CASE GetDamaged \/ GetOther
    BY <2>1, <2>8 DEF GetDamaged, GetOther, Reject
  <2>9. CASE GetRepeated
    BY <2>1, <2>4, <2>9 DEF GetRepeated, Return
  <2>10. CASE GetHeadless
    <3>1. toRecv # <<>> /\ Head(toRecv).kind = "headless" /\ toRecv \in Seq(Messages)
      BY <2>10, <2>2, QueueFacts DEF GetHeadless, Receiving
    <3>2. Len(toRecv) \in Nat \ {0}
      BY <3>1, EmptySeq
    <3>3. 1 \in 1 .. Len(toRecv) /\ Head(toRecv) = toRecv[1]
      BY <3>1, <3>2
    <3>4. "headless" \in faults.kinds
      BY <3>1, <3>3 DEF HeadlessInv
    <3> QED BY <3>4 DEF Orderly
  <2> QED BY <1>2, <2>5, <2>6, <2>7, <2>8, <2>9, <2>10 DEF Controls
<1>3. CASE erase_blocks
  <2>1. ret' = 0
    BY <1>3 DEF erase_blocks, BaseInv, StoreInv
  <2> QED BY <2>1
<1>4. CASE GetPart \/ GetPage
  <2>1. phase' = "receive"
    BY <1>4 DEF GetPart, GetPage, GetNext, Receiving, Accept
  <2> QED BY <2>1
<1>5. CASE GetBadPage
  <2>1. ret' = VERIFY_ERROR
    BY <1>5 DEF GetBadPage, Return
  <2> QED BY <2>1 DEF VERIFY_ERROR
<1> QED BY <1>1, <1>2, <1>3, <1>4, <1>5 DEF Next, Receiver, Controls

\* A transfer that ends normally has written every full page of the image, for an
\* image of any length, any pattern of bad blocks and any number of messages lost or
\* damaged.
THEOREM SuccessIsWritten == Spec => []SuccessMeansWritten
<1> DEFINE I == BaseInv /\ HeadlessInv /\ (Orderly => ProtocolInv) /\ SuccessMeansWritten
<1>1. Init => I
  <2>1. Init => HeadlessInv /\ SuccessMeansWritten
    BY DEF Init, HeadlessInv, SuccessMeansWritten
  <2> QED BY <2>1, InitBase, InitProtocol
<1>2. I /\ [Next]_vars => I'
  <2> SUFFICES ASSUME I, [Next]_vars PROVE I'
    OBVIOUS
  <2>1. Orderly' <=> Orderly
    BY KindsKept DEF Orderly
  <2>2. BaseInv' /\ HeadlessInv'
    BY NextBase, HeadlessStep
  <2>3. Orderly => Sequential
    BY DEF Orderly, Sequential
  <2>4. Orderly => ProtocolInv'
    BY <2>3, ProtocolStep
  <2>5. SuccessMeansWritten'
    <3>1. CASE Orderly
      BY <3>1, SuccessStep
    <3>2. CASE ~Orderly
      BY <2>1, <3>2 DEF SuccessMeansWritten
    <3> QED BY <3>1, <3>2
  <2> QED BY <2>1, <2>2, <2>4, <2>5
<1>3. I => SuccessMeansWritten
  OBVIOUS
<1> QED BY <1>1, <1>2, <1>3, PTL DEF Spec
=============================================================================
