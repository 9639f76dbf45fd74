---------------------------- MODULE MmuDrvProofs ----------------------------
(***************************************************************************)
(* Proofs about the demand pager, for every number of frames, pages, TLB   *)
(* entries and ASIDs, as long as the mapping area has no more pages than   *)
(* the page-number mask of the handler can tell apart (AreaFits), and, for *)
(* LoadForcesRefill, there are enough ASIDs for the frames (EnoughAsids).  *)
(***************************************************************************)
EXTENDS MmuDrv, SequenceTheorems, FiniteSetTheorems, TLAPS

\* The condition the start-up check does not enforce and the released image
\* meets: the handler's mask keeps the numbers of all mapped pages.
AreaFits == NumVa <= NumTlb

\* What has to be carried along: TlbAgrees itself, the resident pages are pages
\* of the area, and the links of the lists are those of the frames' places.
PagingInv ==
    /\ TypeOK
    /\ TlbAgrees
    /\ \A f \in Frames : page[f].vpage_num # PSVA_FREE => page[f].vpage_num \in Pages
    /\ ListsIntact

\* Page numbers, TLB indices and halves: a page of the area is its own number,
\* and it is determined by its index and half.
LEMMA PageNumbers ==
    ASSUME AreaFits, NEW v \in Pages
    PROVE  /\ vpage_num(v) = v
           /\ v \in 0 .. NumTlb - 1
           /\ tlb_index(v) = v \div 2
           /\ v \div 2 \in 0 .. NumTlb - 1
           /\ v \div 2 \in Nat
           /\ ENTRYLO_IDX(v) = v % 2
           /\ v % 2 \in 0 .. 1
           /\ v = 2 * (v \div 2) + (v % 2)
<1>1. v \in 0 .. NumTlb - 1 /\ NumTlb \in Nat \ {0} /\ v \in Nat
  BY MmuAssumption DEF AreaFits, Pages
<1>2. v % NumTlb = v
  BY <1>1
<1>3. v \div 2 \in 0 .. NumTlb - 1 /\ v % 2 \in 0 .. 1 /\ v = 2 * (v \div 2) + (v % 2)
  BY <1>1
<1> QED BY <1>1, <1>2, <1>3 DEF vpage_num, tlb_index, ENTRYLO_IDX

\* Index and half determine the page.
LEMMA IndexHalf ==
    ASSUME NEW i \in Nat, NEW h \in 0 .. 1
    PROVE  (2 * i + h) \div 2 = i /\ (2 * i + h) % 2 = h
OBVIOUS

\* Unlinking a frame leaves a list of frames.
LEMMA WithoutType ==
    ASSUME NEW s \in Seq(Frames), NEW p \in Frames
    PROVE  Without(s, p) \in Seq(Frames)
<1>1. CASE \E i \in 1 .. Len(s) : s[i] = p
  <2> DEFINE i == CHOOSE i \in 1 .. Len(s) : s[i] = p
  <2>1. i \in 1 .. Len(s)
    BY <1>1
  <2>2. Without(s, p) = SubSeq(s, 1, i - 1) \o SubSeq(s, i + 1, Len(s))
    BY <1>1 DEF Without
  <2> HIDE DEF i
  <2>3. SubSeq(s, 1, i - 1) \in Seq(Frames) /\ SubSeq(s, i + 1, Len(s)) \in Seq(Frames)
    BY <2>1
  <2> QED BY <2>2, <2>3
<1>2. CASE ~\E i \in 1 .. Len(s) : s[i] = p
  BY <1>2 DEF Without
<1> QED BY <1>1, <1>2

\* Moving a frame keeps the lists lists of frames.
LEMMA MoveType ==
    ASSUME NEW ls \in [Levels -> Seq(Frames)], NEW l \in Levels, NEW p \in Frames
    PROVE  Moved(ls, l, p) \in [Levels -> Seq(Frames)]
<1>1. \A k \in Levels : Without(ls[k], p) \in Seq(Frames)
  BY WithoutType
<1>2. Append(Without(ls[l], p), p) \in Seq(Frames)
  BY <1>1, AppendProperties
<1> QED BY <1>1, <1>2 DEF Moved

-----------------------------------------------------------------------------
(* The lists of frames.                                                    *)

\* What unlinking p leaves: no p, every other frame once, and nothing new.
Unlinked(s, t, p) ==
    /\ Len(t) = IF \E i \in 1 .. Len(s) : s[i] = p THEN Len(s) - 1 ELSE Len(s)
    /\ \A j \in 1 .. Len(t) : t[j] # p /\ \E i \in 1 .. Len(s) : s[i] = t[j]
    /\ \A j1 \in 1 .. Len(t), j2 \in 1 .. Len(t) : t[j1] = t[j2] => j1 = j2
    /\ \A i \in 1 .. Len(s) : s[i] # p => \E j \in 1 .. Len(t) : t[j] = s[i]

\* Where the frames of a list are once p has been taken out of place x.
LEMMA WithoutAt ==
    ASSUME NEW s \in Seq(Frames), NEW p \in Frames,
           \A j1 \in 1 .. Len(s), j2 \in 1 .. Len(s) : s[j1] = s[j2] => j1 = j2,
           NEW at \in 1 .. Len(s), s[at] = p
    PROVE  /\ Len(Without(s, p)) = Len(s) - 1
           /\ \A j \in 1 .. Len(s) - 1 : Without(s, p)[j] = IF j < at THEN s[j] ELSE s[j + 1]
<1> DEFINE x == CHOOSE i \in 1 .. Len(s) : s[i] = p
           n == Len(s)
           a == SubSeq(s, 1, x - 1)
           b == SubSeq(s, x + 1, n)
           t == a \o b
<1>1. x \in 1 .. n /\ s[x] = p /\ n \in Nat /\ x = at
  OBVIOUS
<1>2. Without(s, p) = t
  BY DEF Without
<1>3. \A i \in 1 .. n : s[i] \in Frames
  BY ElementOfSeq
<1> HIDE DEF x, n
<1>4. /\ a \in Seq(Frames) /\ Len(a) = x - 1
      /\ \A i \in 1 .. x - 1 : a[i] = s[i]
  <2> DEFINE y == x - 1
  <2>1. y \in Int /\ 1 \in Int /\ (\A i \in 1 .. y : s[i] \in Frames)
    BY <1>1, <1>3
  <2> HIDE DEF y
  <2>2. /\ SubSeq(s, 1, y) \in Seq(Frames)
        /\ Len(SubSeq(s, 1, y)) = IF 1 <= y THEN y - 1 + 1 ELSE 0
        /\ \A i \in 1 .. y - 1 + 1 : SubSeq(s, 1, y)[i] = s[1 + i - 1]
    BY <2>1, SubSeqProperties
  <2>3. \A i \in 1 .. y : i \in 1 .. y - 1 + 1 /\ 1 + i - 1 = i
    BY <2>1
  <2>4. Len(SubSeq(s, 1, y)) = y
    BY <1>1, <2>2 DEF y
  <2>5. \A i \in 1 .. y : SubSeq(s, 1, y)[i] = s[i]
    BY <2>2, <2>3
  <2> QED BY <2>2, <2>4, <2>5 DEF y
<1>5. /\ b \in Seq(Frames) /\ Len(b) = n - x
      /\ \A i \in 1 .. n - x : b[i] = s[x + i]
  <2> DEFINE y == x + 1
  <2>1. y \in Int /\ n \in Int /\ (\A i \in y .. n : s[i] \in Frames)
    BY <1>1, <1>3
  <2> HIDE DEF y
  <2>2. /\ SubSeq(s, y, n) \in Seq(Frames)
        /\ Len(SubSeq(s, y, n)) = IF y <= n THEN n - y + 1 ELSE 0
        /\ \A i \in 1 .. n - y + 1 : SubSeq(s, y, n)[i] = s[y + i - 1]
    BY <2>1, SubSeqProperties
  <2>3. \A i \in 1 .. n - x : i \in 1 .. n - y + 1 /\ y + i - 1 = x + i
    BY <1>1 DEF y
  <2>4. Len(SubSeq(s, y, n)) = n - x
    BY <1>1, <2>2 DEF y
  <2>5. \A i \in 1 .. n - x : SubSeq(s, y, n)[i] = s[x + i]
    BY <2>2, <2>3
  <2> QED BY <2>2, <2>4, <2>5 DEF y
<1> HIDE DEF a, b
<1>6. /\ Len(t) = n - 1
      /\ \A j \in 1 .. n - 1 : t[j] = IF j < x THEN s[j] ELSE s[j + 1]
  <2>1. /\ Len(t) = Len(a) + Len(b)
        /\ \A j \in 1 .. Len(a) + Len(b) : t[j] = IF j <= Len(a) THEN a[j] ELSE b[j - Len(a)]
    BY <1>4, <1>5, ConcatProperties, ZenonT(60)
  <2>2. Len(t) = n - 1 /\ Len(a) + Len(b) = n - 1
    BY <1>1, <1>4, <1>5, <2>1
  <2>3. ASSUME NEW j \in 1 .. n - 1 PROVE t[j] = IF j < x THEN s[j] ELSE s[j + 1]
    <3>1. CASE j < x
      <4>1. j <= Len(a) /\ j \in 1 .. x - 1
        BY <1>1, <1>4, <3>1
      <4> QED BY <1>4, <2>1, <2>2, <3>1, <4>1
    <3>2. CASE ~(j < x)
      <4>1. ~(j <= Len(a)) /\ j - Len(a) \in 1 .. n - x /\ x + (j - Len(a)) = j + 1
        BY <1>1, <1>4, <3>2
      <4> QED BY <1>5, <2>1, <2>2, <3>2, <4>1
    <3> QED BY <3>1, <3>2
  <2> QED BY <2>2, <2>3
<1> QED BY <1>1, <1>2, <1>6 DEF n

LEMMA WithoutFacts ==
    ASSUME NEW s \in Seq(Frames), NEW p \in Frames,
           \A j1 \in 1 .. Len(s), j2 \in 1 .. Len(s) : s[j1] = s[j2] => j1 = j2
    PROVE  Unlinked(s, Without(s, p), p)
<1>1. CASE ~\E i \in 1 .. Len(s) : s[i] = p
  <2>1. Without(s, p) = s
    BY <1>1 DEF Without
  <2> QED BY <1>1, <2>1 DEF Unlinked
<1>2. CASE \E i \in 1 .. Len(s) : s[i] = p
  <2> DEFINE n == Len(s)
             t == Without(s, p)
  <2>0. PICK x \in 1 .. n : s[x] = p
    BY <1>2
  <2>1. x \in 1 .. n /\ s[x] = p /\ n \in Nat
    BY <2>0
  <2>6. /\ Len(t) = n - 1
        /\ \A j \in 1 .. n - 1 : t[j] = IF j < x THEN s[j] ELSE s[j + 1]
    BY <2>1, WithoutAt
  <2> HIDE DEF n
  <2> HIDE DEF t
  <2> DEFINE from(j) == IF j < x THEN j ELSE j + 1
  <2>7. \A j \in 1 .. n - 1 : from(j) \in 1 .. n /\ from(j) # x /\ t[j] = s[from(j)]
    BY <2>1, <2>6
  <2>8. \A j1 \in 1 .. n - 1, j2 \in 1 .. n - 1 : from(j1) = from(j2) => j1 = j2
    BY <2>1
  <2>9. \A i \in 1 .. n : i # x => \E j \in 1 .. n - 1 : from(j) = i
    <3> SUFFICES ASSUME NEW i \in 1 .. n, i # x PROVE \E j \in 1 .. n - 1 : from(j) = i
      OBVIOUS
    <3>1. CASE i < x
      <4>1. i \in 1 .. n - 1
        BY <2>1, <3>1
      <4>2. from(i) = i
        BY <3>1
      <4> HIDE DEF from
      <4> QED BY <4>1, <4>2
    <3>2. CASE ~(i < x)
      <4> DEFINE j == i - 1
      <4>1. j \in 1 .. n - 1 /\ ~(j < x) /\ j + 1 = i
        BY <2>1, <3>2
      <4>2. from(j) = i
        BY <4>1
      <4> HIDE DEF from, j
      <4> QED BY <4>1, <4>2
    <3> QED BY <3>1, <3>2
  <2> HIDE DEF from
  <2>10. \A j \in 1 .. n - 1 : t[j] # p /\ \E i \in 1 .. n : s[i] = t[j]
    BY <2>1, <2>7 DEF n
  <2>11. \A j1 \in 1 .. n - 1, j2 \in 1 .. n - 1 : t[j1] = t[j2] => j1 = j2
    BY <2>7, <2>8 DEF n
  <2>12. \A i \in 1 .. n : s[i] # p => \E j \in 1 .. n - 1 : t[j] = s[i]
    BY <2>1, <2>7, <2>9
  <2>13. Len(t) = IF \E i \in 1 .. n : s[i] = p THEN n - 1 ELSE n
    BY <2>1, <2>6
  <2> QED BY <2>6, <2>10, <2>11, <2>12, <2>13 DEF Unlinked, n, t
<1> QED BY <1>1, <1>2

LEMMA MoveOneList ==
    ASSUME NEW ls \in [Levels -> Seq(Frames)], NEW l \in Levels, NEW p \in Frames, OneList(ls)
    PROVE  OneList(Moved(ls, l, p))
<1> DEFINE w(k) == Without(ls[k], p)
           new == Moved(ls, l, p)
<1>1. \A k \in Levels : Unlinked(ls[k], w(k), p) /\ w(k) \in Seq(Frames)
  <2> SUFFICES ASSUME NEW k \in Levels PROVE Unlinked(ls[k], w(k), p) /\ w(k) \in Seq(Frames)
    OBVIOUS
  <2>1. ls[k] \in Seq(Frames)
    OBVIOUS
  <2>2. \A j1 \in 1 .. Len(ls[k]), j2 \in 1 .. Len(ls[k]) : ls[k][j1] = ls[k][j2] => j1 = j2
    BY DEF OneList
  <2> QED BY <2>1, <2>2, WithoutFacts, WithoutType
<1> HIDE DEF w
<1>1a. ASSUME NEW k \in Levels
       PROVE  /\ \A j \in 1 .. Len(w(k)) :
                    w(k)[j] # p /\ \E i \in 1 .. Len(ls[k]) : ls[k][i] = w(k)[j]
              /\ \A j1 \in 1 .. Len(w(k)), j2 \in 1 .. Len(w(k)) : w(k)[j1] = w(k)[j2] => j1 = j2
              /\ \A i \in 1 .. Len(ls[k]) : ls[k][i] # p => \E j \in 1 .. Len(w(k)) : w(k)[j] = ls[k][i]
  <2>1. Unlinked(ls[k], w(k), p)
    BY <1>1
  <2> QED BY <2>1 DEF Unlinked
<1>2. \A k \in Levels : new[k] = IF k = l THEN Append(w(k), p) ELSE w(k)
  BY DEF Moved, w
<1>3. \A k \in Levels : Len(w(k)) \in Nat
  BY <1>1
<1>4. /\ Len(new[l]) = Len(w(l)) + 1 /\ new[l][Len(w(l)) + 1] = p
      /\ \A j \in 1 .. Len(w(l)) : new[l][j] = w(l)[j]
  <2> DEFINE u == w(l)
             t == new[l]
  <2>1. u \in Seq(Frames) /\ t = Append(u, p)
    BY <1>1, <1>2
  <2> HIDE DEF u, t
  <2>2. Len(t) = Len(u) + 1 /\ t[Len(u) + 1] = p /\ \A j \in 1 .. Len(u) : t[j] = u[j]
    BY <2>1
  <2> QED BY <2>2 DEF u, t
<1> HIDE DEF new
<1>5. \A k \in Levels : \A j \in 1 .. Len(w(k)) : j \in 1 .. Len(new[k]) /\ new[k][j] = w(k)[j]
  BY <1>2, <1>3, <1>4
<1>6. \A k \in Levels : \A j \in 1 .. Len(new[k]) :
         j \in 1 .. Len(w(k)) \/ (k = l /\ j = Len(w(l)) + 1)
  BY <1>2, <1>3, <1>4
<1>7. ASSUME NEW f \in Frames PROVE \E k \in Levels : \E j \in 1 .. Len(new[k]) : new[k][j] = f
  <2>1. CASE f = p
    <3>1. Len(w(l)) + 1 \in 1 .. Len(new[l])
      BY <1>3, <1>4
    <3> QED BY <1>4, <2>1, <3>1
  <2>2. CASE f # p
    <3>1. PICK k \in Levels : \E i \in 1 .. Len(ls[k]) : ls[k][i] = f
      BY DEF OneList
    <3>2. \E j \in 1 .. Len(w(k)) : w(k)[j] = f
      BY <1>1a, <2>2, <3>1
    <3> QED BY <1>5, <3>2
  <2> QED BY <2>1, <2>2
<1>8. ASSUME NEW k1 \in Levels, NEW k2 \in Levels,
             NEW j1 \in 1 .. Len(new[k1]), NEW j2 \in 1 .. Len(new[k2]), new[k1][j1] = new[k2][j2]
      PROVE  k1 = k2 /\ j1 = j2
  <2>1. CASE j1 \in 1 .. Len(w(k1)) /\ j2 \in 1 .. Len(w(k2))
    <3>1. w(k1)[j1] = w(k2)[j2]
      BY <1>5, <1>8, <2>1
    <3>2. PICK i1 \in 1 .. Len(ls[k1]) : ls[k1][i1] = w(k1)[j1]
      BY <1>1a, <2>1
    <3>3. PICK i2 \in 1 .. Len(ls[k2]) : ls[k2][i2] = w(k2)[j2]
      BY <1>1a, <2>1
    <3>4. k1 = k2
      <4>1. ls[k1][i1] = ls[k2][i2]
        BY <3>1, <3>2, <3>3
      <4> QED BY <4>1 DEF OneList
    <3> QED BY <1>1a, <2>1, <3>1, <3>4
  <2>2. ASSUME NEW k \in Levels, NEW j \in 1 .. Len(w(k)) PROVE new[k][j] # p
    <3>1. new[k][j] = w(k)[j]
      BY <1>5
    <3>2. w(k)[j] # p
      BY <1>1a
    <3> QED BY <3>1, <3>2
  <2>3. CASE ~(j1 \in 1 .. Len(w(k1)))
    <3>1. k1 = l /\ j1 = Len(w(l)) + 1 /\ new[k2][j2] = p
      BY <1>4, <1>6, <1>8, <2>3
    <3> QED BY <1>6, <2>2, <3>1
  <2>4. CASE ~(j2 \in 1 .. Len(w(k2)))
    <3>1. k2 = l /\ j2 = Len(w(l)) + 1 /\ new[k1][j1] = p
      BY <1>4, <1>6, <1>8, <2>4
    <3> QED BY <1>6, <2>2, <3>1
  <2> QED BY <2>1, <2>3, <2>4
<1>9. OneList(new)
  BY <1>7, <1>8 DEF OneList
<1> QED BY <1>9 DEF new

\* No two places of the lists hold the same frame.
Apart(ls) ==
    \A k1 \in Levels, k2 \in Levels :
        \A j1 \in 1 .. Len(ls[k1]), j2 \in 1 .. Len(ls[k2]) :
            ls[k1][j1] = ls[k2][j2] => k1 = k2 /\ j1 = j2

\* Headers are neither frames nor each other.
LEMMA Headers ==
    /\ \A l \in Levels : Header(l) \in Nodes /\ Header(l) \notin Frames
    /\ \A l \in Levels, k \in Levels : Header(l) = Header(k) => l = k
    /\ \A f \in Frames : f \in Nodes
BY MmuAssumption DEF Header, Nodes, Frames, Levels, NUM_LEVEL

\* The nodes on the way around the lists are different, but for the header that
\* stands at both ends.
LEMMA NodesApart ==
    ASSUME NEW ls \in [Levels -> Seq(Frames)], Apart(ls), NEW k \in Levels, NEW l \in Levels,
           NEW i, NEW j,
           \/ i \in 0 .. Len(ls[k]) /\ j \in 0 .. Len(ls[l])
           \/ i \in 1 .. Len(ls[k]) + 1 /\ j \in 1 .. Len(ls[l]) + 1,
           Node(k, ls[k], i) = Node(l, ls[l], j)
    PROVE  k = l /\ i = j
<1> DEFINE s == ls[k]
           t == ls[l]
<1>1. s \in Seq(Frames) /\ t \in Seq(Frames) /\ Len(s) \in Nat /\ Len(t) \in Nat
  OBVIOUS
<1>2. /\ \A x \in 1 .. Len(s) : s[x] \in Frames
      /\ \A x \in 1 .. Len(t) : t[x] \in Frames
  BY <1>1, ElementOfSeq
<1>3. CASE i \in 1 .. Len(s) /\ j \in 1 .. Len(t)
  BY <1>3 DEF Apart, Node
<1>4. CASE i \in 1 .. Len(s) /\ ~(j \in 1 .. Len(t))
  BY <1>2, <1>4, Headers DEF Node
<1>5. CASE ~(i \in 1 .. Len(s)) /\ j \in 1 .. Len(t)
  BY <1>2, <1>5, Headers DEF Node
<1>6. CASE ~(i \in 1 .. Len(s)) /\ ~(j \in 1 .. Len(t))
  <2>1. Header(k) = Header(l)
    BY <1>6 DEF Node
  <2>2. k = l
    BY <2>1, Headers
  <2> HIDE DEF s, t
  <2>3. i = j
    BY <1>1, <1>6, <2>2 DEF s, t
  <2> QED BY <2>2, <2>3
<1> QED BY <1>3, <1>4, <1>5, <1>6

\* A node is a node, and an unlinked list is read around the gap.
LEMMA NodeType ==
    ASSUME NEW s \in Seq(Frames), NEW l \in Levels, NEW i
    PROVE  Node(l, s, i) \in Nodes
<1>1. \A x \in 1 .. Len(s) : s[x] \in Frames
  BY ElementOfSeq
<1> QED BY <1>1, Headers DEF Node

\* The two assignments of move_to_list that unlink a frame leave the links of
\* every list spelling what remains of it.
LEMMA UnlinkSpells ==
    ASSUME NEW lk \in Links, NEW ls \in [Levels -> Seq(Frames)], NEW p \in Frames,
           OneList(ls), \A l \in Levels : Spells(lk, l, ls[l]), NEW l \in Levels
    PROVE  /\ Unlink(lk, p) \in Links
           /\ Spells(Unlink(lk, p), l, Without(ls[l], p))
<1>0. PICK k \in Levels : \E x \in 1 .. Len(ls[k]) : ls[k][x] = p
  BY DEF OneList
<1>1. PICK x \in 1 .. Len(ls[k]) : ls[k][x] = p
  BY <1>0
<1> DEFINE s == ls[k]
           n == Len(s)
           nd(i) == Node(k, s, i)
           new == Unlink(lk, p)
<1>2. s \in Seq(Frames) /\ n \in Nat /\ x \in 1 .. n /\ Apart(ls)
  BY <1>1 DEF OneList, Apart
<1>3. nd(x) = p
  BY <1>1 DEF Node
<1>4. lk.head[p] = nd(x + 1) /\ lk.tail[p] = nd(x - 1)
  <2>1. Spells(lk, k, s)
    OBVIOUS
  <2>2. x \in 0 .. n /\ x - 1 \in 0 .. n /\ (x - 1) + 1 = x
    BY <1>2
  <2>3. lk.head[nd(x)] = nd(x + 1) /\ lk.tail[nd((x - 1) + 1)] = nd(x - 1)
    BY <2>1, <2>2 DEF Spells
  <2> QED BY <1>3, <2>2, <2>3
<1>5. lk.head \in [Nodes -> Nodes] /\ lk.tail \in [Nodes -> Nodes]
  BY DEF Links
<1>6. \A i : nd(i) \in Nodes
  BY <1>2, NodeType
<1>7. /\ new.head = [lk.head EXCEPT ![nd(x - 1)] = nd(x + 1)]
      /\ new.tail = [lk.tail EXCEPT ![nd(x + 1)] = nd(x - 1)]
  BY <1>4 DEF Unlink
<1>8. new \in Links
  <2>1. new = [head |-> new.head, tail |-> new.tail]
    BY DEF Unlink
  <2>2. nd(x - 1) \in Nodes /\ nd(x + 1) \in Nodes
    BY <1>6
  <2> HIDE DEF nd, new
  <2>3. new.head \in [Nodes -> Nodes] /\ new.tail \in [Nodes -> Nodes]
    BY <1>5, <1>7, <2>2
  <2> QED BY <2>1, <2>3 DEF Links
<1>9. /\ \A m \in Nodes : new.head[m] = IF m = nd(x - 1) THEN nd(x + 1) ELSE lk.head[m]
      /\ \A m \in Nodes : new.tail[m] = IF m = nd(x + 1) THEN nd(x - 1) ELSE lk.tail[m]
  BY <1>5, <1>6, <1>7
<1> HIDE DEF new
<1>10. CASE l # k
  <2> DEFINE t == ls[l]
             td(i) == Node(l, t, i)
  <2>1. t \in Seq(Frames) /\ Len(t) \in Nat /\ Spells(lk, l, t)
    OBVIOUS
  <2>2. Without(t, p) = t
    BY <1>1, <1>10 DEF Without, OneList
  <2>3. ASSUME NEW i \in 0 .. Len(t)
        PROVE  new.head[td(i)] = td(i + 1) /\ new.tail[td(i + 1)] = td(i)
    <3>1. td(i) \in Nodes /\ td(i + 1) \in Nodes
      BY <2>1, NodeType
    <3>2. td(i) # nd(x - 1)
      <4> DEFINE y == x - 1
      <4>1. i \in 0 .. Len(ls[l]) /\ y \in 0 .. Len(ls[k])
        BY <1>2
      <4> HIDE DEF y
      <4>2. Node(l, ls[l], i) # Node(k, ls[k], y)
        BY <1>2, <1>10, <4>1, NodesApart
      <4> QED BY <4>2 DEF y
    <3>3. td(i + 1) # nd(x + 1)
      <4> DEFINE y == x + 1
                 z == i + 1
      <4>1. z \in 1 .. Len(ls[l]) + 1 /\ y \in 1 .. Len(ls[k]) + 1
        BY <1>2, <2>1
      <4> HIDE DEF y, z
      <4>2. Node(l, ls[l], z) # Node(k, ls[k], y)
        BY <1>2, <1>10, <4>1, NodesApart
      <4> QED BY <4>2 DEF y, z
    <3>4. lk.head[td(i)] = td(i + 1) /\ lk.tail[td(i + 1)] = td(i)
      BY <2>1 DEF Spells
    <3> QED BY <1>9, <3>1, <3>2, <3>3, <3>4
  <2>4. Spells(new, l, t)
    BY <2>3 DEF Spells
  <2> QED BY <1>8, <2>2, <2>4 DEF new
<1>11. CASE l = k
  <2> DEFINE t == Without(s, p)
             from(i) == IF i < x THEN i ELSE i + 1
             td(i) == Node(l, t, i)
  <2>1. /\ Len(t) = n - 1
        /\ \A j \in 1 .. n - 1 : t[j] = IF j < x THEN s[j] ELSE s[j + 1]
    <3>1. \A j1 \in 1 .. n, j2 \in 1 .. n : s[j1] = s[j2] => j1 = j2
      BY DEF OneList
    <3> QED BY <1>1, <1>2, <3>1, WithoutAt
  <2> HIDE DEF t
  <2>2. ASSUME NEW i \in 0 .. n PROVE td(i) = nd(from(i))
    <3>1. CASE i \in 1 .. n - 1
      <4>1. from(i) \in 1 .. n /\ t[i] = s[from(i)]
        BY <1>2, <2>1, <3>1
      <4> QED BY <1>11, <2>1, <3>1, <4>1 DEF Node
    <3>2. CASE ~(i \in 1 .. n - 1)
      <4>1. i \notin 1 .. Len(t) /\ from(i) \notin 1 .. n
        BY <1>2, <2>1, <3>2
      <4> QED BY <1>11, <4>1 DEF Node
    <3> QED BY <3>1, <3>2
  <2>3. ASSUME NEW i \in 0 .. n - 1
        PROVE  new.head[td(i)] = td(i + 1) /\ new.tail[td(i + 1)] = td(i)
    <3>1. td(i) = nd(from(i)) /\ td(i + 1) = nd(from(i + 1))
      BY <1>2, <2>2
    <3>2. CASE i = x - 1
      <4>1. from(i) = x - 1 /\ from(i + 1) = x + 1
        BY <1>2, <3>2
      <4> HIDE DEF from, nd
      <4> QED BY <1>6, <1>9, <3>1, <4>1
    <3>3. CASE i # x - 1
      <4> DEFINE a == from(i)
      <4>1. /\ a \in 0 .. n /\ from(i + 1) = a + 1 /\ a # x - 1 /\ a + 1 # x + 1
            /\ x - 1 \in 0 .. n /\ a + 1 \in 1 .. n + 1 /\ x + 1 \in 1 .. n + 1
        BY <1>2, <3>3
      <4> HIDE DEF a, from
      <4>2. nd(a) # nd(x - 1)
        <5> DEFINE y == x - 1
        <5>1. a \in 0 .. Len(ls[k]) /\ y \in 0 .. Len(ls[k]) /\ a # y
          BY <4>1
        <5> HIDE DEF y
        <5>2. Node(k, ls[k], a) # Node(k, ls[k], y)
          BY <1>2, <5>1, NodesApart
        <5> QED BY <5>2 DEF y
      <4>3. nd(a + 1) # nd(x + 1)
        <5> DEFINE y == x + 1
                   z == a + 1
        <5>1. z \in 1 .. Len(ls[k]) + 1 /\ y \in 1 .. Len(ls[k]) + 1 /\ z # y
          BY <4>1
        <5> HIDE DEF y, z
        <5>2. Node(k, ls[k], z) # Node(k, ls[k], y)
          BY <1>2, <5>1, NodesApart
        <5> QED BY <5>2 DEF y, z
      <4>4. lk.head[nd(a)] = nd(a + 1) /\ lk.tail[nd(a + 1)] = nd(a)
        <5>1. Spells(lk, k, s)
          OBVIOUS
        <5> QED BY <4>1, <5>1 DEF Spells
      <4>5. td(i) = nd(a) /\ td(i + 1) = nd(a + 1)
        BY <3>1, <4>1 DEF a
      <4> HIDE DEF nd, td
      <4> QED BY <1>6, <1>9, <4>2, <4>3, <4>4, <4>5
    <3> QED BY <3>2, <3>3
  <2>4. Spells(new, l, t)
    BY <2>1, <2>3 DEF Spells
  <2> QED BY <1>8, <1>11, <2>4 DEF new, t
<1> QED BY <1>10, <1>11

\* Linking a frame that is in no list behind the last one of list l
\* (insert_to_list_tail) makes it the last entry, also of an empty list.
LEMMA InsertSpells ==
    ASSUME NEW lk \in Links, NEW ws \in [Levels -> Seq(Frames)], NEW p \in Frames, Apart(ws),
           \A k \in Levels : Spells(lk, k, ws[k]) /\ \A j \in 1 .. Len(ws[k]) : ws[k][j] # p,
           NEW l \in Levels, NEW k \in Levels
    PROVE  /\ insert_to_list_tail(lk, l, p) \in Links
           /\ Spells(insert_to_list_tail(lk, l, p), k, IF k = l THEN Append(ws[k], p) ELSE ws[k])
<1> DEFINE s == ws[l]
           n == Len(s)
           last == Node(l, s, n)
           h == Header(l)
           new == insert_to_list_tail(lk, l, p)
<1>1. s \in Seq(Frames) /\ n \in Nat /\ n \in 0 .. n /\ Spells(lk, l, s)
  OBVIOUS
<1>2. Node(l, s, n + 1) = h /\ Node(l, s, 0) = h
  BY <1>1 DEF Node
<1>3. lk.tail[h] = last /\ lk.head[last] = h
  BY <1>1, <1>2 DEF Spells
<1>4. last \in Nodes /\ h \in Nodes /\ p \in Nodes /\ p # h /\ p # last
  <2>1. last \in Nodes /\ h \in Nodes /\ p \in Nodes /\ p # h
    BY <1>1, NodeType, Headers
  <2>2. p # last
    BY <2>1 DEF Node
  <2> QED BY <2>1, <2>2
<1>5. lk.head \in [Nodes -> Nodes] /\ lk.tail \in [Nodes -> Nodes]
  BY DEF Links
<1>6. /\ new = [head |-> new.head, tail |-> new.tail]
      /\ new.head = [lk.head EXCEPT ![p] = h, ![last] = p]
      /\ new.tail = [lk.tail EXCEPT ![p] = last, ![h] = p]
  BY <1>3 DEF insert_to_list_tail
<1> HIDE DEF h, last, new
<1>7. new.head \in [Nodes -> Nodes] /\ new.tail \in [Nodes -> Nodes]
  <2> DEFINE a == [lk.head EXCEPT ![p] = h]
             b == [lk.tail EXCEPT ![p] = last]
  <2>1. a \in [Nodes -> Nodes] /\ b \in [Nodes -> Nodes]
    BY <1>4, <1>5
  <2>2. new.head = [a EXCEPT ![last] = p] /\ new.tail = [b EXCEPT ![h] = p]
    BY <1>6
  <2> HIDE DEF a, b
  <2> QED BY <1>4, <2>1, <2>2
<1>8. new \in Links
  BY <1>6, <1>7 DEF Links
<1>9. /\ new.head[p] = h /\ new.head[last] = p /\ new.tail[p] = last /\ new.tail[h] = p
      /\ \A m \in Nodes : m # p /\ m # last => new.head[m] = lk.head[m]
      /\ \A m \in Nodes : m # p /\ m # h => new.tail[m] = lk.tail[m]
  BY <1>4, <1>5, <1>6
<1>10. \A m \in Levels : \A i : Node(m, ws[m], i) \in Nodes /\ Node(m, ws[m], i) # p
  <2> SUFFICES ASSUME NEW m \in Levels, NEW i
               PROVE  Node(m, ws[m], i) \in Nodes /\ Node(m, ws[m], i) # p
    OBVIOUS
  <2>1. ws[m] \in Seq(Frames)
    OBVIOUS
  <2> QED BY <2>1, NodeType, Headers DEF Node
<1>11. CASE k # l
  <2> DEFINE t == ws[k]
             td(i) == Node(k, t, i)
  <2>1. t \in Seq(Frames) /\ Len(t) \in Nat /\ Spells(lk, k, t)
    OBVIOUS
  <2>2. ASSUME NEW i \in 0 .. Len(t)
        PROVE  new.head[td(i)] = td(i + 1) /\ new.tail[td(i + 1)] = td(i)
    <3>1. td(i) # last
      BY <1>1, <1>11, NodesApart DEF last
    <3>2. td(i + 1) # h
      <4> DEFINE y == n + 1
                 z == i + 1
      <4>1. z \in 1 .. Len(ws[k]) + 1 /\ y \in 1 .. Len(ws[l]) + 1
        BY <1>1, <2>1
      <4> HIDE DEF y, z
      <4>2. Node(k, ws[k], z) # Node(l, ws[l], y)
        BY <1>11, <4>1, NodesApart
      <4> QED BY <1>2, <4>2 DEF y, z
    <3>3. lk.head[td(i)] = td(i + 1) /\ lk.tail[td(i + 1)] = td(i)
      BY <2>1 DEF Spells
    <3> QED BY <1>9, <1>10, <3>1, <3>2, <3>3
  <2>3. Spells(new, k, t)
    BY <2>2 DEF Spells
  <2> QED BY <1>8, <1>11, <2>3 DEF new
<1>12. CASE k = l
  <2> DEFINE t == Append(s, p)
             td(i) == Node(l, t, i)
             nd(i) == Node(l, s, i)
  <2>1. t \in Seq(Frames) /\ Len(t) = n + 1 /\ t[n + 1] = p /\ \A i \in 1 .. n : t[i] = s[i]
    BY <1>1
  <2> HIDE DEF t
  <2>2. \A i \in 0 .. n : td(i) = nd(i)
    BY <1>1, <2>1 DEF Node
  <2>3. td(n + 1) = p /\ td(n + 2) = h
    BY <1>1, <2>1 DEF Node, h
  <2>4. ASSUME NEW i \in 0 .. n + 1
        PROVE  new.head[td(i)] = td(i + 1) /\ new.tail[td(i + 1)] = td(i)
    <3>1. CASE i = n + 1
      <4>1. i + 1 = n + 2
        BY <1>1, <3>1
      <4> QED BY <1>9, <2>3, <3>1, <4>1
    <3>2. CASE i = n
      BY <1>1, <1>9, <2>2, <2>3, <3>2 DEF last
    <3>3. CASE i \in 0 .. n - 1
      <4>1. i \in 0 .. n /\ i + 1 \in 0 .. n /\ i + 1 \in 1 .. n + 1 /\ n + 1 \in 1 .. n + 1 /\ i # n /\ i + 1 # n + 1
        BY <1>1, <3>3
      <4>2. nd(i) # last
        BY <1>1, <4>1, NodesApart DEF last
      <4>3. nd(i + 1) # h
        <5> DEFINE y == n + 1
                   z == i + 1
        <5>1. z \in 1 .. Len(ws[l]) + 1 /\ y \in 1 .. Len(ws[l]) + 1 /\ z # y
          BY <4>1
        <5> HIDE DEF y, z
        <5>2. Node(l, ws[l], z) # Node(l, ws[l], y)
          BY <5>1, NodesApart
        <5> QED BY <1>2, <5>2 DEF y, z
      <4>4. lk.head[nd(i)] = nd(i + 1) /\ lk.tail[nd(i + 1)] = nd(i)
        BY <1>1, <4>1 DEF Spells
      <4>5. td(i) = nd(i) /\ td(i + 1) = nd(i + 1)
        BY <2>2, <4>1
      <4> QED BY <1>9, <1>10, <4>2, <4>3, <4>4, <4>5
    <3> QED BY <1>1, <3>1, <3>2, <3>3
  <2>5. Spells(new, l, t)
    BY <2>1, <2>4 DEF Spells
  <2> QED BY <1>8, <1>12, <2>5 DEF new, t
<1> QED BY <1>11, <1>12

\* Moving a frame keeps the pointers and the lists they stand for together.
LEMMA MoveIntact ==
    ASSUME NEW lk \in Links, NEW ls \in [Levels -> Seq(Frames)], Intact(lk, ls),
           NEW l \in Levels, NEW p \in Frames
    PROVE  /\ move_to_list(lk, l, p) \in Links
           /\ Moved(ls, l, p) \in [Levels -> Seq(Frames)]
           /\ Intact(move_to_list(lk, l, p), Moved(ls, l, p))
<1> DEFINE ws == [k \in Levels |-> Without(ls[k], p)]
           un == Unlink(lk, p)
<1>1. OneList(ls) /\ \A k \in Levels : Spells(lk, k, ls[k])
  BY DEF Intact
<1>2. un \in Links /\ \A k \in Levels : Spells(un, k, ws[k])
  BY <1>1, UnlinkSpells
<1>3. ws \in [Levels -> Seq(Frames)]
  BY WithoutType
<1>4. \A k \in Levels : Unlinked(ls[k], ws[k], p)
  <2> SUFFICES ASSUME NEW k \in Levels PROVE Unlinked(ls[k], Without(ls[k], p), p)
    OBVIOUS
  <2>1. ls[k] \in Seq(Frames)
    OBVIOUS
  <2>2. \A j1 \in 1 .. Len(ls[k]), j2 \in 1 .. Len(ls[k]) : ls[k][j1] = ls[k][j2] => j1 = j2
    BY <1>1 DEF OneList
  <2> QED BY <2>1, <2>2, WithoutFacts
<1> HIDE DEF ws, un
<1>5. \A k \in Levels : \A j \in 1 .. Len(ws[k]) : ws[k][j] # p
  BY <1>4 DEF Unlinked
<1>6. Apart(ws)
  <2> SUFFICES ASSUME NEW k1 \in Levels, NEW k2 \in Levels,
                      NEW j1 \in 1 .. Len(ws[k1]), NEW j2 \in 1 .. Len(ws[k2]),
                      ws[k1][j1] = ws[k2][j2]
               PROVE  k1 = k2 /\ j1 = j2
    BY DEF Apart
  <2>1. PICK i1 \in 1 .. Len(ls[k1]) : ls[k1][i1] = ws[k1][j1]
    BY <1>4 DEF Unlinked
  <2>2. PICK i2 \in 1 .. Len(ls[k2]) : ls[k2][i2] = ws[k2][j2]
    BY <1>4 DEF Unlinked
  <2>3. k1 = k2
    BY <1>1, <2>1, <2>2 DEF OneList
  <2>4. Unlinked(ls[k1], ws[k1], p)
    BY <1>4
  <2> QED BY <2>3, <2>4 DEF Unlinked
<1>7. /\ move_to_list(lk, l, p) = insert_to_list_tail(un, l, p)
      /\ \A k \in Levels : Moved(ls, l, p)[k] = IF k = l THEN Append(ws[k], p) ELSE ws[k]
  BY DEF move_to_list, Moved, un, ws
<1>8. /\ move_to_list(lk, l, p) \in Links
      /\ \A k \in Levels : Spells(move_to_list(lk, l, p), k, Moved(ls, l, p)[k])
  BY <1>2, <1>3, <1>5, <1>6, <1>7, InsertSpells
<1>9. OneList(Moved(ls, l, p)) /\ Moved(ls, l, p) \in [Levels -> Seq(Frames)]
  BY <1>1, MoveOneList, MoveType
<1> QED BY <1>8, <1>9 DEF Intact

\* The same for a promotion.
LEMMA PromotedIntact ==
    ASSUME NEW lk \in Links, NEW ls \in [Levels -> Seq(Frames)], Intact(lk, ls),
           NEW low \in Levels, NEW p \in Frames
    PROVE  /\ promote(lk, low, p) \in Links
           /\ Promoted(ls, low, p) \in [Levels -> Seq(Frames)]
           /\ Intact(promote(lk, low, p), Promoted(ls, low, p))
<1>1. promote_list_num \in Levels
  BY DEF promote_list_num, PROMO_LEVEL, Levels, NUM_LEVEL
<1> QED BY <1>1, MoveIntact DEF promote, Promoted

\* The header of a list points to its first frame, and to itself when it is empty.
LEMMA VictimIsHead ==
    ASSUME TypeOK, ListsIntact, NEW low \in Levels
    PROVE  /\ links.head[Header(low)] = Header(low) <=> list[low] = <<>>
           /\ list[low] # <<>> => Victim(low) = Head(list[low])
<1> DEFINE s == list[low]
<1>1. s \in Seq(Frames) /\ Len(s) \in Nat /\ Spells(links, low, s)
  BY DEF TypeOK, ListsIntact, Intact
<1>2. links.head[Node(low, s, 0)] = Node(low, s, 1) /\ Node(low, s, 0) = Header(low)
  BY <1>1 DEF Spells, Node
<1> HIDE DEF s
<1>3. CASE s = <<>>
  BY <1>2, <1>3 DEF Node, s
<1>4. CASE s # <<>>
  <2>1. 1 \in 1 .. Len(s) /\ s[1] = Head(s) /\ s[1] \in Frames
    BY <1>1, <1>4
  <2>2. links.head[Header(low)] = Head(s) /\ Head(s) # Header(low)
    BY <1>2, <2>1, Headers DEF Node
  <2> QED BY <1>4, <2>2 DEF Victim, s
<1> QED BY <1>3, <1>4

\* Some list holds a frame.
LEMMA NotAllEmpty == ASSUME OneList(list) PROVE \E k \in Levels : list[k] # <<>>
<1>1. 1 \in Frames
  BY MmuAssumption DEF Frames
<1>2. PICK k \in Levels : \E j \in 1 .. Len(list[k]) : list[k][j] = 1
  BY <1>1 DEF OneList
<1> DEFINE s == list[k]
<1>3. 1 .. Len(s) # {}
  BY <1>2
<1> HIDE DEF s
<1>4. s # <<>>
  BY <1>3
<1> QED BY <1>4 DEF s

-----------------------------------------------------------------------------
(* The pager.                                                              *)

LEMMA InitLists == Init => OneList(list)
<1> SUFFICES ASSUME Init PROVE OneList(list)
  OBVIOUS
<1>1. /\ 0 \in Levels
      /\ list = [k \in Levels |-> IF k = 0 THEN [f \in Frames |-> f] ELSE <<>>]
  BY DEF Init, Levels, NUM_LEVEL
<1>2. list[0] = [f \in 1 .. NumFrames |-> f] /\ NumFrames \in Nat
  BY <1>1, MmuAssumption DEF Frames
<1>3. Len(list[0]) = NumFrames /\ \A j \in 1 .. NumFrames : list[0][j] = j
  BY <1>2
<1>4. \A k \in Levels : k # 0 => list[k] = <<>> /\ 1 .. Len(list[k]) = {}
  BY <1>1
<1> QED BY <1>1, <1>3, <1>4 DEF OneList, Frames

\* The ring mmu_drv_init leaves is list 0 with every frame; the others are empty.
LEMMA InitSpells == Init => links \in Links /\ ListsIntact
<1> SUFFICES ASSUME Init PROVE links \in Links /\ ListsIntact
  OBVIOUS
<1>1. /\ links.head = [n \in Nodes |-> IF n < 0 THEN n ELSE (n + 1) % (NumFrames + 1)]
      /\ links.tail = [n \in Nodes |-> IF n < 0 THEN n ELSE (n + NumFrames) % (NumFrames + 1)]
      /\ links = [head |-> links.head, tail |-> links.tail]
  BY DEF Init, InitLinks
<1>2. NumFrames \in Nat /\ NumFrames >= 1
  BY MmuAssumption
<1>3. \A n \in Nodes : n \in {-1, -2, -3} \cup 0 .. NumFrames
  BY <1>2 DEF Nodes, Header, Levels, NUM_LEVEL, Frames
<1>4. \A n \in {-1, -2, -3} \cup 0 .. NumFrames : n \in Nodes
  <2>1. \A n \in {-1, -2, -3, 0} : \E l \in Levels : n = Header(l)
    BY DEF Header, Levels, NUM_LEVEL
  <2> QED BY <1>2, <2>1 DEF Nodes, Frames
\* The successor and the predecessor on the ring, without the remainder.
<1>5. /\ \A n \in 0 .. NumFrames : (n + 1) % (NumFrames + 1) = IF n = NumFrames THEN 0 ELSE n + 1
      /\ \A n \in 0 .. NumFrames : (n + NumFrames) % (NumFrames + 1) = IF n = 0 THEN NumFrames ELSE n - 1
  <2> DEFINE N == NumFrames + 1
  <2>1. N \in Nat \ {0}
    BY <1>2
  <2> HIDE DEF N
  <2>2. /\ \A a \in 0 .. N - 1 : a % N = a
        /\ \A a \in 0 .. N - 1 : (a + N) % N = a
    BY <2>1
  <2>3. ASSUME NEW n \in 0 .. NumFrames
        PROVE  (n + 1) % N = IF n = NumFrames THEN 0 ELSE n + 1
    <3>1. CASE n = NumFrames
      <4>1. n + 1 = 0 + N /\ 0 \in 0 .. N - 1
        BY <1>2, <2>1, <3>1 DEF N
      <4> QED BY <2>2, <3>1, <4>1
    <3>2. CASE n # NumFrames
      <4>1. n + 1 \in 0 .. N - 1
        BY <1>2, <3>2 DEF N
      <4> QED BY <2>2, <3>2, <4>1
    <3> QED BY <3>1, <3>2
  <2>4. ASSUME NEW n \in 0 .. NumFrames
        PROVE  (n + NumFrames) % N = IF n = 0 THEN NumFrames ELSE n - 1
    <3>1. CASE n = 0
      <4>1. n + NumFrames = NumFrames /\ NumFrames \in 0 .. N - 1
        BY <1>2, <3>1 DEF N
      <4> QED BY <2>2, <3>1, <4>1
    <3>2. CASE n # 0
      <4>1. n + NumFrames = (n - 1) + N /\ n - 1 \in 0 .. N - 1
        BY <1>2, <3>2 DEF N
      <4> QED BY <2>2, <3>2, <4>1
    <3> QED BY <3>1, <3>2
  <2> QED BY <2>3, <2>4 DEF N
<1>6. /\ \A n \in 0 .. NumFrames : /\ links.head[n] = IF n = NumFrames THEN 0 ELSE n + 1
                                   /\ links.tail[n] = IF n = 0 THEN NumFrames ELSE n - 1
      /\ \A n \in {-1, -2, -3} : links.head[n] = n /\ links.tail[n] = n
  <2>1. \A n \in 0 .. NumFrames : ~(n < 0)
    BY <1>2
  <2>2. \A n \in 0 .. NumFrames : /\ links.head[n] = (n + 1) % (NumFrames + 1)
                                  /\ links.tail[n] = (n + NumFrames) % (NumFrames + 1)
    BY <1>1, <1>4, <2>1
  <2>3. \A n \in {-1, -2, -3} : links.head[n] = n /\ links.tail[n] = n
    BY <1>1, <1>4
  <2> QED BY <1>5, <2>2, <2>3
<1>7. links \in Links
  <2>1. \A n \in Nodes : links.head[n] \in Nodes /\ links.tail[n] \in Nodes
    <3> SUFFICES ASSUME NEW n \in Nodes PROVE links.head[n] \in Nodes /\ links.tail[n] \in Nodes
      OBVIOUS
    <3>1. CASE n \in {-1, -2, -3}
      BY <1>6, <3>1
    <3>2. CASE n \in 0 .. NumFrames
      <4>1. links.head[n] \in 0 .. NumFrames /\ links.tail[n] \in 0 .. NumFrames
        BY <1>2, <1>6, <3>2
      <4> QED BY <1>4, <4>1
    <3> QED BY <1>3, <3>1, <3>2
  <2>2. links.head \in [Nodes -> Nodes] /\ links.tail \in [Nodes -> Nodes]
    BY <1>1, <2>1
  <2> QED BY <1>1, <2>2 DEF Links
<1>8. /\ list[0] = [f \in 1 .. NumFrames |-> f]
      /\ \A k \in Levels : k # 0 => list[k] = <<>>
  BY DEF Init, Levels, NUM_LEVEL, Frames
<1>9. Len(list[0]) = NumFrames /\ \A j \in 1 .. NumFrames : list[0][j] = j
  BY <1>2, <1>8
<1>10. ASSUME NEW l \in Levels PROVE Spells(links, l, list[l])
  <2>1. CASE l = 0
    <3>1. \A i \in 0 .. NumFrames : Node(0, list[0], i) = i
      BY <1>2, <1>9 DEF Node, Header
    <3>2. Node(0, list[0], NumFrames + 1) = 0
      <4>1. NumFrames + 1 \notin 1 .. Len(list[0])
        BY <1>2, <1>9
      <4>2. Node(0, list[0], 0) = 0 /\ 0 \notin 1 .. Len(list[0])
        BY <1>2, <1>9, <3>1
      <4> QED BY <4>1, <4>2 DEF Node
    <3>3. ASSUME NEW i \in 0 .. NumFrames
          PROVE  /\ links.head[Node(0, list[0], i)] = Node(0, list[0], i + 1)
                 /\ links.tail[Node(0, list[0], i + 1)] = Node(0, list[0], i)
      <4>1. CASE i = NumFrames
        <5>1. links.head[NumFrames] = 0 /\ links.tail[0] = NumFrames
          BY <1>2, <1>6
        <5> QED BY <3>1, <3>2, <4>1, <5>1
      <4>2. CASE i # NumFrames
        <5>1. i + 1 \in 0 .. NumFrames /\ i + 1 # 0 /\ (i + 1) - 1 = i
          BY <1>2, <4>2
        <5>2. links.head[i] = i + 1 /\ links.tail[i + 1] = i
          BY <1>6, <4>2, <5>1
        <5> QED BY <3>1, <5>1, <5>2
      <4> QED BY <4>1, <4>2
    <3> QED BY <1>9, <2>1, <3>3 DEF Spells
  <2>2. CASE l # 0
    <3>1. Header(l) \in {-1, -2, -3} /\ list[l] = <<>>
      BY <1>8, <2>2 DEF Header, Levels, NUM_LEVEL
    <3>2. 0 .. Len(list[l]) = {0} /\ Node(l, list[l], 0) = Header(l) /\ Node(l, list[l], 1) = Header(l)
      BY <3>1 DEF Node
    <3> QED BY <1>6, <3>1, <3>2 DEF Spells
  <2> QED BY <2>1, <2>2
<1> QED BY <1>7, <1>10, InitLists DEF ListsIntact, Intact

\* mmu_drv_init establishes the invariant.
LEMMA InitInv == AreaFits /\ Init => PagingInv
<1> SUFFICES ASSUME AreaFits, Init PROVE PagingInv
  OBVIOUS
<1>1. [f \in Frames |-> f] \in Seq(Frames)
  BY MmuAssumption DEF Frames
<1>2. list \in [Levels -> Seq(Frames)] /\ links \in Links /\ ListsIntact
  BY <1>1, InitSpells DEF Init, Levels, NUM_LEVEL
<1>3. tlb \in [0 .. NumTlb - 1 -> TlbEntry]
  BY MmuAssumption DEF Init, TlbEntry, EntryLo, Invalid
<1>4. TypeOK
  BY <1>2, <1>3, MmuAssumption DEF Init, TypeOK, Levels, NUM_LEVEL
<1>5. TlbAgrees
  BY DEF Init, TlbAgrees, Invalid
<1> QED BY <1>2, <1>4, <1>5 DEF PagingInv, Init

\* A page that needs a load is not valid in its own entry.
LEMMA NotResident ==
    ASSUME AreaFits, PagingInv, NEW v \in Pages, NeedsLoad(v)
    PROVE  ~tlb[v \div 2].lo[v % 2].v
<1>1. CASE InvalidEntry(v)
  BY <1>1, PageNumbers DEF InvalidEntry, Matching, PagingInv, TlbAgrees
<1>2. CASE Refill(v) /\ ~tlb[tlb_index(vpage_num(v))].lo[ENTRYLO_IDX(v)].v
  BY <1>2, PageNumbers
<1> QED BY <1>1, <1>2 DEF NeedsLoad

\* The facts about a frame the driver takes: it is a frame, and if it held a
\* page, that page's half is valid, names it, and lies within the TLB.
LEMMA VictimFacts ==
    ASSUME AreaFits, PagingInv, NEW low \in Levels, list[low] # <<>>
    PROVE  /\ Head(list[low]) \in Frames
           /\ LET m == page[Head(list[low])].vpage_num
              IN m # PSVA_FREE =>
                    /\ m \in Pages
                    /\ page[Head(list[low])].ent_lo_idx = m % 2
                    /\ tlb[m \div 2].lo[m % 2].v
                    /\ tlb[m \div 2].lo[m % 2].pfn = Head(list[low])
<1>1. list[low] \in Seq(Frames)
  BY DEF PagingInv, TypeOK
<1>2. Head(list[low]) \in Frames
  BY <1>1, HeadTailProperties
<1> DEFINE m == page[Head(list[low])].vpage_num
<1>3. m # PSVA_FREE => m \in Pages /\ page[Head(list[low])].ent_lo_idx = m % 2
                       /\ tlb[m \div 2].lo[m % 2].v
                       /\ tlb[m \div 2].lo[m % 2].pfn = Head(list[low])
  BY <1>2, PageNumbers DEF PagingInv, TlbAgrees, tlb_index
<1> QED BY <1>2, <1>3

\* Where the halves of the entries and the records of the frames stay, so does
\* their agreement.
LEMMA SameHalves ==
    ASSUME TlbAgrees, page' = page, mem' = mem,
           \A j \in 0 .. NumTlb - 1 : tlb'[j].lo = tlb[j].lo /\ tlb'[j].vpn2 = j,
           \A g \in Frames : page[g].vpage_num # PSVA_FREE =>
              page[g].vpage_num \div 2 \in 0 .. NumTlb - 1
    PROVE  TlbAgrees'
<1>1. (\A i \in 0 .. NumTlb - 1 : tlb[i].vpn2 = i)'
  OBVIOUS
<1>2. (\A i \in 0 .. NumTlb - 1, h \in 0 .. 1 :
          tlb[i].lo[h].v =>
              /\ tlb[i].lo[h].pfn \in Frames
              /\ page[tlb[i].lo[h].pfn].vpage_num = 2 * i + h)'
  BY DEF TlbAgrees
<1>3. ASSUME NEW g \in Frames, page'[g].vpage_num # PSVA_FREE
      PROVE  LET n == page'[g].vpage_num
                 lo == tlb'[tlb_index(n)].lo[n % 2]
             IN page'[g].ent_lo_idx = n % 2 /\ lo.v /\ lo.pfn = g /\ mem'[g] = n
  <2> DEFINE n == page[g].vpage_num
  <2>1. page'[g] = page[g] /\ mem'[g] = mem[g] /\ n # PSVA_FREE /\ tlb'[n \div 2].lo = tlb[n \div 2].lo
    BY <1>3
  <2>2. /\ page[g].ent_lo_idx = n % 2 /\ tlb[n \div 2].lo[n % 2].v
        /\ tlb[n \div 2].lo[n % 2].pfn = g /\ mem[g] = n
    BY <2>1 DEF TlbAgrees, tlb_index
  <2> QED BY <2>1, <2>2 DEF tlb_index
<1> QED BY <1>1, <1>2, <1>3, Zenon DEF TlbAgrees

\* Refreshing an entry under the current ASID preserves the invariant: both
\* halves are written back as they were read.
LEMMA CheckFirstInv ==
    ASSUME AreaFits, PagingInv, NEW v \in Pages, mmu_tlb_miss_check_first(v)
    PROVE  PagingInv'
<1> DEFINE i == v \div 2
           lo == tlb[i].lo
           f == lo[v % 2].pfn
<1>1. /\ i \in 0 .. NumTlb - 1 /\ i \in Nat /\ v % 2 \in 0 .. 1
      /\ lo[v % 2].v
      /\ tlb' = [tlb EXCEPT ![i] = [vpn2 |-> i, asid |-> current_asid, lo |-> lo]]
      /\ list' = Promoted(list, lowest_level, f)
      /\ links' = promote(links, lowest_level, f)
  BY PageNumbers DEF mmu_tlb_miss_check_first, Refreshed
<1>2. /\ UNCHANGED <<lowest_level, page, current_asid, mem, cpu, refs>>
      /\ ref' = 1
  BY DEF mmu_tlb_miss_check_first, Restart
<1>3. f \in Frames
  BY <1>1 DEF PagingInv, TlbAgrees
<1>4. /\ list \in [Levels -> Seq(Frames)] /\ lowest_level \in Levels
      /\ tlb \in [0 .. NumTlb - 1 -> TlbEntry]
      /\ current_asid \in 0 .. NumAsid - 1
      /\ links \in Links /\ Intact(links, list)
  BY DEF PagingInv, TypeOK, ListsIntact
<1>5. list' \in [Levels -> Seq(Frames)] /\ links' \in Links /\ Intact(links', list')
  BY <1>1, <1>3, <1>4, PromotedIntact
<1>6. lo \in [0 .. 1 -> EntryLo]
  BY <1>1, <1>4 DEF TlbEntry
<1>7. tlb' \in [0 .. NumTlb - 1 -> TlbEntry]
  BY <1>1, <1>4, <1>6 DEF TlbEntry
<1>8. \A j \in 0 .. NumTlb - 1 : tlb'[j].lo = tlb[j].lo /\ tlb'[j].vpn2 = j
  BY <1>1, <1>4 DEF PagingInv, TlbAgrees
<1>9. TypeOK'
  BY <1>2, <1>5, <1>7 DEF PagingInv, TypeOK
<1>10. TlbAgrees'
  <2>1. \A g \in Frames : page[g].vpage_num # PSVA_FREE =>
           page[g].vpage_num \div 2 \in 0 .. NumTlb - 1
    BY PageNumbers DEF PagingInv
  <2>2. page' = page /\ mem' = mem /\ TlbAgrees
    BY <1>2 DEF PagingInv
  <2> QED BY <1>8, <2>1, <2>2, SameHalves
<1> QED BY <1>2, <1>5, <1>9, <1>10 DEF PagingInv, ListsIntact

\* Where the search for a victim stops, in terms of the lists.
SearchEnds(low) ==
    /\ list[low] # <<>>
    /\ \A k \in Levels :
          (k - lowest_level) % NUM_LEVEL < (low - lowest_level) % NUM_LEVEL => list[k] = <<>>

LEMMA SearchFollowsLists ==
    ASSUME TypeOK, ListsIntact, NEW low \in Levels
    PROVE  /\ VictimLevel(low) <=> SearchEnds(low)
           /\ VictimLevel(low) => Victim(low) = Head(list[low])
BY VictimIsHead DEF VictimLevel, SearchEnds

\* A load takes the frame at the head of the level the search stops at.
LEMMA VictimTaken ==
    ASSUME AreaFits, PagingInv, NEW v \in Pages, mmu_tlb_miss_va_to_pa(v)
    PROVE  \E low \in Levels :
              SearchEnds(low) /\ MapPage(v, v, v \div 2, v % 2, low, Head(list[low]))
<1>1. PICK low \in Levels : VictimLevel(low) /\ MapPage(v, v, v \div 2, v % 2, low, Victim(low))
  BY PageNumbers DEF mmu_tlb_miss_va_to_pa
<1>2. SearchEnds(low) /\ Victim(low) = Head(list[low])
  BY <1>1, SearchFollowsLists DEF PagingInv
<1> QED BY <1>1, <1>2

\* Loading a page preserves the invariant.  The entry of the page and the half
\* of the page evicted for it are the only parts of the TLB that change, also
\* when they are the two halves of one entry.
LEMMA LoadInv ==
    ASSUME AreaFits, PagingInv, NEW v \in Pages, mmu_tlb_miss_va_to_pa(v)
    PROVE  PagingInv'
<1> DEFINE i == v \div 2
           half == v % 2
<1>1. PICK low \in Levels :
        SearchEnds(low) /\ MapPage(v, v, i, half, low, Head(list[low]))
  BY PageNumbers, VictimTaken
<1>2. UNCHANGED <<cpu, refs>> /\ ref' = 1
  BY DEF mmu_tlb_miss_va_to_pa, Restart
<1> DEFINE vic == Head(list[low])
           m == page[vic].vpage_num
           inv == m # PSVA_FREE
           t == IF inv THEN invalid_tlb_entry(tlb, m, page[vic].ent_lo_idx) ELSE tlb
           asid == INCREASE_ASID(current_asid)
<1>3. /\ list \in [Levels -> Seq(Frames)]
      /\ page \in [Frames -> [vpage_num : {PSVA_FREE} \cup 0 .. NumTlb - 1, ent_lo_idx : 0 .. 1]]
      /\ tlb \in [0 .. NumTlb - 1 -> TlbEntry]
      /\ mem \in [Frames -> {Garbage} \cup 0 .. NumTlb - 1]
      /\ current_asid \in 0 .. NumAsid - 1
  BY DEF PagingInv, TypeOK
<1>4. /\ vic \in Frames
      /\ inv => /\ m \in Pages /\ page[vic].ent_lo_idx = m % 2
                /\ tlb[m \div 2].lo[m % 2].v /\ tlb[m \div 2].lo[m % 2].pfn = vic
  BY <1>1, VictimFacts DEF SearchEnds
<1>5. /\ i \in 0 .. NumTlb - 1 /\ i \in Nat /\ half \in 0 .. 1 /\ 1 - half \in 0 .. 1
      /\ v \in 0 .. NumTlb - 1 /\ v = 2 * i + half
  BY PageNumbers
<1>6. inv => m \div 2 \in 0 .. NumTlb - 1 /\ m % 2 \in 0 .. 1 /\ m = 2 * (m \div 2) + (m % 2)
  BY <1>4, PageNumbers
<1>7. asid \in 0 .. NumAsid - 1
  BY <1>3, MmuAssumption DEF INCREASE_ASID
\* The TLB after the victim's half has been invalidated.
<1>8. /\ t \in [0 .. NumTlb - 1 -> TlbEntry]
      /\ \A j \in 0 .. NumTlb - 1, h \in 0 .. 1 :
            /\ t[j].vpn2 = tlb[j].vpn2
            /\ t[j].lo[h].pfn = tlb[j].lo[h].pfn
            /\ t[j].lo[h].v <=> tlb[j].lo[h].v /\ ~(inv /\ m = 2 * j + h)
  <2>1. CASE ~inv
    BY <2>1, <1>3
  <2>2. CASE inv
    <3> DEFINE a == m \div 2
               b == m % 2
    <3>1. t = [tlb EXCEPT ![a] = TLB_SET_VALID(tlb[a], b, FALSE)]
      BY <2>2, <1>4 DEF invalid_tlb_entry, tlb_index
    <3>2. a \in 0 .. NumTlb - 1 /\ b \in 0 .. 1
      BY <2>2, <1>6
    <3>3. \A j \in 0 .. NumTlb - 1, h \in 0 .. 1 : m = 2 * j + h <=> j = a /\ h = b
      BY <2>2, <1>6, IndexHalf
    <3> HIDE DEF a, b, t
    <3>4. tlb[a] \in TlbEntry /\ tlb[a].lo \in [0 .. 1 -> EntryLo] /\ tlb[a].lo[b] \in EntryLo
      BY <3>2, <1>3 DEF TlbEntry
    <3>5. /\ t[a].vpn2 = tlb[a].vpn2
          /\ t[a].lo = [tlb[a].lo EXCEPT ![b] = [v |-> FALSE, pfn |-> tlb[a].lo[b].pfn]]
      BY <3>1, <3>2, <1>3 DEF TLB_SET_VALID
    <3>6. t[a] \in TlbEntry
      BY <3>1, <3>2, <3>4, <1>3 DEF TLB_SET_VALID, TlbEntry, EntryLo
    <3>7. t \in [0 .. NumTlb - 1 -> TlbEntry]
      BY <3>1, <3>2, <3>6, <1>3
    <3>8. \A j \in 0 .. NumTlb - 1 : j # a => t[j] = tlb[j]
      BY <3>1, <1>3
    <3>9. /\ t[a].vpn2 = tlb[a].vpn2
          /\ \A h \in 0 .. 1 : h # b => t[a].lo[h] = tlb[a].lo[h]
          /\ t[a].lo[b].v = FALSE /\ t[a].lo[b].pfn = tlb[a].lo[b].pfn
      BY <3>2, <3>4, <3>5
    <3> QED BY <2>2, <3>2, <3>3, <3>7, <3>8, <3>9
  <2> QED BY <2>1, <2>2
<1> HIDE DEF t, inv, m, vic, asid
\* The TLB after the step.
<1>9. /\ tlb' \in [0 .. NumTlb - 1 -> TlbEntry]
      /\ \A j \in 0 .. NumTlb - 1 : tlb'[j].vpn2 = j
      /\ tlb'[i].lo[half].v /\ tlb'[i].lo[half].pfn = vic
      /\ \A j \in 0 .. NumTlb - 1, h \in 0 .. 1 : ~(j = i /\ h = half) =>
            /\ tlb'[j].lo[h].pfn = tlb[j].lo[h].pfn
            /\ tlb'[j].lo[h].v <=> tlb[j].lo[h].v /\ ~(inv /\ m = 2 * j + h)
  <2> DEFINE bud == RecheckedBuddy(t, i, half, tlb[i].lo, inv)
  <2>1. tlb' = [t EXCEPT ![i] =
                  [vpn2 |-> i, asid |-> asid,
                   lo |-> [h \in 0 .. 1 |-> IF h = half THEN [v |-> TRUE, pfn |-> vic] ELSE bud]]]
    BY <1>1 DEF MapPage, t, inv, m, vic, asid
  <2>2. bud = t[i].lo[1 - half]
    BY DEF RecheckedBuddy, t
  <2>3. bud \in EntryLo
    <3>1. t[i] \in TlbEntry /\ 1 - half \in 0 .. 1
      BY <1>5, <1>8
    <3> HIDE DEF t, i, half
    <3>2. t[i].lo \in [0 .. 1 -> EntryLo]
      BY <3>1 DEF TlbEntry
    <3>3. t[i].lo[1 - half] \in EntryLo
      BY <3>1, <3>2
    <3> QED BY <2>2, <3>3
  <2> HIDE DEF bud
  <2>4. [v |-> TRUE, pfn |-> vic] \in EntryLo
    BY <1>4 DEF EntryLo, vic
  <2>5. tlb'[i] \in TlbEntry
    BY <2>1, <2>3, <2>4, <1>5, <1>7, <1>8 DEF TlbEntry
  <2>6. tlb' \in [0 .. NumTlb - 1 -> TlbEntry]
    BY <2>1, <2>5, <1>8
  <2>7. \A j \in 0 .. NumTlb - 1 : j # i => tlb'[j] = t[j]
    BY <2>1, <1>8
  <2>8. /\ tlb'[i].vpn2 = i
        /\ tlb'[i].lo[half] = [v |-> TRUE, pfn |-> vic]
        /\ \A h \in 0 .. 1 : h # half => tlb'[i].lo[h] = t[i].lo[h]
    BY <2>1, <2>2, <1>5, <1>8
  <2>9. \A j \in 0 .. NumTlb - 1 : tlb'[j].vpn2 = j
    BY <2>7, <2>8, <1>8, SMTT(30) DEF PagingInv, TlbAgrees
  <2>10. \A j \in 0 .. NumTlb - 1, h \in 0 .. 1 :
            ~(j = i /\ h = half) => tlb'[j].lo[h] = t[j].lo[h]
    BY <2>7, <2>8
  <2> QED BY <2>6, <2>8, <2>9, <2>10, <1>8
\* The page that is loaded was not resident.
<1>10. ~tlb[i].lo[half].v
  BY NotResident DEF mmu_tlb_miss_va_to_pa
<1>11. /\ page' = [page EXCEPT ![vic] = [vpage_num |-> v, ent_lo_idx |-> half]]
       /\ mem' = [mem EXCEPT ![vic] = v]
  BY <1>1 DEF MapPage, vic
<1>12. vic \in Frames
  BY <1>4
<1>13. /\ page'[vic].vpage_num = v /\ page'[vic].ent_lo_idx = half /\ mem'[vic] = v
       /\ \A f \in Frames : f # vic => page'[f] = page[f] /\ mem'[f] = mem[f]
  BY <1>3, <1>11, <1>12
<1>14. list' \in [Levels -> Seq(Frames)] /\ links' \in Links /\ ListsIntact'
  <2> DEFINE up == PROMO_LEVEL_2(low)
             moved == Moved(list, up, vic)
             linked == move_to_list(links, up, vic)
             bud == tlb[i].lo[1 - half].pfn
  <2>1. /\ list' = IF bud # NoFrame THEN Promoted(moved, low, bud) ELSE moved
        /\ links' = IF bud # NoFrame THEN promote(linked, low, bud) ELSE linked
    BY <1>1 DEF MapPage, vic
  <2>2. up \in Levels
    BY DEF PROMO_LEVEL_2, Levels, NUM_LEVEL
  <2>3. links \in Links /\ Intact(links, list)
    BY DEF PagingInv, TypeOK, ListsIntact
  <2>4. bud # NoFrame => bud \in Frames
    BY <1>3, <1>5 DEF TlbEntry, EntryLo
  <2> HIDE DEF up
  <2>5. linked \in Links /\ moved \in [Levels -> Seq(Frames)] /\ Intact(linked, moved)
    BY <2>2, <2>3, <1>3, <1>12, MoveIntact
  <2> HIDE DEF moved, linked, bud
  <2>6. list' \in [Levels -> Seq(Frames)] /\ links' \in Links /\ Intact(links', list')
    BY <2>1, <2>4, <2>5, PromotedIntact
  <2> QED BY <2>6 DEF ListsIntact
<1>15. TypeOK'
  <2>1. page' \in [Frames -> [vpage_num : {PSVA_FREE} \cup 0 .. NumTlb - 1, ent_lo_idx : 0 .. 1]]
    BY <1>3, <1>5, <1>11
  <2>2. mem' \in [Frames -> {Garbage} \cup 0 .. NumTlb - 1]
    BY <1>3, <1>5, <1>11
  <2>3. current_asid' \in 0 .. NumAsid - 1 /\ lowest_level' \in Levels
    BY <1>1, <1>7 DEF MapPage, asid
  <2> QED BY <2>1, <2>2, <2>3, <1>2, <1>9, <1>14 DEF PagingInv, TypeOK
<1>16. TlbAgrees'
  <2>1. ASSUME NEW j \in 0 .. NumTlb - 1, NEW h \in 0 .. 1, tlb'[j].lo[h].v
        PROVE  /\ tlb'[j].lo[h].pfn \in Frames
               /\ page'[tlb'[j].lo[h].pfn].vpage_num = 2 * j + h
    <3>1. CASE j = i /\ h = half
      BY <3>1, <1>5, <1>9, <1>12, <1>13
    <3>2. CASE ~(j = i /\ h = half)
      <4> DEFINE g == tlb[j].lo[h].pfn
      <4>1. tlb[j].lo[h].v /\ ~(inv /\ m = 2 * j + h) /\ tlb'[j].lo[h].pfn = g
        BY <2>1, <3>2, <1>9
      <4>2. g \in Frames /\ page[g].vpage_num = 2 * j + h
        BY <4>1 DEF PagingInv, TlbAgrees
      <4>3. g # vic
        BY <4>1, <4>2 DEF inv, m, PSVA_FREE
      <4> QED BY <4>1, <4>2, <4>3, <1>13
    <3> QED BY <3>1, <3>2
  <2>2. ASSUME NEW f \in Frames, page'[f].vpage_num # PSVA_FREE
        PROVE  LET n == page'[f].vpage_num
                   lo == tlb'[n \div 2].lo[n % 2]
               IN page'[f].ent_lo_idx = n % 2 /\ lo.v /\ lo.pfn = f /\ mem'[f] = n
    <3>1. CASE f = vic
      BY <3>1, <1>9, <1>13
    <3>2. CASE f # vic
      <4> DEFINE n == page[f].vpage_num
                 a == n \div 2
                 b == n % 2
      <4>1. page'[f] = page[f] /\ mem'[f] = mem[f] /\ n # PSVA_FREE
        BY <3>2, <2>2, <1>13
      <4>2. /\ page[f].ent_lo_idx = b /\ mem[f] = n
            /\ tlb[a].lo[b].v /\ tlb[a].lo[b].pfn = f
        BY <4>1 DEF PagingInv, TlbAgrees, tlb_index
      <4>3. a \in 0 .. NumTlb - 1 /\ b \in 0 .. 1 /\ n = 2 * a + b
        BY <4>1, PageNumbers DEF PagingInv
      <4>4. ~(a = i /\ b = half)
        BY <4>2, <1>10
      <4>5. ~(inv /\ m = 2 * a + b)
        <5>1. SUFFICES ASSUME inv, m = n PROVE FALSE
          BY <4>3
        <5>2. tlb[a].lo[b].pfn = vic
          BY <5>1, <1>4 DEF m, inv, vic
        <5> QED BY <5>2, <4>2, <3>2
      <4> HIDE DEF a, b
      <4>6. tlb'[a].lo[b].v /\ tlb'[a].lo[b].pfn = f
        BY <4>2, <4>3, <4>4, <4>5, <1>9
      <4> QED BY <4>1, <4>2, <4>6 DEF a, b
    <3> QED BY <3>1, <3>2
  <2> QED BY <2>1, <2>2, <1>9 DEF TlbAgrees, tlb_index
<1>17. \A f \in Frames : page'[f].vpage_num # PSVA_FREE => page'[f].vpage_num \in Pages
  BY <1>13 DEF PagingInv
<1> QED BY <1>14, <1>15, <1>16, <1>17 DEF PagingInv

\* Every step preserves the invariant.
LEMMA StepInv ==
    ASSUME AreaFits, PagingInv, [Next]_vars
    PROVE  PagingInv'
<1>1. ASSUME UNCHANGED mmuVars, refs' \in Programs \cup {<<>>}, ref' \in Nat,
             cpu' \in {"run", "stopped"}
      PROVE  PagingInv'
  <2>1. TypeOK'
    BY <1>1 DEF PagingInv, TypeOK, mmuVars
  <2>2. TlbAgrees'
    <3>1. TlbAgrees /\ tlb' = tlb /\ page' = page /\ mem' = mem
      BY <1>1 DEF PagingInv, mmuVars
    <3>2. \A j \in 0 .. NumTlb - 1 : tlb'[j].lo = tlb[j].lo /\ tlb'[j].vpn2 = j
      BY <3>1 DEF TlbAgrees
    <3>3. \A g \in Frames : page[g].vpage_num # PSVA_FREE =>
             page[g].vpage_num \div 2 \in 0 .. NumTlb - 1
      BY PageNumbers DEF PagingInv
    <3> QED BY <3>1, <3>2, <3>3, SameHalves
  <2>3. page' = page /\ ListsIntact'
    BY <1>1 DEF PagingInv, ListsIntact, mmuVars
  <2> QED BY <2>1, <2>2, <2>3 DEF PagingInv
<1>2. refs \in Programs \cup {<<>>} /\ ref \in Nat /\ cpu \in {"run", "stopped"}
  BY DEF PagingInv, TypeOK
<1>3. CASE Issue
  BY <1>1, <1>2, <1>3 DEF Issue
<1>4. ASSUME NEW v \in Pages, Access(v) PROVE PagingInv'
  BY <1>1, <1>2, <1>4 DEF Access
<1>5. ASSUME NEW v \in Pages, mmu_tlb_miss_check_first(v) PROVE PagingInv'
  BY <1>5, CheckFirstInv
<1>6. ASSUME NEW v \in Pages, mmu_tlb_miss_va_to_pa(v) PROVE PagingInv'
  BY <1>6, LoadInv
<1>7. ASSUME NEW v \in Pages, LoadFails(v) PROVE PagingInv'
  BY <1>1, <1>2, <1>7 DEF LoadFails
<1>8. CASE UNCHANGED vars
  BY <1>1, <1>2, <1>8 DEF vars, mmuVars
<1> QED BY <1>3, <1>4, <1>5, <1>6, <1>7, <1>8 DEF Next, Handle

\* The variables of the pager keep their types.
THEOREM PagingTypeCorrect == AreaFits => (Spec => []TypeOK)
<1> SUFFICES ASSUME AreaFits PROVE Spec => []TypeOK
  OBVIOUS
<1>1. Init => PagingInv
  BY InitInv
<1>2. PagingInv /\ [Next]_vars => PagingInv'
  BY StepInv
<1>3. PagingInv => TypeOK
  BY DEF PagingInv
<1> QED BY <1>1, <1>2, <1>3, PTL DEF Spec

\* The TLB and the frame table agree, and every resident page's bytes are in its
\* frame: the driver's bookkeeping through any sequence of loads and evictions.
THEOREM TlbAlwaysAgrees == AreaFits => (Spec => []TlbAgrees)
<1> SUFFICES ASSUME AreaFits PROVE Spec => []TlbAgrees
  OBVIOUS
<1>1. Init => PagingInv
  BY InitInv
<1>2. PagingInv /\ [Next]_vars => PagingInv'
  BY StepInv
<1>3. PagingInv => TlbAgrees
  BY DEF PagingInv
<1> QED BY <1>1, <1>2, <1>3, PTL DEF Spec

\* A translated access reads the page it names.
LEMMA AgreesReads == AreaFits /\ PagingInv => AccessReadsItsPage
<1> SUFFICES ASSUME AreaFits, PagingInv, NEW v \in Pages, NEW f \in Frames, Translates(v, f)
             PROVE  mem[f] = v
  BY DEF AccessReadsItsPage
<1>1. PICK i \in Matching(v) : tlb[i].lo[v % 2].v /\ tlb[i].lo[v % 2].pfn = f
  BY PageNumbers DEF Translates
<1>2. i \in 0 .. NumTlb - 1 /\ i = v \div 2 /\ v % 2 \in 0 .. 1
  BY <1>1, PageNumbers DEF Matching, PagingInv, TlbAgrees
<1>3. page[f].vpage_num = 2 * i + (v % 2)
  <2>1. \A j \in 0 .. NumTlb - 1, h \in 0 .. 1 :
          tlb[j].lo[h].v => page[tlb[j].lo[h].pfn].vpage_num = 2 * j + h
    BY DEF PagingInv, TlbAgrees
  <2> DEFINE half == v % 2
  <2>2. half \in 0 .. 1 /\ tlb[i].lo[half].v /\ tlb[i].lo[half].pfn = f
    BY <1>1, <1>2
  <2> HIDE DEF half
  <2>3. page[f].vpage_num = 2 * i + half
    BY <1>2, <2>1, <2>2
  <2> QED BY <2>3 DEF half
<1>4. page[f].vpage_num = v /\ v # PSVA_FREE
  BY <1>2, <1>3, PageNumbers DEF Pages, PSVA_FREE
<1> QED BY <1>4 DEF PagingInv, TlbAgrees

\* No access of the mapped code ever reads another page's bytes
\* (mmu_tlb_miss_va_to_pa, mmu_tlb_miss_check_first).
THEOREM ReadsItsPage == AreaFits => (Spec => []AccessReadsItsPage)
<1> SUFFICES ASSUME AreaFits PROVE Spec => []AccessReadsItsPage
  OBVIOUS
<1>1. Init => PagingInv
  BY InitInv
<1>2. PagingInv /\ [Next]_vars => PagingInv'
  BY StepInv
<1>3. PagingInv => AccessReadsItsPage
  BY AgreesReads
<1> QED BY <1>1, <1>2, <1>3, PTL DEF Spec

\* When some list holds a frame the search for a victim ends at one.
LEMMA VictimExists ==
    ASSUME TypeOK, \E k \in Levels : list[k] # <<>>
    PROVE  \E low \in Levels : SearchEnds(low)
<1> DEFINE l0 == lowest_level
           at(d) == (l0 + d) % 4
<1>1. l0 \in 0 .. 3 /\ Levels = 0 .. 3 /\ NUM_LEVEL = 4
  BY DEF TypeOK, Levels, NUM_LEVEL
<1>2. \A d \in 0 .. 3 : at(d) \in 0 .. 3 /\ (at(d) - l0) % 4 = d
  BY <1>1
<1>3. \A k \in 0 .. 3 : k = at((k - l0) % 4) /\ (k - l0) % 4 \in 0 .. 3
  <2>1. ASSUME NEW k \in 0 .. 3 PROVE k = (l0 + ((k - l0) % 4)) % 4 /\ (k - l0) % 4 \in 0 .. 3
    <3>1. CASE l0 <= k
      BY <3>1, <1>1
    <3>2. CASE k < l0
      BY <3>2, <1>1
    <3> QED BY <3>1, <3>2, <1>1
  <2> QED BY <2>1
<1> HIDE DEF at, l0
<1>4. \E d \in 0 .. 3 : list[at(d)] # <<>>
  BY <1>1, <1>3
<1>5. PICK d \in 0 .. 3 : list[at(d)] # <<>> /\ \A e \in 0 .. 3 : e < d => list[at(e)] = <<>>
  BY <1>4
<1>6. SearchEnds(at(d))
  BY <1>1, <1>2, <1>3, <1>5, SMTT(30) DEF SearchEnds, l0
<1> QED BY <1>1, <1>2, <1>6

\* The handler returns: it finds a victim, and none of its internal checks stops
\* it in an endless loop (MMU_CHECK_INETRNAL_ERROR).
LEMMA AgreesReturns == AreaFits /\ PagingInv => HandlerReturns
<1> SUFFICES ASSUME AreaFits, PagingInv, NEW v \in Pages
             PROVE  /\ NeedsLoad(v) => \E low \in Levels :
                          VictimLevel(low) /\ ~ChecksFail(v, Victim(low))
                    /\ Accessing(v) /\ Refill(v) /\ ~NeedsLoad(v) =>
                          tlb[tlb_index(vpage_num(v))].lo[ENTRYLO_IDX(v)].pfn # NoFrame
  BY DEF HandlerReturns
<1>1. ASSUME NeedsLoad(v)
      PROVE  \E low \in Levels : VictimLevel(low) /\ ~ChecksFail(v, Victim(low))
  <2>0. PICK low \in Levels : SearchEnds(low)
    BY VictimExists, NotAllEmpty DEF PagingInv, ListsIntact, Intact
  <2>1. VictimLevel(low) /\ Victim(low) = Head(list[low])
    BY <2>0, SearchFollowsLists DEF PagingInv
  <2> DEFINE vic == Head(list[low])
             n == page[vic].vpage_num
  <2>2. n # PSVA_FREE => /\ n \in Pages /\ page[vic].ent_lo_idx = n % 2
                         /\ tlb[n \div 2].lo[n % 2].v
    BY <2>0, VictimFacts DEF SearchEnds
  <2>3. n # PSVA_FREE => n < VmPages /\ ~(n >= VmPages)
    <3>1. \A k \in Pages : k < VmPages /\ ~(k >= VmPages)
      BY MmuAssumption DEF Pages
    <3> HIDE DEF n
    <3> QED BY <2>2, <3>1
  <2>4. ~tlb[v \div 2].lo[v % 2].v /\ v % 2 \in 0 .. 1
    BY <1>1, NotResident, PageNumbers
  <2>5. ~(tlb[v \div 2].lo[0].v /\ tlb[v \div 2].lo[1].v)
    BY <2>4
  <2> HIDE DEF n, vic
  <2>7. ~ChecksFail(v, vic)
    BY <2>2, <2>3, <2>5, PageNumbers DEF ChecksFail, tlb_index, n
  <2> QED BY <2>1, <2>7 DEF vic
<1>2. ASSUME Accessing(v), Refill(v), ~NeedsLoad(v)
      PROVE  tlb[tlb_index(vpage_num(v))].lo[ENTRYLO_IDX(v)].pfn # NoFrame
  <2>1. tlb[v \div 2].lo[v % 2].v
    BY <1>2, PageNumbers DEF NeedsLoad
  <2>2. tlb[v \div 2].lo[v % 2].pfn \in Frames
    BY <2>1, PageNumbers DEF PagingInv, TlbAgrees
  <2>3. tlb[v \div 2].lo[v % 2].pfn # NoFrame
    BY <2>2, MmuAssumption DEF Frames, NoFrame
  <2> QED BY <2>3, PageNumbers
<1> QED BY <1>1, <1>2

\* Every exception the handler takes ends in a return or a reported read error.
THEOREM HandlerAlwaysReturns == AreaFits => (Spec => []HandlerReturns)
<1> SUFFICES ASSUME AreaFits PROVE Spec => []HandlerReturns
  OBVIOUS
<1>1. Init => PagingInv
  BY InitInv
<1>2. PagingInv /\ [Next]_vars => PagingInv'
  BY StepInv
<1>3. PagingInv => HandlerReturns
  BY AgreesReturns
<1> QED BY <1>1, <1>2, <1>3, PTL DEF Spec

-----------------------------------------------------------------------------
\* The pointer lists stay intact through any sequence of loads, evictions and
\* promotions: every frame is on one of them, and head and tail pointers agree
\* (insert_to_list_tail, move_to_list).
THEOREM ListsStayIntact == AreaFits => (Spec => []ListsIntact)
<1> SUFFICES ASSUME AreaFits PROVE Spec => []ListsIntact
  OBVIOUS
<1>1. Init => PagingInv
  BY InitInv
<1>2. PagingInv /\ [Next]_vars => PagingInv'
  BY StepInv
<1>3. PagingInv => ListsIntact
  BY DEF PagingInv
<1> QED BY <1>1, <1>2, <1>3, PTL DEF Spec

-----------------------------------------------------------------------------
(* How long a page stays.                                                  *)

\* Where a level comes when the levels are served in a circle: those in front of
\* the one pages are promoted to, and that one last.
Turn(l) == IF l >= 2 THEN l - 2 ELSE l + 2

\* How many levels can be served, after low, before a frame of level k is taken.
\* It may be promoted on the way, but only to the level that is served last.
Rounds(low, k) == IF Turn(k) >= Turn(low) THEN 3 - Turn(low) ELSE 7 - Turn(low)

LEMMA RoundsType ==
    ASSUME NEW low \in Levels, NEW k \in Levels
    PROVE  Rounds(low, k) \in 0 .. 6 /\ Rounds(low, promote_list_num) <= Rounds(low, k)
<1>1. promote_list_num = 1
  BY DEF promote_list_num, PROMO_LEVEL, NUM_LEVEL
<1> QED BY <1>1 DEF Rounds, Turn, Levels, NUM_LEVEL

\* Going on to another level, and not past the frame's, leaves fewer.
LEMMA RoundsStep ==
    ASSUME NEW l \in Levels, NEW low \in Levels, NEW k \in Levels,
           (k - l) % NUM_LEVEL >= (low - l) % NUM_LEVEL
    PROVE  Rounds(low, k) <= Rounds(l, k) /\ (low # l => Rounds(low, k) + 1 <= Rounds(l, k))
<1>1. /\ l \in {0, 1, 2, 3} /\ low \in {0, 1, 2, 3} /\ k \in {0, 1, 2, 3}
      /\ (k - l) % 4 >= (low - l) % 4
  BY DEF Levels, NUM_LEVEL
<1> QED BY <1>1 DEF Rounds, Turn

Holds(ls, k, f) == \E j \in 1 .. Len(ls[k]) : ls[k][j] = f

\* What moving a frame does to the lists.
LEMMA MoveHolds ==
    ASSUME NEW ls \in [Levels -> Seq(Frames)], NEW l \in Levels, NEW p \in Frames, OneList(ls),
           NEW k \in Levels
    PROVE  /\ Len(ls[k]) \in Nat /\ Len(Moved(ls, l, p)[k]) \in Nat
           /\ k # l => Len(Moved(ls, l, p)[k]) <= Len(ls[k])
           /\ k # l /\ Holds(ls, k, p) => Len(Moved(ls, l, p)[k]) = Len(ls[k]) - 1
           /\ \A f : Holds(Moved(ls, l, p), k, f) => Holds(ls, k, f) \/ (k = l /\ f = p)
<1> DEFINE s == ls[k]
           w == Without(s, p)
           t == Moved(ls, l, p)[k]
<1>1. s \in Seq(Frames) /\ w \in Seq(Frames)
  BY WithoutType
<1>2. Unlinked(s, w, p)
  <2>1. \A j1 \in 1 .. Len(s), j2 \in 1 .. Len(s) : s[j1] = s[j2] => j1 = j2
    BY DEF OneList
  <2> HIDE DEF s
  <2> QED BY <1>1, <2>1, WithoutFacts
<1>3. t = IF k = l THEN Append(w, p) ELSE w
  BY DEF Moved
<1> HIDE DEF s, w, t
<1>4. /\ Len(s) \in Nat /\ Len(w) \in Nat /\ Len(t) \in Nat
      /\ Len(w) = IF \E i \in 1 .. Len(s) : s[i] = p THEN Len(s) - 1 ELSE Len(s)
  BY <1>1, <1>2, <1>3 DEF Unlinked
<1>5. ASSUME NEW f, NEW j \in 1 .. Len(t), t[j] = f
      PROVE  (\E i \in 1 .. Len(s) : s[i] = f) \/ (k = l /\ f = p)
  <2>1. ASSUME j \in 1 .. Len(w), w[j] = f PROVE \E i \in 1 .. Len(s) : s[i] = f
    BY <1>2, <2>1 DEF Unlinked
  <2>2. CASE k # l
    BY <1>3, <1>5, <2>1, <2>2
  <2>3. CASE k = l
    <3>1. t = Append(w, p)
      BY <1>3, <2>3
    <3>2. (j \in 1 .. Len(w) /\ t[j] = w[j]) \/ (t[j] = p)
      BY <1>1, <1>4, <1>5, <3>1
    <3> QED BY <1>5, <2>1, <2>3, <3>2
  <2> QED BY <2>2, <2>3
<1>6. \A f : Holds(Moved(ls, l, p), k, f) => Holds(ls, k, f) \/ (k = l /\ f = p)
  BY <1>5 DEF Holds, s, t
<1>7. k # l => Len(t) <= Len(s)
  BY <1>3, <1>4
<1>8. k # l /\ Holds(ls, k, p) => Len(t) = Len(s) - 1
  BY <1>3, <1>4 DEF Holds, s
<1> QED BY <1>4, <1>6, <1>7, <1>8 DEF s, t

\* A promotion, while level low is being served.
LEMMA PromotedHolds ==
    ASSUME NEW ls \in [Levels -> Seq(Frames)], NEW low \in Levels, NEW p \in Frames, OneList(ls)
    PROVE  /\ Len(ls[low]) \in Nat /\ Len(Promoted(ls, low, p)[low]) \in Nat
           /\ Len(Promoted(ls, low, p)[low]) <= Len(ls[low])
           /\ \A k \in Levels : \A f : Holds(Promoted(ls, low, p), k, f) =>
                 Holds(ls, k, f) \/ k = promote_list_num
<1>1. promote_list_num \in Levels
  BY DEF promote_list_num, PROMO_LEVEL, Levels, NUM_LEVEL
<1>2. Len(ls[low]) \in Nat
  OBVIOUS
<1>3. CASE promote_list_num = low
  BY <1>2, <1>3 DEF Promoted
<1>4. CASE promote_list_num # low
  <2>1. Promoted(ls, low, p) = Moved(ls, promote_list_num, p)
    BY <1>4 DEF Promoted
  <2> QED BY <1>1, <1>4, <2>1, MoveHolds
<1> QED BY <1>3, <1>4

\* No list has more entries than there are frames.
LEMMA ListsBounded ==
    ASSUME NEW ls \in [Levels -> Seq(Frames)], OneList(ls), NEW k \in Levels
    PROVE  Len(ls[k]) \in Nat /\ Len(ls[k]) <= NumFrames
<1> DEFINE s == ls[k]
           n == Len(s)
<1>1. s \in Seq(Frames) /\ \A j1 \in 1 .. n, j2 \in 1 .. n : s[j1] = s[j2] => j1 = j2
  BY DEF OneList
<1> HIDE DEF s
<1>2. n \in Nat /\ s \in [1 .. n -> Frames]
  BY <1>1
<1>3. s \in Injection(1 .. n, Frames)
  BY <1>1, <1>2 DEF Injection, IsInjective
<1>4. IsFiniteSet(Frames) /\ Cardinality(Frames) = NumFrames /\ NumFrames \in Nat
  <2>1. NumFrames \in Nat \ {0}
    BY MmuAssumption
  <2>2. IsFiniteSet(1 .. NumFrames) /\ Cardinality(1 .. NumFrames) = IF 1 > NumFrames THEN 0 ELSE NumFrames - 1 + 1
    BY <2>1, FS_Interval
  <2> QED BY <2>1, <2>2 DEF Frames
<1> HIDE DEF n
<1>5. Cardinality(1 .. n) <= Cardinality(Frames)
  BY <1>3, <1>4, FS_Injection
<1>6. Cardinality(1 .. n) = n
  <2>1. Cardinality(1 .. n) = IF 1 > n THEN 0 ELSE n - 1 + 1
    BY <1>2, FS_Interval
  <2> QED BY <1>2, <2>1
<1> QED BY <1>2, <1>4, <1>5, <1>6 DEF n, s

\* The loads that can pass before a frame of level k is taken, when each level is
\* emptied before the next one is served.
Left(k) == NumFrames * Rounds(lowest_level, k) + Len(list[lowest_level])

\* The loads since entry i was written.
Age(i) ==
    IF current_asid >= tlb[i].asid THEN current_asid - tlb[i].asid
                                   ELSE current_asid - tlb[i].asid + NumAsid

\* An entry with a valid half is not older than the stay of that half's page.
AgeInv ==
    \A i \in 0 .. NumTlb - 1, h \in 0 .. 1, k \in Levels :
        tlb[i].lo[h].v /\ Holds(list, k, tlb[i].lo[h].pfn) => Age(i) + Left(k) <= 7 * NumFrames

\* There are more ASIDs than loads that a page can survive.
EnoughAsids == 7 * NumFrames < NumAsid

LEMMA Times ==
    ASSUME NEW n \in Nat, NEW a \in 0 .. 6, NEW b \in 0 .. 6
    PROVE  /\ n * a \in Nat /\ n * b \in Nat
           /\ a <= b => n * a <= n * b
           /\ a + 1 <= b => n * a + n <= n * b
           /\ n * a <= 6 * n
<1> DEFINE Is(x, y) == \/ x = 0 /\ y = 0
                       \/ x = 1 /\ y = n
                       \/ x = 2 /\ y = n + n
                       \/ x = 3 /\ y = n + n + n
                       \/ x = 4 /\ y = n + n + n + n
                       \/ x = 5 /\ y = n + n + n + n + n
                       \/ x = 6 /\ y = n + n + n + n + n + n
           na == n * a
           nb == n * b
<1>1. \A x \in 0 .. 6 : Is(x, n * x)
  OBVIOUS
<1>2. Is(a, na) /\ Is(b, nb)
  BY <1>1
<1> HIDE DEF na, nb
<1>3. /\ na \in Nat /\ nb \in Nat /\ (a <= b => na <= nb) /\ (a + 1 <= b => na + n <= nb)
      /\ na <= 6 * n
  BY <1>2
<1> QED BY <1>3 DEF na, nb

LEMMA AgeType ==
    ASSUME PagingInv, NEW i \in 0 .. NumTlb - 1
    PROVE  /\ tlb[i].asid \in 0 .. NumAsid - 1 /\ current_asid \in 0 .. NumAsid - 1 /\ NumAsid \in Nat \ {0}
           /\ Age(i) \in 0 .. NumAsid - 1
           /\ Age(i) = 0 <=> tlb[i].asid = current_asid
<1>1. /\ tlb[i].asid \in 0 .. NumAsid - 1 /\ current_asid \in 0 .. NumAsid - 1 /\ NumAsid \in Nat \ {0}
  BY MmuAssumption DEF PagingInv, TypeOK, TlbEntry
<1> QED BY <1>1 DEF Age

\* The next ASID makes an entry one load older.
LEMMA NextAsid ==
    ASSUME NEW n \in Nat \ {0}, NEW c \in 0 .. n - 1, NEW a \in 0 .. n - 1
    PROVE  LET d  == IF c >= a THEN c - a ELSE c - a + n
               c2 == (c + 1) % n
               d2 == IF c2 >= a THEN c2 - a ELSE c2 - a + n
           IN d + 1 < n => d2 = d + 1
<1> DEFINE d  == IF c >= a THEN c - a ELSE c - a + n
           c2 == (c + 1) % n
           d2 == IF c2 >= a THEN c2 - a ELSE c2 - a + n
<1>1. c2 = IF c + 1 = n THEN 0 ELSE c + 1
  <2>1. CASE c + 1 = n
    BY <2>1
  <2>2. CASE c + 1 # n
    <3>1. c + 1 \in 0 .. n - 1
      BY <2>2
    <3> QED BY <2>2, <3>1
  <2> QED BY <2>1, <2>2
<1> HIDE DEF c2
<1>2. d + 1 < n => d2 = d + 1
  BY <1>1
<1> QED BY <1>2 DEF c2

\* What is left of a frame's stay: never more than seven times the frames.
LEMMA LeftType ==
    ASSUME PagingInv, OneList(list), NEW k \in Levels
    PROVE  Left(k) \in Nat /\ Left(k) <= 7 * NumFrames
<1>1. /\ list \in [Levels -> Seq(Frames)] /\ lowest_level \in Levels /\ NumFrames \in Nat
  BY MmuAssumption DEF PagingInv, TypeOK
<1>2. Len(list[lowest_level]) \in Nat /\ Len(list[lowest_level]) <= NumFrames
  BY <1>1, ListsBounded
<1>3. Rounds(lowest_level, k) \in 0 .. 6
  BY <1>1, RoundsType
<1> DEFINE r == Rounds(lowest_level, k)
           n == Len(list[lowest_level])
           x == NumFrames * r
<1> HIDE DEF r, n
<1>4. x \in Nat /\ x <= 6 * NumFrames
  BY <1>1, <1>3, Times DEF r
<1> HIDE DEF x
<1>5. x + n \in Nat /\ x + n <= 7 * NumFrames
  BY <1>1, <1>2, <1>4 DEF n
<1> QED BY <1>5 DEF Left, x, r, n

\* A touch does not prolong a stay beyond what was left of it.
LEMMA TouchLeft ==
    ASSUME PagingInv, OneList(list), NEW p \in Frames,
           list' = Promoted(list, lowest_level, p), lowest_level' = lowest_level,
           NEW f \in Frames, NEW k \in Levels, Holds(list', k, f)
    PROVE  \E m \in Levels : Holds(list, m, f) /\ Left(k)' <= Left(m)
<1>1. /\ list \in [Levels -> Seq(Frames)] /\ lowest_level \in Levels /\ NumFrames \in Nat
  BY MmuAssumption DEF PagingInv, TypeOK
<1> DEFINE low == lowest_level
           n == Len(list[low])
           n2 == Len(list'[low])
<1>2. /\ n \in Nat /\ n2 \in Nat /\ n2 <= n
      /\ Holds(list, k, f) \/ k = promote_list_num
  BY <1>1, PromotedHolds
<1>3. PICK m \in Levels : Holds(list, m, f) /\ (k = m \/ k = promote_list_num)
  <2>1. CASE Holds(list, k, f)
    BY <2>1
  <2>2. CASE k = promote_list_num
    BY <2>2 DEF OneList, Holds
  <2> QED BY <1>2, <2>1, <2>2
<1> DEFINE a == Rounds(low, k)
           b == Rounds(low, m)
           x == NumFrames * a
           y == NumFrames * b
<1>4. a \in 0 .. 6 /\ b \in 0 .. 6 /\ a <= b
  <2>1. a \in 0 .. 6 /\ b \in 0 .. 6 /\ Rounds(low, promote_list_num) <= b
    BY <1>1, RoundsType
  <2> QED BY <1>3, <2>1
<1>5. Left(m) = y + n /\ Left(k)' = x + n2
  BY DEF Left
<1> HIDE DEF a, b, n, n2
<1>6. x \in Nat /\ y \in Nat /\ x <= y
  BY <1>1, <1>4, Times
<1> HIDE DEF x, y
<1>7. Left(k)' <= Left(m)
  BY <1>2, <1>5, <1>6
<1> QED BY <1>3, <1>7

\* A load shortens the stay of every frame that it does not take.
LEMMA LoadLeft ==
    ASSUME AreaFits, PagingInv, OneList(list), NEW low \in Levels, SearchEnds(low),
           NEW bud \in Frames \cup {NoFrame},
           lowest_level' = low,
           list' = LET moved == Moved(list, PROMO_LEVEL_2(low), Head(list[low]))
                   IN IF bud # NoFrame THEN Promoted(moved, low, bud) ELSE moved,
           NEW f \in Frames, f # Head(list[low]), NEW k \in Levels, Holds(list', k, f)
    PROVE  \E m \in Levels : Holds(list, m, f) /\ Left(k)' + 1 <= Left(m)
<1> DEFINE vic == Head(list[low])
           up == PROMO_LEVEL_2(low)
           moved == Moved(list, up, vic)
           l == lowest_level
<1>1. /\ list \in [Levels -> Seq(Frames)] /\ l \in Levels /\ NumFrames \in Nat
  BY MmuAssumption DEF PagingInv, TypeOK
<1>2. up \in Levels /\ up # low
  BY DEF PROMO_LEVEL_2, Levels, NUM_LEVEL
<1>3. list[low] # <<>> /\ list[low] \in Seq(Frames) /\ vic \in Frames
  BY <1>1, VictimFacts DEF SearchEnds
<1>4. Holds(list, low, vic) /\ list' = IF bud # NoFrame THEN Promoted(moved, low, bud) ELSE moved
  <2> DEFINE s == list[low]
  <2>1. s \in Seq(Frames) /\ s # <<>>
    BY <1>3
  <2> HIDE DEF s
  <2>2. 1 \in 1 .. Len(s) /\ s[1] = Head(s)
    BY <2>1
  <2> QED BY <2>2 DEF Holds, s
<1> HIDE DEF vic, up
<1>5. moved \in [Levels -> Seq(Frames)] /\ OneList(moved)
  BY <1>1, <1>2, <1>3, MoveType, MoveOneList
<1>6. /\ Len(moved[low]) \in Nat /\ Len(list[low]) \in Nat /\ Len(moved[low]) = Len(list[low]) - 1
      /\ \A m \in Levels : Holds(moved, m, f) => Holds(list, m, f)
  <2>1. /\ Len(moved[low]) \in Nat /\ Len(list[low]) \in Nat /\ Len(moved[low]) = Len(list[low]) - 1
    BY <1>1, <1>2, <1>3, <1>4, MoveHolds, SMTT(30)
  <2>2. f # vic
    BY DEF vic
  <2> QED BY <1>1, <1>2, <1>3, <2>1, <2>2, MoveHolds
<1> HIDE DEF moved
<1> DEFINE n == Len(list[low])
           n2 == Len(list'[low])
<1>7. n2 \in Nat /\ n2 <= n - 1 /\ (Holds(moved, k, f) \/ k = promote_list_num)
  <2>1. CASE bud = NoFrame
    BY <1>4, <1>6, <2>1
  <2>2. CASE bud # NoFrame
    <3>1. bud \in Frames /\ list' = Promoted(moved, low, bud)
      BY <1>4, <2>2
    <3>2. Len(moved[low]) \in Nat /\ n2 \in Nat /\ n2 <= Len(moved[low])
      BY <1>5, <3>1, PromotedHolds
    <3>3. Holds(moved, k, f) \/ k = promote_list_num
      BY <1>5, <3>1, PromotedHolds
    <3> QED BY <1>6, <3>2, <3>3
  <2> QED BY <2>1, <2>2
<1>8. PICK m \in Levels : Holds(list, m, f) /\ (k = m \/ k = promote_list_num)
  <2>1. CASE Holds(moved, k, f)
    BY <1>6, <2>1
  <2>2. CASE k = promote_list_num
    BY <2>2 DEF OneList, Holds
  <2> QED BY <1>7, <2>1, <2>2
<1> DEFINE a == Rounds(low, k)
           b == Rounds(low, m)
           c == Rounds(l, m)
<1>9. a \in 0 .. 6 /\ b \in 0 .. 6 /\ c \in 0 .. 6 /\ a <= b
  <2>1. a \in 0 .. 6 /\ b \in 0 .. 6 /\ Rounds(low, promote_list_num) <= b
    BY RoundsType
  <2>2. c \in 0 .. 6
    BY <1>1, RoundsType
  <2> QED BY <1>8, <2>1, <2>2
\* The search for the victim does not pass a list that holds something.
<1>10. b <= c /\ (low # l => b + 1 <= c)
  <2>1. list[m] # <<>>
    <3> DEFINE s == list[m]
    <3>1. 1 .. Len(s) # {}
      BY <1>8 DEF Holds
    <3> HIDE DEF s
    <3>2. s # <<>>
      BY <3>1
    <3> QED BY <3>2 DEF s
  <2>2. ~((m - l) % NUM_LEVEL < (low - l) % NUM_LEVEL)
    BY <2>1 DEF SearchEnds
  <2>3. (m - l) % NUM_LEVEL >= (low - l) % NUM_LEVEL
    <3>1. (m - l) % NUM_LEVEL \in Int /\ (low - l) % NUM_LEVEL \in Int
      BY <1>1 DEF Levels, NUM_LEVEL
    <3> QED BY <2>2, <3>1
  <2> QED BY <1>1, <2>3, RoundsStep
<1>11. n <= NumFrames /\ n \in Nat
  BY <1>1, ListsBounded
<1> DEFINE x == NumFrames * a
           y == NumFrames * b
           z == NumFrames * c
           nl == Len(list[l])
<1>12. Left(m) = z + nl /\ Left(k)' = x + n2 /\ nl \in Nat
  BY <1>1 DEF Left
<1>13. low = l => nl = n
  OBVIOUS
<1> HIDE DEF a, b, c, n, n2, nl
<1>14. /\ x \in Nat /\ y \in Nat /\ z \in Nat /\ x <= y /\ y <= z
       /\ low # l => y + NumFrames <= z
  BY <1>1, <1>9, <1>10, Times
<1> HIDE DEF x, y, z
<1>15. Left(k)' + 1 <= Left(m)
  <2>1. CASE low = l
    <3>1. nl = n /\ n2 <= n - 1 /\ n2 \in Nat /\ n \in Nat
      BY <1>7, <1>11, <1>13, <2>1
    <3> HIDE DEF l
    <3> QED BY <1>12, <1>14, <3>1
  <2>2. CASE low # l
    BY <1>1, <1>7, <1>11, <1>12, <1>14, <2>2
  <2> QED BY <2>1, <2>2
<1> QED BY <1>8, <1>15

LeftFits == \A k \in Levels : Left(k) \in Nat /\ Left(k) <= 7 * NumFrames

ListsInv == PagingInv /\ OneList(list)

LEMMA LeftHere == ListsInv => LeftFits
BY LeftType DEF ListsInv, LeftFits

LEMMA LeftAfter ==
    ASSUME PagingInv', OneList(list')
    PROVE  \A k \in Levels : Left(k)' \in Nat /\ Left(k)' <= 7 * NumFrames
<1>2. ListsInv' => LeftFits'
  BY LeftHere, PTL
<1>3. ListsInv'
  BY DEF ListsInv
<1> QED BY <1>2, <1>3 DEF LeftFits

\* What a load does to the entries of other pages: at most it invalidates a half.
LEMMA LoadEntries ==
    ASSUME AreaFits, PagingInv, NEW v \in Pages, NEW low \in Levels, list[low] # <<>>,
           MapPage(v, v, v \div 2, v % 2, low, Head(list[low]))
    PROVE  /\ tlb'[v \div 2].asid = current_asid' /\ current_asid' = (current_asid + 1) % NumAsid
           /\ \A j \in 0 .. NumTlb - 1 : j # v \div 2 =>
                 /\ tlb'[j].asid = tlb[j].asid
                 /\ \A h \in 0 .. 1 : tlb'[j].lo[h].v =>
                       tlb[j].lo[h].v /\ tlb'[j].lo[h].pfn = tlb[j].lo[h].pfn
<1> DEFINE i == v \div 2
           vic == Head(list[low])
           m == page[vic].vpage_num
           e == page[vic].ent_lo_idx
           t == IF m # PSVA_FREE THEN invalid_tlb_entry(tlb, m, e) ELSE tlb
<1>1. tlb \in [0 .. NumTlb - 1 -> TlbEntry] /\ i \in 0 .. NumTlb - 1
  BY PageNumbers DEF PagingInv, TypeOK
<1>2. m # PSVA_FREE => m \div 2 \in 0 .. NumTlb - 1 /\ e \in 0 .. 1
  <2> SUFFICES ASSUME m # PSVA_FREE PROVE m \div 2 \in 0 .. NumTlb - 1 /\ e \in 0 .. 1
    OBVIOUS
  <2>1. m \in Pages /\ e = m % 2
    BY VictimFacts
  <2> HIDE DEF m, e
  <2> QED BY <2>1, PageNumbers
<1>3. /\ current_asid' = INCREASE_ASID(current_asid)
      /\ \E c : tlb' = [t EXCEPT ![i] = [vpn2 |-> i, asid |-> INCREASE_ASID(current_asid), lo |-> c]]
  BY DEF MapPage
<1> HIDE DEF e
<1>4. /\ DOMAIN t = 0 .. NumTlb - 1
      /\ \A j \in 0 .. NumTlb - 1 :
            /\ t[j].asid = tlb[j].asid
            /\ \A h \in 0 .. 1 : t[j].lo[h].v => tlb[j].lo[h].v /\ t[j].lo[h].pfn = tlb[j].lo[h].pfn
  <2>1. CASE m = PSVA_FREE
    BY <1>1, <2>1
  <2>2. CASE m # PSVA_FREE
    <3> DEFINE a == m \div 2
    <3>1. t = [tlb EXCEPT ![a] = TLB_SET_VALID(tlb[a], e, FALSE)]
      BY <2>2 DEF invalid_tlb_entry, tlb_index
    <3>2. a \in 0 .. NumTlb - 1 /\ e \in 0 .. 1
      BY <1>2, <2>2
    <3> HIDE DEF a, t
    <3>3. DOMAIN t = 0 .. NumTlb - 1 /\ \A j \in 0 .. NumTlb - 1 : j # a => t[j] = tlb[j]
      BY <1>1, <3>1
    <3>4. tlb[a].lo \in [0 .. 1 -> EntryLo]
      BY <1>1, <3>2 DEF TlbEntry
    <3>5. /\ t[a].asid = tlb[a].asid
          /\ t[a].lo = [tlb[a].lo EXCEPT ![e] = [v |-> FALSE, pfn |-> tlb[a].lo[e].pfn]]
      BY <1>1, <3>1, <3>2 DEF TLB_SET_VALID
    <3>6. \A h \in 0 .. 1 : t[a].lo[h].v => h # e
      BY <3>4, <3>5
    <3>7. \A h \in 0 .. 1 : h # e => t[a].lo[h] = tlb[a].lo[h]
      BY <3>4, <3>5
    <3> QED BY <3>3, <3>5, <3>6, <3>7
  <2> QED BY <2>1, <2>2
<1> HIDE DEF t, m, vic, i
<1>5. tlb'[i].asid = INCREASE_ASID(current_asid) /\ \A j \in 0 .. NumTlb - 1 : j # i => tlb'[j] = t[j]
  BY <1>1, <1>3, <1>4
<1>6. /\ tlb'[i].asid = current_asid' /\ current_asid' = (current_asid + 1) % NumAsid
  BY <1>3, <1>5 DEF INCREASE_ASID
<1>7. \A j \in 0 .. NumTlb - 1 : j # i =>
         /\ tlb'[j].asid = tlb[j].asid
         /\ \A h \in 0 .. 1 : tlb'[j].lo[h].v => tlb[j].lo[h].v /\ tlb'[j].lo[h].pfn = tlb[j].lo[h].pfn
  BY <1>4, <1>5
<1> QED BY <1>6, <1>7 DEF i

\* The entries of other pages grow one load older and have not come round.
LEMMA LoadAges ==
    ASSUME AreaFits, EnoughAsids, PagingInv, PagingInv', OneList(list), OneList(list'), AgeInv,
           NEW v \in Pages, mmu_tlb_miss_va_to_pa(v),
           NEW j \in 0 .. NumTlb - 1, j # v \div 2, NEW h \in 0 .. 1, tlb'[j].lo[h].v
    PROVE  /\ tlb'[j].asid # current_asid'
           /\ \A k \in Levels : Holds(list', k, tlb'[j].lo[h].pfn) => Age(j)' + Left(k)' <= 7 * NumFrames
<1> DEFINE i == v \div 2
           g == tlb[j].lo[h].pfn
           bud == tlb[i].lo[1 - (v % 2)].pfn
<1>1. PICK low \in Levels : SearchEnds(low) /\ MapPage(v, v, i, v % 2, low, Head(list[low]))
  BY VictimTaken
<1>2. list[low] # <<>>
  BY <1>1 DEF SearchEnds
<1>3. /\ current_asid' = (current_asid + 1) % NumAsid /\ tlb'[j].asid = tlb[j].asid
      /\ tlb[j].lo[h].v /\ tlb'[j].lo[h].pfn = g
  BY <1>1, <1>2, LoadEntries
<1>4. g \in Frames /\ g # Head(list[low])
  <2>1. g \in Frames /\ page'[g].vpage_num = 2 * j + h
    <3>1. tlb'[j].lo[h].pfn \in Frames /\ page'[tlb'[j].lo[h].pfn].vpage_num = 2 * j + h
      <4>1. TlbAgrees'
        BY DEF PagingInv
      <4> QED BY <4>1 DEF TlbAgrees
    <3> QED BY <1>3, <3>1
  <2>2. page'[Head(list[low])].vpage_num = v
    <3>1. Head(list[low]) \in Frames
      BY <1>2, VictimFacts
    <3>2. page \in [Frames -> [vpage_num : {PSVA_FREE} \cup 0 .. NumTlb - 1, ent_lo_idx : 0 .. 1]]
      BY DEF PagingInv, TypeOK
    <3> QED BY <1>1, <3>1, <3>2 DEF MapPage
  <2>3. (2 * j + h) \div 2 = j
    <3>1. j \in Nat
      BY MmuAssumption
    <3> QED BY <3>1, IndexHalf
  <2> QED BY <2>1, <2>2, <2>3
<1>5. bud \in Frames \cup {NoFrame}
  <2>1. i \in 0 .. NumTlb - 1 /\ 1 - (v % 2) \in 0 .. 1
    BY PageNumbers
  <2> HIDE DEF i
  <2>2. tlb[i].lo \in [0 .. 1 -> EntryLo]
    BY <2>1 DEF PagingInv, TypeOK, TlbEntry
  <2> QED BY <2>1, <2>2 DEF EntryLo
<1>6. /\ lowest_level' = low
      /\ list' = LET moved == Moved(list, PROMO_LEVEL_2(low), Head(list[low]))
                 IN IF bud # NoFrame THEN Promoted(moved, low, bud) ELSE moved
  BY <1>1 DEF MapPage
<1> HIDE DEF g, bud, i
<1>7. ASSUME NEW k \in Levels, Holds(list', k, g) PROVE Age(j) + 1 + Left(k)' <= 7 * NumFrames
  <2>1. PICK m \in Levels : Holds(list, m, g) /\ Left(k)' + 1 <= Left(m)
    BY <1>1, <1>4, <1>5, <1>6, <1>7, LoadLeft
  <2>2. Age(j) + Left(m) <= 7 * NumFrames
    BY <1>3, <2>1 DEF AgeInv, g
  <2>3. Age(j) \in Nat /\ Left(m) \in Nat /\ NumFrames \in Nat
    BY AgeType, LeftType, MmuAssumption
  <2>4. Left(k)' \in Nat
    BY LeftAfter
  <2> HIDE DEF Age, Left
  <2> QED BY <2>1, <2>2, <2>3, <2>4
<1>8. PICK k0 \in Levels : Holds(list', k0, g)
  BY <1>4 DEF OneList, Holds
<1>9. /\ tlb[j].asid \in 0 .. NumAsid - 1 /\ current_asid \in 0 .. NumAsid - 1 /\ NumAsid \in Nat \ {0}
      /\ Age(j) \in 0 .. NumAsid - 1
  BY AgeType
<1>10. Age(j) + 1 < NumAsid
  <2>1. Age(j) + 1 + Left(k0)' <= 7 * NumFrames
    BY <1>7, <1>8
  <2>2. Left(k0)' \in Nat
    BY LeftAfter
  <2> HIDE DEF Age, Left
  <2> QED BY <1>9, <2>1, <2>2, MmuAssumption DEF EnoughAsids
<1>11. Age(j)' = Age(j) + 1
  <2> DEFINE c == current_asid
             a == tlb[j].asid
             c2 == (c + 1) % NumAsid
             d == IF c >= a THEN c - a ELSE c - a + NumAsid
             d2 == IF c2 >= a THEN c2 - a ELSE c2 - a + NumAsid
  <2>1. d + 1 < NumAsid => d2 = d + 1
    BY <1>9, NextAsid
  <2>2. Age(j) = d /\ Age(j)' = d2
    BY <1>3 DEF Age
  <2> QED BY <1>10, <2>1, <2>2
<1>12. tlb'[j].asid # current_asid'
  <2>1. Age(j)' # 0
    BY <1>9, <1>11
  <2>2. tlb'[j].asid = current_asid' => Age(j)' = 0
    <3>1. tlb'[j].asid \in Int
      BY <1>3, <1>9
    <3> QED BY <3>1 DEF Age
  <2> QED BY <2>1, <2>2
<1>13. \A k \in Levels : Holds(list', k, g) => Age(j)' + Left(k)' <= 7 * NumFrames
  BY <1>7, <1>11
<1> QED BY <1>3, <1>12, <1>13

LEMMA AgeStep ==
    ASSUME AreaFits, EnoughAsids, PagingInv, OneList(list), AgeInv, [Next]_vars
    PROVE  AgeInv'
<1>0. PagingInv' /\ OneList(list')
  BY StepInv DEF PagingInv, ListsIntact, Intact
<1>a. \A k \in Levels : Left(k)' \in Nat /\ Left(k)' <= 7 * NumFrames
  BY <1>0, LeftAfter
<1>b. NumAsid \in Nat \ {0} /\ NumFrames \in Nat
  BY MmuAssumption
<1>c. \A i \in 0 .. NumTlb - 1 : tlb'[i].asid = current_asid' => Age(i)' = 0
  <2>1. \A i \in 0 .. NumTlb - 1 : tlb'[i].asid \in Int
    <3>1. tlb' \in [0 .. NumTlb - 1 -> TlbEntry]
      BY <1>0 DEF PagingInv, TypeOK
    <3>2. \A i \in 0 .. NumTlb - 1 : tlb'[i].asid \in 0 .. NumAsid - 1
      BY <3>1 DEF TlbEntry
    <3> QED BY <1>b, <3>2
  <2> QED BY <2>1 DEF Age
<1>1. CASE UNCHANGED mmuVars
  BY <1>1 DEF mmuVars, AgeInv, Age, Left, Holds
<1>2. ASSUME NEW v \in Pages, mmu_tlb_miss_check_first(v) PROVE AgeInv'
  <2> DEFINE i == v \div 2
             p == tlb[i].lo[v % 2].pfn
  <2>1. /\ i \in 0 .. NumTlb - 1 /\ v % 2 \in 0 .. 1 /\ tlb[i].lo[v % 2].v
        /\ tlb' = [tlb EXCEPT ![i] = [vpn2 |-> i, asid |-> current_asid, lo |-> tlb[i].lo]]
        /\ list' = Promoted(list, lowest_level, p)
        /\ lowest_level' = lowest_level /\ current_asid' = current_asid
    BY <1>2, PageNumbers DEF mmu_tlb_miss_check_first, Refreshed
  <2>2. p \in Frames
    BY <2>1 DEF PagingInv, TlbAgrees
  <2>3. tlb \in [0 .. NumTlb - 1 -> TlbEntry]
    BY DEF PagingInv, TypeOK
  <2> HIDE DEF p, i
  <2>4. /\ tlb'[i].asid = current_asid' /\ \A j \in 0 .. NumTlb - 1 : tlb'[j].lo = tlb[j].lo
        /\ \A j \in 0 .. NumTlb - 1 : j # i => tlb'[j] = tlb[j]
    BY <2>1, <2>3
  <2>5. ASSUME NEW j \in 0 .. NumTlb - 1, NEW h \in 0 .. 1, NEW k \in Levels,
               tlb'[j].lo[h].v, Holds(list', k, tlb'[j].lo[h].pfn)
        PROVE  Age(j)' + Left(k)' <= 7 * NumFrames
    <3>1. CASE j = i
      <4>1. Age(j)' = 0
        BY <1>c, <2>4, <3>1
      <4> HIDE DEF Age, Left
      <4> QED BY <1>a, <1>b, <4>1
    <3>2. CASE j # i
      <4> DEFINE g == tlb[j].lo[h].pfn
      <4>1. tlb[j].lo[h].v /\ Holds(list', k, g) /\ g \in Frames
        BY <2>4, <2>5 DEF PagingInv, TlbAgrees
      <4>2. Age(j)' = Age(j)
        BY <2>1, <2>4, <3>2 DEF Age
      <4> HIDE DEF g
      <4>3. PICK m \in Levels : Holds(list, m, g) /\ Left(k)' <= Left(m)
        BY <2>1, <2>2, <4>1, TouchLeft
      <4>4. Age(j) + Left(m) <= 7 * NumFrames
        BY <4>1, <4>3 DEF AgeInv, g
      <4>5. Age(j) \in Nat /\ Left(m) \in Nat /\ Left(k)' \in Nat
        BY <1>a, AgeType, LeftType
      <4> HIDE DEF Age, Left
      <4> QED BY <1>b, <4>2, <4>3, <4>4, <4>5
    <3> QED BY <3>1, <3>2
  <2> QED BY <2>5 DEF AgeInv
<1>3. ASSUME NEW v \in Pages, mmu_tlb_miss_va_to_pa(v) PROVE AgeInv'
  <2>1. ASSUME NEW j \in 0 .. NumTlb - 1, NEW h \in 0 .. 1, NEW k \in Levels,
               tlb'[j].lo[h].v, Holds(list', k, tlb'[j].lo[h].pfn)
        PROVE  Age(j)' + Left(k)' <= 7 * NumFrames
    <3>1. CASE j = v \div 2
      <4>1. PICK low \in Levels : SearchEnds(low) /\ MapPage(v, v, v \div 2, v % 2, low, Head(list[low]))
        BY <1>3, VictimTaken
      <4>2. tlb'[j].asid = current_asid'
        BY <3>1, <4>1, LoadEntries DEF SearchEnds
      <4>3. Age(j)' = 0
        BY <1>c, <4>2
      <4> HIDE DEF Age, Left
      <4> QED BY <1>a, <1>b, <4>3
    <3>2. CASE j # v \div 2
      BY <1>0, <1>3, <2>1, <3>2, LoadAges
    <3> QED BY <3>1, <3>2
  <2> QED BY <2>1 DEF AgeInv
<1>4. \/ UNCHANGED mmuVars
      \/ \E v \in Pages : mmu_tlb_miss_check_first(v) \/ mmu_tlb_miss_va_to_pa(v)
  BY DEF Next, Issue, Handle, Access, LoadFails, mmuVars, vars
<1> QED BY <1>1, <1>2, <1>3, <1>4

\* "all TLB entries will need to be refill": after a load no other entry
\* translates, however long the preloader runs and however the accesses fall, if
\* there are more ASIDs than seven times the frames (the released image has 64
\* for 4): promotions, those of a stale other half included, only ever lead to
\* one level, and each level is emptied before the next is served, so no page
\* stays resident until the ASID of its entry comes round.
THEOREM LoadAlwaysForcesRefill == AreaFits /\ EnoughAsids => (Spec => LoadForcesRefill)
<1> SUFFICES ASSUME AreaFits, EnoughAsids PROVE Spec => LoadForcesRefill
  OBVIOUS
<1> DEFINE I == PagingInv /\ AgeInv
           Forced == \A v \in Pages : mmu_tlb_miss_va_to_pa(v) =>
                        \A w \in Pages : w \div 2 # v \div 2 => ~\E f \in Frames : Translates(w, f)'
<1>1. Init => I
  <2> SUFFICES ASSUME Init PROVE I
    OBVIOUS
  <2>1. PagingInv
    BY InitInv
  <2>2. AgeInv
    BY DEF Init, AgeInv, Invalid
  <2> QED BY <2>1, <2>2
<1>2. I /\ [Next]_vars => I'
  BY StepInv, AgeStep DEF PagingInv, ListsIntact, Intact
<1>3. I /\ [Next]_vars => [Forced]_vars
  <2> SUFFICES ASSUME I, [Next]_vars, NEW v \in Pages, mmu_tlb_miss_va_to_pa(v),
                      NEW w \in Pages, w \div 2 # v \div 2, NEW f \in Frames, Translates(w, f)'
               PROVE  FALSE
    OBVIOUS
  <2>1. PagingInv' /\ OneList(list) /\ OneList(list')
    BY StepInv DEF PagingInv, ListsIntact, Intact
  <2>2. PICK j \in 0 .. NumTlb - 1 :
          tlb'[j].vpn2 = w \div 2 /\ tlb'[j].asid = current_asid' /\ tlb'[j].lo[ENTRYLO_IDX(w)].v
    BY DEF Translates, Matching
  <2>3. j = w \div 2 /\ ENTRYLO_IDX(w) \in 0 .. 1
    BY <2>1, <2>2, PageNumbers, ZenonT(60) DEF PagingInv, TlbAgrees
  <2>4. tlb'[j].asid # current_asid'
    BY <2>1, <2>2, <2>3, LoadAges
  <2> QED BY <2>2, <2>4
<1>4. Spec => [][Forced]_vars
  BY <1>1, <1>2, <1>3, PTL DEF Spec
<1> QED BY <1>4 DEF LoadForcesRefill
=============================================================================
