---------------------------- MODULE SpiNandProofs ----------------------------
(***************************************************************************)
(* Proofs about the SPI NAND driver and its chips, for one or two chip     *)
(* selects, single and stacked dies, every geometry, and any number of     *)
(* operations, failures, resets and power failures.                        *)
(***************************************************************************)
EXTENDS SpiNand, SequenceTheorems, TLAPS

-----------------------------------------------------------------------------
(* Types.                                                                  *)

Kinds == {"WRITE_ENABLE", "PAGE_DATA_READ", "PROGRAM_EXECUTE", "BLOCK_ERASE", "UNPROTECT",
          "ODE_ON", "ODE_OFF", "RDID", "select", "PROGRAM_LOAD", "READ", "wait", "status",
          "RESET", "load_uboot"}

\* What the frames carry: a row, a die, or a plane.
FrameOf == [kind : Kinds, cs : Cs, x : Nat, d : Contents]
FrameSet ==
    {f \in FrameOf :
        /\ f.kind \in {"PAGE_DATA_READ", "PROGRAM_EXECUTE", "BLOCK_ERASE"} => f.x \in Rows
        /\ f.kind = "select" => f.x \in Dies
        /\ f.kind \in {"PROGRAM_LOAD", "READ"} => f.x \in Planes}

JobKinds == {"none", "read", "program", "erase", "reset"}
Chip == [oip : BOOLEAN, wel : BOOLEAN, fail : BOOLEAN, prot : BOOLEAN, ode : BOOLEAN,
         cache : [Planes -> Contents], job : [kind : JobKinds, row : Rows]]

TypeInv ==
    /\ array \in [Units -> [Rows -> Contents]]
    /\ chip \in [Units -> Chip]
    /\ \A u \in Units : chip[u].oip <=> chip[u].job # NoJob
    /\ sel \in [Cs -> Dies]
    /\ open \subseteq Cs
    /\ pc \in {"boot", "idle", "run"}
    /\ pc = "idle" <=> todo = <<>>
    /\ todo \in Seq(FrameSet)
    /\ pc = "run" => op \in PF!Ops
    /\ ret \in Contents \cup {"none", "OK", "fail"}

-----------------------------------------------------------------------------
(* Which dies can be busy.                                                 *)

Jobs == {"PAGE_DATA_READ", "PROGRAM_EXECUTE", "BLOCK_ERASE", "RESET"}
Patient == {"wait", "RESET", "load_uboot"}

\* A frame that sets a chip to work is followed by a wait for this chip.
WaitsAfterJob(q) ==
    \A n \in 1 .. Len(q) : q[n].kind \in Jobs =>
        n < Len(q) /\ q[n + 1].kind = "wait" /\ q[n + 1].cs = q[n].cs

\* The next frame for chip c is one that may be sent while the chip is busy.
MetPatiently(q, c) ==
    \E n \in 1 .. Len(q) :
        /\ q[n].cs = c /\ q[n].kind \in Patient
        /\ \A k \in 1 .. n - 1 : q[k].cs # c

\* A busy die is the selected one of its chip, and the frames that are left begin
\* with one that may meet it so.
BusyInv ==
    /\ WaitsAfterJob(todo)
    /\ \A u \in Units : chip[u].oip => u[2] = sel[u[1]] /\ MetPatiently(todo, u[1])

-----------------------------------------------------------------------------
(* The settings of the dies.                                               *)

Unprotect == {"UNPROTECT"}
Ode == {"ODE_ON", "ODE_OFF"}

NoSelect(q, c, i, j) == \A k \in i .. j : ~(q[k].kind = "select" /\ q[k].cs = c)

\* Among the frames q there is one of kind K that reaches die d of chip c, when
\* die s is selected now.
Reaches(q, c, d, s, K) ==
    \E n \in 1 .. Len(q) :
        /\ q[n].kind \in K /\ q[n].cs = c
        /\ \/ s = d /\ NoSelect(q, c, 1, n)
           \/ /\ d = 1
              /\ \E j \in 1 .. n : /\ q[j].kind = "select" /\ q[j].cs = c /\ q[j].x = 1
                                   /\ NoSelect(q, c, j + 1, n)

\* After a reset the die that was reset gets its settings again.
SetAfterReset(q, K) ==
    \A m \in 1 .. Len(q) : q[m].kind = "RESET" =>
        \E n \in m + 1 .. Len(q) :
            q[n].kind \in K /\ q[n].cs = q[m].cs /\ NoSelect(q, q[m].cs, 1, n)

\* A die that is protected will be reached by a frame that ends this.
ProtInv ==
    /\ SetAfterReset(todo, Unprotect)
    /\ \A u \in Units : chip[u].prot => Reaches(todo, u[1], u[2], sel[u[1]], Unprotect)

-----------------------------------------------------------------------------
(* The frames of a start.                                                  *)

LEMMA SpiFacts ==
    /\ Cs \in {{0}, {0, 1}} /\ Dies \in {{0}, {0, 1}}
    /\ 0 \in Cs /\ 0 \in Dies /\ Cs \subseteq {0, 1} /\ Dies \subseteq {0, 1}
    /\ (Stacked <=> 1 \in Dies)
    /\ BlocksPerDie \in Nat \ {0} /\ PagesPerBlock \in Nat \ {0}
    /\ PagesPerDie \in Nat \ {0}
    /\ 0 \in Rows /\ Blank \in Contents /\ Junk \in Contents
<1>1. /\ BlocksPerDie \in Nat \ {0} /\ PagesPerBlock \in Nat \ {0}
      /\ Cs \in {{0}, {0, 1}} /\ Dies \in {{0}, {0, 1}}
  BY SpiNandAssumption
<1>2. PagesPerDie \in Nat \ {0}
  BY <1>1 DEF PagesPerDie
<1> QED BY <1>1, <1>2 DEF Stacked, Rows, Contents

LEMMA ShortIs ==
    ASSUME NEW kind, NEW c, NEW x, NEW d
    PROVE  /\ Frame(kind, c, x, d).kind = kind /\ Frame(kind, c, x, d).cs = c
           /\ Frame(kind, c, x, d).x = x /\ Frame(kind, c, x, d).d = d
           /\ Short(kind, c).kind = kind /\ Short(kind, c).cs = c
BY DEF Frame, Short

LEMMA FrameTyped ==
    /\ \A kind \in Kinds, c \in Cs :
          kind \notin {"PAGE_DATA_READ", "PROGRAM_EXECUTE", "BLOCK_ERASE"} => Short(kind, c) \in FrameSet
    /\ \A c \in Cs, x \in Dies : Frame("select", c, x, Blank) \in FrameSet
    /\ \A kind \in {"PAGE_DATA_READ", "PROGRAM_EXECUTE", "BLOCK_ERASE"}, c \in Cs, x \in Rows :
          Frame(kind, c, x, Blank) \in FrameSet
    /\ \A kind \in {"READ", "PROGRAM_LOAD"}, c \in Cs, x \in Planes, d \in Contents :
          Frame(kind, c, x, d) \in FrameSet
<1>1. /\ \A x \in Dies : x \in Nat
      /\ \A x \in Rows : x \in Nat
      /\ \A x \in Planes : x \in Nat
      /\ 0 \in Nat /\ 0 \in Rows /\ 0 \in Planes /\ 0 \in Dies /\ Blank \in Contents
  BY SpiFacts DEF Rows, Planes
<1>2. ASSUME NEW kind \in Kinds, NEW c \in Cs, NEW x \in Nat, NEW d \in Contents
      PROVE  Frame(kind, c, x, d) \in FrameOf
  BY DEF Frame, FrameOf
<1>3. ASSUME NEW kind \in Kinds, NEW c \in Cs,
             kind \notin {"PAGE_DATA_READ", "PROGRAM_EXECUTE", "BLOCK_ERASE"}
      PROVE  Short(kind, c) \in FrameSet
  BY <1>1, <1>2, <1>3, ShortIs DEF FrameSet, Short
<1>4. ASSUME NEW c \in Cs, NEW x \in Dies PROVE Frame("select", c, x, Blank) \in FrameSet
  <2>1. "select" \in Kinds
    BY DEF Kinds
  <2> QED BY <1>1, <1>2, <2>1, ShortIs DEF FrameSet
<1>5. ASSUME NEW kind \in {"PAGE_DATA_READ", "PROGRAM_EXECUTE", "BLOCK_ERASE"}, NEW c \in Cs,
             NEW x \in Rows
      PROVE  Frame(kind, c, x, Blank) \in FrameSet
  <2>1. kind \in Kinds
    BY DEF Kinds
  <2> QED BY <1>1, <1>2, <2>1, ShortIs DEF FrameSet
<1>6. ASSUME NEW kind \in {"READ", "PROGRAM_LOAD"}, NEW c \in Cs, NEW x \in Planes,
             NEW d \in Contents
      PROVE  Frame(kind, c, x, d) \in FrameSet
  <2>1. kind \in Kinds
    BY DEF Kinds
  <2> QED BY <1>1, <1>2, <2>1, ShortIs DEF FrameSet
<1> QED BY <1>3, <1>4, <1>5, <1>6

SettingsLen == IF Stacked THEN 4 ELSE 0

\* The settings of both dies of a chip, as a list.
LEMMA DieSettings ==
    ASSUME NEW c \in Cs
    PROVE  /\ stack2die_specific_setting(c) \in Seq(FrameSet)
           /\ Len(stack2die_specific_setting(c)) = SettingsLen
           /\ Stacked =>
                /\ stack2die_specific_setting(c)[1] = Frame("select", c, 1, Blank)
                /\ stack2die_specific_setting(c)[2] = Short("UNPROTECT", c)
                /\ stack2die_specific_setting(c)[3] = Short("ODE_OFF", c)
                /\ stack2die_specific_setting(c)[4] = Frame("select", c, 0, Blank)
<1>1. CASE ~Stacked
  BY <1>1 DEF stack2die_specific_setting, SettingsLen
<1>2. CASE Stacked
  <2>1. "UNPROTECT" \in Kinds /\ "ODE_OFF" \in Kinds /\ 1 \in Dies /\ 0 \in Dies
    BY <1>2, SpiFacts DEF Kinds
  <2>2. /\ Frame("select", c, 1, Blank) \in FrameSet /\ Frame("select", c, 0, Blank) \in FrameSet
        /\ Short("UNPROTECT", c) \in FrameSet /\ Short("ODE_OFF", c) \in FrameSet
    BY <2>1, FrameTyped
  <2> DEFINE p == <<Frame("select", c, 1, Blank)>> \o <<Short("UNPROTECT", c)>>
             q == <<Short("ODE_OFF", c)>>
             r == <<Frame("select", c, 0, Blank)>>
  <2>3. stack2die_specific_setting(c) = (p \o q) \o r
    BY <1>2 DEF stack2die_specific_setting, nsc_block_unprotect, Ecc
  <2>4. p \in Seq(FrameSet) /\ q \in Seq(FrameSet) /\ r \in Seq(FrameSet)
    <3>1. /\ <<Frame("select", c, 1, Blank)>> \in Seq(FrameSet)
          /\ <<Short("UNPROTECT", c)>> \in Seq(FrameSet)
          /\ q \in Seq(FrameSet) /\ r \in Seq(FrameSet)
      BY <2>2
    <3>2. p \in Seq(FrameSet)
      BY <3>1, ConcatProperties
    <3> QED BY <3>1, <3>2
  <2>5. (p \o q) \in Seq(FrameSet)
    BY <2>4, ConcatProperties
  <2>6. (p \o q) \o r \in Seq(FrameSet)
    BY <2>4, <2>5, ConcatProperties
  <2>7. /\ Len((p \o q) \o r) = 4 /\ ((p \o q) \o r)[1] = Frame("select", c, 1, Blank)
        /\ ((p \o q) \o r)[2] = Short("UNPROTECT", c)
        /\ ((p \o q) \o r)[3] = Short("ODE_OFF", c)
        /\ ((p \o q) \o r)[4] = Frame("select", c, 0, Blank)
    OBVIOUS
  <2> QED BY <1>2, <2>3, <2>6, <2>7 DEF SettingsLen
<1> QED BY <1>1, <1>2

OdeKind(ode) == IF ode THEN "ODE_ON" ELSE "ODE_OFF"

\* Frames h, two settings for the die that is selected, and then those of the
\* second die.
WithSettings(h, c, x, y) ==
    h \o <<Short(x, c)>> \o <<Short(y, c)>> \o stack2die_specific_setting(c)

\* What such a list q consists of.
SettingsOf(q, h, c, x, y) ==
    /\ q \in Seq(FrameSet)
    /\ Len(q) = Len(h) + 2 + SettingsLen
    /\ \A k \in 1 .. Len(h) : q[k] = h[k]
    /\ q[Len(h) + 1] = Short(x, c)
    /\ q[Len(h) + 2] = Short(y, c)
    /\ Stacked => /\ q[Len(h) + 3] = Frame("select", c, 1, Blank)
                  /\ q[Len(h) + 4] = Short("UNPROTECT", c)
                  /\ q[Len(h) + 5] = Short("ODE_OFF", c)
                  /\ q[Len(h) + 6] = Frame("select", c, 0, Blank)

LEMMA ChipScript ==
    ASSUME NEW c \in Cs, NEW x \in {"UNPROTECT", "ODE_ON", "ODE_OFF"},
           NEW y \in {"UNPROTECT", "ODE_ON", "ODE_OFF"}, NEW h \in Seq(FrameSet)
    PROVE  SettingsOf(WithSettings(h, c, x, y), h, c, x, y)
<1> DEFINE a == <<Short(x, c)>>
           b == <<Short(y, c)>>
           s == a \o b
           t == stack2die_specific_setting(c)
           p == h \o s
           n == Len(h)
           q == WithSettings(h, c, x, y)
<1>s. a \in Seq(FrameSet) /\ b \in Seq(FrameSet)
  <2>1. x \in Kinds /\ y \in Kinds
    BY DEF Kinds
  <2>2. Short(x, c) \in FrameSet /\ Short(y, c) \in FrameSet
    BY <2>1, FrameTyped
  <2> QED BY <2>2
<1>1. /\ s \in Seq(FrameSet) /\ Len(s) = 2
      /\ s[1] = Short(x, c) /\ s[2] = Short(y, c)
  <2>1. s \in Seq(FrameSet)
    BY <1>s, ConcatProperties
  <2>2. Len(s) = 2 /\ s[1] = Short(x, c) /\ s[2] = Short(y, c)
    OBVIOUS
  <2> QED BY <2>1, <2>2
<1>2. t \in Seq(FrameSet) /\ Len(t) = SettingsLen /\ SettingsLen \in {0, 4}
  BY DieSettings DEF SettingsLen
<1>0. q = p \o t
  <2>1. q = ((h \o a) \o b) \o t
    BY DEF WithSettings
  <2>2. (h \o a) \o b = h \o s
    <3>1. a \in Seq(FrameSet) /\ b \in Seq(FrameSet) /\ h \in Seq(FrameSet)
      BY <1>s
    <3> HIDE DEF a, b
    <3> QED BY <3>1, ConcatAssociative
  <2> QED BY <2>1, <2>2
<1> HIDE DEF s, t
<1>c. s \in Seq(FrameSet) /\ t \in Seq(FrameSet)
  BY <1>1, <1>2
<1>a. /\ p \in Seq(FrameSet) /\ Len(p) = n + Len(s) /\ n \in Nat
      /\ \A k \in 1 .. n : p[k] = h[k]
      /\ \A k \in 1 .. Len(s) : p[n + k] = s[k]
  <2>1. p \in Seq(FrameSet) /\ Len(p) = n + Len(s) /\ n \in Nat
    BY <1>c
  <2>2. \A k \in 1 .. n : p[k] = h[k]
    BY <1>c
  <2>3. \A k \in 1 .. Len(s) : p[n + k] = s[k]
    BY <1>c
  <2> QED BY <2>1, <2>2, <2>3
<1> HIDE DEF p
<1>b. /\ p \o t \in Seq(FrameSet) /\ Len(p \o t) = Len(p) + Len(t)
      /\ \A k \in 1 .. Len(p) : (p \o t)[k] = p[k]
      /\ \A k \in 1 .. Len(t) : (p \o t)[Len(p) + k] = t[k]
  <2>0. p \in Seq(FrameSet)
    BY <1>a
  <2>1. p \o t \in Seq(FrameSet) /\ Len(p \o t) = Len(p) + Len(t)
    BY <1>c, <2>0
  <2>2. \A k \in 1 .. Len(p) : (p \o t)[k] = p[k]
    BY <1>a, <1>c
  <2>3. \A k \in 1 .. Len(t) : (p \o t)[Len(p) + k] = t[k]
    BY <1>a, <1>c
  <2> QED BY <2>1, <2>2, <2>3
<1> HIDE DEF n, q
<1>3. /\ p \in Seq(FrameSet) /\ Len(p) = n + 2 /\ n \in Nat
      /\ \A k \in 1 .. n : p[k] = h[k]
      /\ \A k \in 1 .. 2 : p[n + k] = s[k]
  BY <1>1, <1>a
<1>5. /\ q \in Seq(FrameSet) /\ Len(q) = (n + 2) + SettingsLen
      /\ \A k \in 1 .. n + 2 : q[k] = p[k]
      /\ \A k \in 1 .. SettingsLen : q[(n + 2) + k] = t[k]
  BY <1>0, <1>2, <1>3, <1>b
<1>6. \A k \in 1 .. n : q[k] = h[k]
  BY <1>3, <1>5
<1>7. q[n + 1] = s[1] /\ q[n + 2] = s[2]
  <2>1. n + 1 \in 1 .. n + 2 /\ n + 2 \in 1 .. n + 2 /\ 1 \in 1 .. 2 /\ 2 \in 1 .. 2
    BY <1>3
  <2> QED BY <1>3, <1>5, <2>1
<1>8. ASSUME Stacked
      PROVE  q[n + 3] = t[1] /\ q[n + 4] = t[2] /\ q[n + 5] = t[3] /\ q[n + 6] = t[4]
  <2>1. SettingsLen = 4 /\ 1 \in 1 .. 4 /\ 2 \in 1 .. 4 /\ 3 \in 1 .. 4 /\ 4 \in 1 .. 4
    BY <1>8 DEF SettingsLen
  <2>2. n + 3 = (n + 2) + 1 /\ n + 4 = (n + 2) + 2 /\ n + 5 = (n + 2) + 3 /\ n + 6 = (n + 2) + 4
    BY <1>3
  <2> QED BY <1>5, <2>1, <2>2
<1>9. Stacked => /\ t[1] = Frame("select", c, 1, Blank)
                 /\ t[2] = Short("UNPROTECT", c)
                 /\ t[3] = Short("ODE_OFF", c)
                 /\ t[4] = Frame("select", c, 0, Blank)
  BY DieSettings DEF t
<1>10. /\ q \in Seq(FrameSet) /\ Len(q) = n + 2 + SettingsLen
       /\ q[n + 1] = Short(x, c)
       /\ q[n + 2] = Short(y, c)
       /\ Stacked => /\ q[n + 3] = Frame("select", c, 1, Blank)
                     /\ q[n + 4] = Short("UNPROTECT", c)
                     /\ q[n + 5] = Short("ODE_OFF", c)
                     /\ q[n + 6] = Frame("select", c, 0, Blank)
  BY <1>1, <1>5, <1>7, <1>8, <1>9
<1> QED BY <1>6, <1>10 DEF SettingsOf, n, q

\* What is sent to a chip at a start, by the place in the list q: n frames of which
\* the one before the last is the reset, then the settings.
ScriptOf(q, c, n, x, y) ==
    /\ q \in Seq(FrameSet)
    /\ Len(q) = n + 2 + SettingsLen
    /\ n \in {3, 4}
    /\ n = 3 => q[1].kind = "RESET" /\ q[2].kind = "wait" /\ q[3].kind = "RDID"
    /\ n = 4 => q[1].kind = "load_uboot" /\ q[2].kind = "RDID" /\ q[3].kind = "RESET" /\ q[4].kind = "wait"
    /\ q[n + 1].kind = x /\ q[n + 2].kind = y
    /\ Stacked => /\ q[n + 3].kind = "select" /\ q[n + 3].x = 1
                  /\ q[n + 4].kind = "UNPROTECT" /\ q[n + 5].kind = "ODE_OFF"
                  /\ q[n + 6].kind = "select" /\ q[n + 6].x = 0
    /\ \A k \in 1 .. Len(q) : q[k].cs = c

LEMMA ProbeScript == ScriptOf(probe_spi_nand_chip, 0, 3, OdeKind(OdeProbe), "UNPROTECT")
<1> DEFINE h == <<Short("RESET", 0), Short("wait", 0), Short("RDID", 0)>>
           g == nsc_reset_spi_nand_chip(0) \o <<Short("RDID", 0)>>
           q == probe_spi_nand_chip
<1>1. 0 \in Cs /\ {"RESET", "wait", "RDID"} \subseteq Kinds /\ OdeProbe \in BOOLEAN
  BY SpiFacts, SpiNandAssumption DEF Kinds
<1>2. /\ Short("RESET", 0) \in FrameSet /\ Short("wait", 0) \in FrameSet
      /\ Short("RDID", 0) \in FrameSet
  BY <1>1, FrameTyped
<1>3. /\ Len(g) = 3 /\ g[1] = Short("RESET", 0) /\ g[2] = Short("wait", 0) /\ g[3] = Short("RDID", 0)
  BY DEF nsc_reset_spi_nand_chip
<1>4. g \in Seq(FrameSet)
  <2>1. nsc_reset_spi_nand_chip(0) \in Seq(FrameSet) /\ <<Short("RDID", 0)>> \in Seq(FrameSet)
    BY <1>2 DEF nsc_reset_spi_nand_chip
  <2> QED BY <2>1, ConcatProperties
<1>5. q = WithSettings(g, 0, OdeKind(OdeProbe), "UNPROTECT")
  BY DEF probe_spi_nand_chip, WithSettings, Ecc, nsc_block_unprotect, OdeKind
<1> DEFINE n == Len(g)
<1> HIDE DEF g, q, n
<1>6. /\ q \in Seq(FrameSet)
      /\ Len(q) = n + 2 + SettingsLen
      /\ \A k \in 1 .. n : q[k] = g[k]
      /\ q[n + 1] = Short(OdeKind(OdeProbe), 0)
      /\ q[n + 2] = Short("UNPROTECT", 0)
      /\ Stacked => /\ q[n + 3] = Frame("select", 0, 1, Blank)
                    /\ q[n + 4] = Short("UNPROTECT", 0)
                    /\ q[n + 5] = Short("ODE_OFF", 0)
                    /\ q[n + 6] = Frame("select", 0, 0, Blank)
  <2>1. 0 \in Cs /\ g \in Seq(FrameSet) /\ OdeKind(OdeProbe) \in {"UNPROTECT", "ODE_ON", "ODE_OFF"}
    BY <1>1, <1>4 DEF OdeKind
  <2>2. SettingsOf(WithSettings(g, 0, OdeKind(OdeProbe), "UNPROTECT"), g, 0, OdeKind(OdeProbe), "UNPROTECT")
    BY <2>1, ChipScript
  <2>3. SettingsOf(q, g, 0, OdeKind(OdeProbe), "UNPROTECT")
    BY <1>5, <2>2
  <2> QED BY <2>3 DEF SettingsOf, n
<1>n. n = 3
  BY <1>3 DEF n
<1>7. q[1].kind = "RESET" /\ q[2].kind = "wait" /\ q[3].kind = "RDID"
      /\ q[1].cs = 0 /\ q[2].cs = 0 /\ q[3].cs = 0
  BY <1>3, <1>6, <1>n DEF Short, Frame
<1>8. q[4].kind = OdeKind(OdeProbe) /\ q[5].kind = "UNPROTECT" /\ q[4].cs = 0 /\ q[5].cs = 0
  BY <1>6, <1>n DEF Short, Frame
<1>9. Stacked => /\ q[6].kind = "select" /\ q[6].x = 1 /\ q[7].kind = "UNPROTECT"
                 /\ q[8].kind = "ODE_OFF" /\ q[9].kind = "select" /\ q[9].x = 0
                 /\ q[6].cs = 0 /\ q[7].cs = 0 /\ q[8].cs = 0 /\ q[9].cs = 0
  BY <1>6, <1>n DEF Short, Frame
<1>10. \A k \in 1 .. Len(q) : q[k].cs = 0
  <2>1. CASE Stacked
    <3>1. \A k \in 1 .. Len(q) : k \in {1, 2, 3, 4, 5, 6, 7, 8, 9}
      BY <1>6, <1>n, <2>1 DEF SettingsLen
    <3> QED BY <1>7, <1>8, <1>9, <2>1, <3>1
  <2>2. CASE ~Stacked
    <3>1. \A k \in 1 .. Len(q) : k \in {1, 2, 3, 4, 5}
      BY <1>6, <1>n, <2>2 DEF SettingsLen
    <3> QED BY <1>7, <1>8, <3>1
  <2> QED BY <2>1, <2>2
<1> QED BY <1>6, <1>n, <1>7, <1>8, <1>9, <1>10 DEF ScriptOf, q

LEMMA RestScript ==
    /\ 1 \in Cs => ScriptOf(init_rest, 1, 4, "UNPROTECT", OdeKind(OdeRest))
    /\ 1 \notin Cs => init_rest = <<>>
<1>0. ASSUME 1 \notin Cs PROVE init_rest = <<>>
  BY <1>0 DEF init_rest
<1> SUFFICES ASSUME 1 \in Cs PROVE ScriptOf(init_rest, 1, 4, "UNPROTECT", OdeKind(OdeRest))
  BY <1>0
<1> DEFINE a == <<Short("load_uboot", 1), Short("RDID", 1)>>
           g == a \o nsc_reset_spi_nand_chip(1)
           q == init_rest
<1>1. {"RESET", "wait", "RDID", "load_uboot"} \subseteq Kinds /\ OdeRest \in BOOLEAN
  BY SpiNandAssumption DEF Kinds
<1>2. /\ Short("RESET", 1) \in FrameSet /\ Short("wait", 1) \in FrameSet
      /\ Short("RDID", 1) \in FrameSet /\ Short("load_uboot", 1) \in FrameSet
  BY <1>1, FrameTyped
<1>3. /\ Len(g) = 4 /\ g[1] = Short("load_uboot", 1) /\ g[2] = Short("RDID", 1)
      /\ g[3] = Short("RESET", 1) /\ g[4] = Short("wait", 1)
  BY DEF nsc_reset_spi_nand_chip
<1>4. g \in Seq(FrameSet)
  <2>1. nsc_reset_spi_nand_chip(1) \in Seq(FrameSet) /\ a \in Seq(FrameSet)
    BY <1>2 DEF nsc_reset_spi_nand_chip
  <2> QED BY <2>1, ConcatProperties
<1>5. q = WithSettings(g, 1, "UNPROTECT", OdeKind(OdeRest))
  BY DEF init_rest, WithSettings, Ecc, nsc_block_unprotect, OdeKind
<1> DEFINE n == Len(g)
<1> HIDE DEF g, q, n
<1>6. /\ q \in Seq(FrameSet)
      /\ Len(q) = n + 2 + SettingsLen
      /\ \A k \in 1 .. n : q[k] = g[k]
      /\ q[n + 1] = Short("UNPROTECT", 1)
      /\ q[n + 2] = Short(OdeKind(OdeRest), 1)
      /\ Stacked => /\ q[n + 3] = Frame("select", 1, 1, Blank)
                    /\ q[n + 4] = Short("UNPROTECT", 1)
                    /\ q[n + 5] = Short("ODE_OFF", 1)
                    /\ q[n + 6] = Frame("select", 1, 0, Blank)
  <2>1. 1 \in Cs /\ g \in Seq(FrameSet) /\ OdeKind(OdeRest) \in {"UNPROTECT", "ODE_ON", "ODE_OFF"}
    BY <1>1, <1>4 DEF OdeKind
  <2>2. SettingsOf(WithSettings(g, 1, "UNPROTECT", OdeKind(OdeRest)), g, 1, "UNPROTECT", OdeKind(OdeRest))
    BY <2>1, ChipScript
  <2>3. SettingsOf(q, g, 1, "UNPROTECT", OdeKind(OdeRest))
    BY <1>5, <2>2
  <2> QED BY <2>3 DEF SettingsOf, n
<1>n. n = 4
  BY <1>3 DEF n
<1>7. /\ q[1].kind = "load_uboot" /\ q[2].kind = "RDID" /\ q[3].kind = "RESET" /\ q[4].kind = "wait"
      /\ q[1].cs = 1 /\ q[2].cs = 1 /\ q[3].cs = 1 /\ q[4].cs = 1
  BY <1>3, <1>6, <1>n DEF Short, Frame
<1>8. q[5].kind = "UNPROTECT" /\ q[6].kind = OdeKind(OdeRest) /\ q[5].cs = 1 /\ q[6].cs = 1
  BY <1>6, <1>n DEF Short, Frame
<1>9. Stacked => /\ q[7].kind = "select" /\ q[7].x = 1 /\ q[8].kind = "UNPROTECT"
                 /\ q[9].kind = "ODE_OFF" /\ q[10].kind = "select" /\ q[10].x = 0
                 /\ q[7].cs = 1 /\ q[8].cs = 1 /\ q[9].cs = 1 /\ q[10].cs = 1
  BY <1>6, <1>n DEF Short, Frame
<1>10. \A k \in 1 .. Len(q) : q[k].cs = 1
  <2>1. CASE Stacked
    <3>1. \A k \in 1 .. Len(q) : k \in {1, 2, 3, 4, 5, 6, 7, 8, 9, 10}
      BY <1>6, <1>n, <2>1 DEF SettingsLen
    <3> QED BY <1>7, <1>8, <1>9, <2>1, <3>1
  <2>2. CASE ~Stacked
    <3>1. \A k \in 1 .. Len(q) : k \in {1, 2, 3, 4, 5, 6}
      BY <1>6, <1>n, <2>2 DEF SettingsLen
    <3> QED BY <1>7, <1>8, <3>1
  <2> QED BY <2>1, <2>2
<1> QED BY <1>6, <1>n, <1>7, <1>8, <1>9, <1>10 DEF ScriptOf, q

\* The list of a start: the frames for the first chip, then those for the second.
ProbeLen == 5 + SettingsLen
RestLen == 6 + SettingsLen

LEMMA BootIs ==
    /\ Boot \in Seq(FrameSet)
    /\ 1 \notin Cs => Len(Boot) = ProbeLen
    /\ 1 \in Cs => Len(Boot) = ProbeLen + RestLen
    /\ \A k \in 1 .. ProbeLen : Boot[k] = probe_spi_nand_chip[k]
    /\ 1 \in Cs => \A k \in 1 .. RestLen : Boot[ProbeLen + k] = init_rest[k]
<1> DEFINE p == probe_spi_nand_chip
           r == init_rest
<1>1. p \in Seq(FrameSet) /\ Len(p) = ProbeLen
  BY ProbeScript DEF ScriptOf, ProbeLen, SettingsLen
<1>2. 1 \in Cs => r \in Seq(FrameSet) /\ Len(r) = RestLen
  BY RestScript DEF ScriptOf, RestLen, SettingsLen
<1>3. 1 \notin Cs => r \in Seq(FrameSet) /\ Len(r) = 0
  BY RestScript
<1>4. p \in Seq(FrameSet) /\ r \in Seq(FrameSet)
  BY <1>1, <1>2, <1>3
<1>0. Boot = p \o r
  BY DEF Boot
<1> HIDE DEF p, r
<1>5. p \o r \in Seq(FrameSet) /\ Len(p \o r) = Len(p) + Len(r)
  BY <1>4
<1>6. \A k \in 1 .. Len(p) : (p \o r)[k] = p[k]
  BY <1>4
<1>7. \A k \in 1 .. Len(r) : (p \o r)[Len(p) + k] = r[k]
  BY <1>4
<1>8. ProbeLen \in Nat
  BY DEF ProbeLen, SettingsLen
<1> QED BY <1>0, <1>1, <1>2, <1>3, <1>5, <1>6, <1>7, <1>8 DEF p, r

\* The frames of a start, one by one.
LEMMA BootTable ==
    /\ ProbeLen \in {5, 9}
    /\ \A k \in 1 .. ProbeLen : Boot[k].cs = 0
    /\ Boot[1].kind = "RESET" /\ Boot[2].kind = "wait" /\ Boot[3].kind = "RDID"
    /\ Boot[4].kind = OdeKind(OdeProbe) /\ Boot[5].kind = "UNPROTECT"
    /\ Stacked => /\ Boot[6].kind = "select" /\ Boot[6].x = 1 /\ Boot[7].kind = "UNPROTECT"
                  /\ Boot[8].kind = "ODE_OFF" /\ Boot[9].kind = "select" /\ Boot[9].x = 0
<1>1. ScriptOf(probe_spi_nand_chip, 0, 3, OdeKind(OdeProbe), "UNPROTECT")
  BY ProbeScript
<1>2. ProbeLen \in {5, 9} /\ (Stacked => ProbeLen = 9)
  BY DEF ProbeLen, SettingsLen
<1>3. \A k \in 1 .. ProbeLen : Boot[k] = probe_spi_nand_chip[k]
  BY BootIs
<1>4. \A k \in 1 .. ProbeLen : probe_spi_nand_chip[k].cs = 0
  BY <1>1 DEF ScriptOf, ProbeLen, SettingsLen
<1>5. /\ Boot[1].kind = "RESET" /\ Boot[2].kind = "wait" /\ Boot[3].kind = "RDID"
      /\ Boot[4].kind = OdeKind(OdeProbe) /\ Boot[5].kind = "UNPROTECT"
  BY <1>1, <1>2, <1>3 DEF ScriptOf
<1>6. Stacked => /\ Boot[6].kind = "select" /\ Boot[6].x = 1 /\ Boot[7].kind = "UNPROTECT"
                 /\ Boot[8].kind = "ODE_OFF" /\ Boot[9].kind = "select" /\ Boot[9].x = 0
  BY <1>1, <1>2, <1>3 DEF ScriptOf
<1> QED BY <1>2, <1>3, <1>4, <1>5, <1>6

LEMMA RestTable ==
    ASSUME 1 \in Cs
    PROVE  /\ RestLen \in {6, 10}
           /\ \A k \in 1 .. RestLen : Boot[ProbeLen + k].cs = 1
           /\ Boot[ProbeLen + 1].kind = "load_uboot" /\ Boot[ProbeLen + 2].kind = "RDID"
           /\ Boot[ProbeLen + 3].kind = "RESET" /\ Boot[ProbeLen + 4].kind = "wait"
           /\ Boot[ProbeLen + 5].kind = "UNPROTECT"
           /\ Boot[ProbeLen + 6].kind = OdeKind(OdeRest)
           /\ Stacked => /\ Boot[ProbeLen + 7].kind = "select" /\ Boot[ProbeLen + 7].x = 1
                         /\ Boot[ProbeLen + 8].kind = "UNPROTECT"
                         /\ Boot[ProbeLen + 9].kind = "ODE_OFF"
                         /\ Boot[ProbeLen + 10].kind = "select" /\ Boot[ProbeLen + 10].x = 0
<1>1. ScriptOf(init_rest, 1, 4, "UNPROTECT", OdeKind(OdeRest))
  BY RestScript
<1>2. RestLen \in {6, 10} /\ (Stacked => RestLen = 10)
  BY DEF RestLen, SettingsLen
<1>3. \A k \in 1 .. RestLen : Boot[ProbeLen + k] = init_rest[k]
  BY BootIs
<1>4. \A k \in 1 .. RestLen : init_rest[k].cs = 1
  BY <1>1 DEF ScriptOf, RestLen, SettingsLen
<1>5. /\ Boot[ProbeLen + 1].kind = "load_uboot" /\ Boot[ProbeLen + 2].kind = "RDID"
      /\ Boot[ProbeLen + 3].kind = "RESET" /\ Boot[ProbeLen + 4].kind = "wait"
      /\ Boot[ProbeLen + 5].kind = "UNPROTECT" /\ Boot[ProbeLen + 6].kind = OdeKind(OdeRest)
  BY <1>1, <1>2, <1>3 DEF ScriptOf
<1>6. Stacked => /\ Boot[ProbeLen + 7].kind = "select" /\ Boot[ProbeLen + 7].x = 1
                 /\ Boot[ProbeLen + 8].kind = "UNPROTECT"
                 /\ Boot[ProbeLen + 9].kind = "ODE_OFF"
                 /\ Boot[ProbeLen + 10].kind = "select" /\ Boot[ProbeLen + 10].x = 0
  BY <1>1, <1>2, <1>3, SMTT(30) DEF ScriptOf
<1> QED BY <1>2, <1>3, <1>4, <1>5, <1>6

\* The last frame before the settings of chip c.
Base(c) == IF c = 0 THEN 3 ELSE ProbeLen + 4

\* The places of the two settings of its first die: the probe sets the ECC first,
\* init_rest the protection.
OdeAt(c) == Base(c) + (IF c = 0 THEN 1 ELSE 2)
UnprotAt(c) == Base(c) + (IF c = 0 THEN 2 ELSE 1)

\* The settings that a start gives to chip c.
LEMMA BootSettings ==
    ASSUME NEW c \in Cs
    PROVE  /\ Base(c) \in Nat /\ Base(c) + 2 + SettingsLen <= Len(Boot)
           /\ Boot[UnprotAt(c)].kind = "UNPROTECT" /\ Boot[UnprotAt(c)].cs = c
           /\ Boot[OdeAt(c)].kind = OdeKind(OdeOf(<<c, 0>>)) /\ Boot[OdeAt(c)].cs = c
           /\ {OdeAt(c), UnprotAt(c)} = {Base(c) + 1, Base(c) + 2}
           /\ Stacked => /\ Boot[Base(c) + 3].kind = "select" /\ Boot[Base(c) + 3].x = 1
                         /\ Boot[Base(c) + 3].cs = c
                         /\ Boot[Base(c) + 4].kind = "UNPROTECT" /\ Boot[Base(c) + 4].cs = c
                         /\ Boot[Base(c) + 5].kind = "ODE_OFF" /\ Boot[Base(c) + 5].cs = c
<1>0. c \in {0, 1}
  BY SpiFacts
<1>1. CASE c = 0
  <2>1. Base(c) = 3 /\ ProbeLen <= Len(Boot)
    BY <1>1, BootTable, BootIs, RestTable DEF Base
  <2>2. ProbeLen = 5 + SettingsLen /\ (Stacked => SettingsLen = 4) /\ SettingsLen \in {0, 4}
    BY DEF ProbeLen, SettingsLen
  <2>3. OdeAt(c) = 4 /\ UnprotAt(c) = 5 /\ OdeOf(<<c, 0>>) = OdeProbe
    BY <1>1, <2>1 DEF OdeAt, UnprotAt, OdeOf
  <2>4. /\ Base(c) + 1 = 4 /\ Base(c) + 2 = 5 /\ Base(c) + 3 = 6 /\ Base(c) + 4 = 7 /\ Base(c) + 5 = 8
        /\ Base(c) + 2 + SettingsLen <= Len(Boot) /\ Base(c) \in Nat
    BY <2>1, <2>2, BootIs
  <2>5. /\ Boot[4].cs = 0 /\ Boot[5].cs = 0
        /\ Stacked => Boot[6].cs = 0 /\ Boot[7].cs = 0 /\ Boot[8].cs = 0
    <3>1. /\ 4 \in 1 .. ProbeLen /\ 5 \in 1 .. ProbeLen
          /\ Stacked => 6 \in 1 .. ProbeLen /\ 7 \in 1 .. ProbeLen /\ 8 \in 1 .. ProbeLen
      BY <2>2
    <3> QED BY <3>1, BootTable
  <2> QED BY <1>1, <2>3, <2>4, <2>5, BootTable
<1>2. CASE c = 1
  <2>0. 1 \in Cs
    BY <1>2
  <2>1. Base(c) = ProbeLen + 4 /\ Len(Boot) = ProbeLen + RestLen /\ ProbeLen \in Nat
    BY <1>2, <2>0, BootTable, BootIs DEF Base
  <2>2. RestLen = 6 + SettingsLen /\ (Stacked => SettingsLen = 4) /\ SettingsLen \in {0, 4}
    BY DEF RestLen, SettingsLen
  <2>3. /\ Base(c) + 1 = ProbeLen + 5 /\ Base(c) + 2 = ProbeLen + 6 /\ Base(c) + 3 = ProbeLen + 7
        /\ Base(c) + 4 = ProbeLen + 8 /\ Base(c) + 5 = ProbeLen + 9
    BY <2>1
  <2>4. /\ Boot[ProbeLen + 5].cs = 1 /\ Boot[ProbeLen + 6].cs = 1
        /\ Stacked => /\ Boot[ProbeLen + 7].cs = 1 /\ Boot[ProbeLen + 8].cs = 1
                      /\ Boot[ProbeLen + 9].cs = 1
    <3>1. /\ 5 \in 1 .. RestLen /\ 6 \in 1 .. RestLen
          /\ Stacked => 7 \in 1 .. RestLen /\ 8 \in 1 .. RestLen /\ 9 \in 1 .. RestLen
      BY <2>2
    <3>2. \A k \in 1 .. RestLen : Boot[ProbeLen + k].cs = 1
      BY <2>0, RestTable
    <3> QED BY <3>1, <3>2
  <2>5. Base(c) + 2 + SettingsLen <= Len(Boot) /\ Base(c) \in Nat
    BY <2>1, <2>2
  <2>6. /\ Boot[ProbeLen + 5].kind = "UNPROTECT" /\ Boot[ProbeLen + 6].kind = OdeKind(OdeRest)
        /\ Stacked => /\ Boot[ProbeLen + 7].kind = "select" /\ Boot[ProbeLen + 7].x = 1
                      /\ Boot[ProbeLen + 8].kind = "UNPROTECT"
                      /\ Boot[ProbeLen + 9].kind = "ODE_OFF"
    BY <2>0, RestTable
  <2>7. OdeAt(c) = ProbeLen + 6 /\ UnprotAt(c) = ProbeLen + 5 /\ OdeOf(<<c, 0>>) = OdeRest
    BY <1>2, <2>1 DEF OdeAt, UnprotAt, OdeOf
  <2> QED BY <1>2, <2>3, <2>4, <2>5, <2>6, <2>7
<1> QED BY <1>0, <1>1, <1>2

\* Where an index of the list of a start lies.
LEMMA BootIndex ==
    ASSUME NEW k \in 1 .. Len(Boot)
    PROVE  \/ k \in 1 .. ProbeLen /\ Boot[k].cs = 0
           \/ /\ 1 \in Cs /\ k - ProbeLen \in 1 .. RestLen /\ Boot[k].cs = 1
              /\ k = ProbeLen + (k - ProbeLen)
<1>1. ProbeLen \in Nat /\ Len(Boot) \in Nat
  BY BootTable, BootIs
<1>2. CASE k \in 1 .. ProbeLen
  BY <1>2, BootTable
<1>3. CASE k \notin 1 .. ProbeLen
  <2>1. 1 \in Cs
    BY <1>1, <1>3, BootIs
  <2>2. Len(Boot) = ProbeLen + RestLen /\ RestLen \in Nat
    BY <2>1, BootIs, RestTable
  <2>3. k - ProbeLen \in 1 .. RestLen /\ k = ProbeLen + (k - ProbeLen)
    BY <1>1, <1>3, <2>2
  <2>4. \A i \in 1 .. RestLen : Boot[ProbeLen + i].cs = 1
    BY <2>1, RestTable
  <2>5. Boot[ProbeLen + (k - ProbeLen)].cs = 1
    BY <2>3, <2>4
  <2> QED BY <2>1, <2>3, <2>5
<1> QED BY <1>2, <1>3

\* The kinds of the frames of a start, by their place.
LEMMA BootKinds ==
    ASSUME NEW k \in 1 .. Len(Boot)
    PROVE  /\ Boot[k].kind \in Jobs => Boot[k].kind = "RESET" /\ k \in {1, ProbeLen + 3}
           /\ k = ProbeLen + 3 => 1 \in Cs
           /\ Boot[k].kind = "select" => k > Base(Boot[k].cs) + 2
           /\ Boot[k].kind \in Jobs => k <= Base(Boot[k].cs)
           /\ Boot[k].kind \in Ode =>
                k = OdeAt(Boot[k].cs) \/ (Stacked /\ k = Base(Boot[k].cs) + 5)
<1>1. ProbeLen \in {5, 9} /\ (~Stacked => ProbeLen = 5) /\ OdeProbe \in BOOLEAN
  BY SpiNandAssumption DEF ProbeLen, SettingsLen
<1>2. CASE k \in 1 .. ProbeLen /\ Boot[k].cs = 0
  <2>1. Base(Boot[k].cs) = 3 /\ OdeAt(Boot[k].cs) = 4 /\ k # ProbeLen + 3
    BY <1>1, <1>2 DEF Base, OdeAt
  <2>2. CASE ~Stacked
    <3>1. k \in {1, 2, 3, 4, 5}
      BY <1>1, <1>2, <2>2
    <3> QED BY <1>1, <2>1, <3>1, BootTable DEF Jobs, Ode, OdeKind
  <2>3. CASE Stacked
    <3>1. k \in {1, 2, 3, 4, 5, 6, 7, 8, 9}
      BY <1>1, <1>2
    <3> QED BY <1>1, <2>1, <2>3, <3>1, BootTable DEF Jobs, Ode, OdeKind
  <2> QED BY <2>2, <2>3
<1>3. CASE /\ 1 \in Cs /\ k - ProbeLen \in 1 .. RestLen /\ Boot[k].cs = 1
           /\ k = ProbeLen + (k - ProbeLen)
  <2>1. Base(Boot[k].cs) = ProbeLen + 4 /\ (~Stacked => RestLen = 6) /\ RestLen \in {6, 10}
        /\ OdeRest \in BOOLEAN
    BY <1>3, SpiNandAssumption DEF Base, RestLen, SettingsLen
  <2> DEFINE i == k - ProbeLen
  <2>2. i \in 1 .. RestLen /\ k = ProbeLen + i
    BY <1>3
  <2> HIDE DEF i
  <2>5. /\ Boot[ProbeLen + 1].kind = "load_uboot" /\ Boot[ProbeLen + 2].kind = "RDID"
        /\ Boot[ProbeLen + 3].kind = "RESET" /\ Boot[ProbeLen + 4].kind = "wait"
        /\ Boot[ProbeLen + 5].kind = "UNPROTECT"
        /\ Boot[ProbeLen + 6].kind \in Ode
        /\ Stacked => /\ Boot[ProbeLen + 7].kind = "select"
                      /\ Boot[ProbeLen + 8].kind = "UNPROTECT"
                      /\ Boot[ProbeLen + 9].kind = "ODE_OFF"
                      /\ Boot[ProbeLen + 10].kind = "select"
    BY <1>3, RestTable DEF OdeKind, Ode
  <2> DEFINE kd == Boot[k].kind
  <2>3. /\ i \in {1, 2, 3, 4, 5, 6} \/ (Stacked /\ i \in {7, 8, 9, 10})
        /\ i = 1 => kd = "load_uboot"
        /\ i = 2 => kd = "RDID"
        /\ i = 3 => kd = "RESET"
        /\ i = 4 => kd = "wait"
        /\ i = 5 => kd = "UNPROTECT"
        /\ i = 6 => kd \in Ode
        /\ Stacked /\ i = 7 => kd = "select"
        /\ Stacked /\ i = 8 => kd = "UNPROTECT"
        /\ Stacked /\ i = 9 => kd = "ODE_OFF"
        /\ Stacked /\ i = 10 => kd = "select"
    <3>1. i \in {1, 2, 3, 4, 5, 6} \/ (Stacked /\ i \in {7, 8, 9, 10})
      BY <2>1, <2>2
    <3>2. kd = Boot[ProbeLen + i].kind
      BY <2>2
    <3> HIDE DEF kd
    <3>3. i = 1 => kd = "load_uboot"
      BY <2>5, <3>2
    <3>4. i = 2 => kd = "RDID"
      BY <2>5, <3>2
    <3>5. i = 3 => kd = "RESET"
      BY <2>5, <3>2
    <3>6. i = 4 => kd = "wait"
      BY <2>5, <3>2
    <3>7. i = 5 => kd = "UNPROTECT"
      BY <2>5, <3>2
    <3>8. i = 6 => kd \in Ode
      BY <2>5, <3>2
    <3>9. Stacked /\ i = 7 => kd = "select"
      BY <2>5, <3>2
    <3>10. Stacked /\ i = 8 => kd = "UNPROTECT"
      BY <2>5, <3>2
    <3>11. Stacked /\ i = 9 => kd = "ODE_OFF"
      BY <2>5, <3>2
    <3>12. Stacked /\ i = 10 => kd = "select"
      BY <2>5, <3>2
    <3> QED BY <3>1, <3>3, <3>4, <3>5, <3>6, <3>7, <3>8, <3>9, <3>10, <3>11, <3>12
  <2> HIDE DEF kd
  <2>4. /\ kd \in Jobs => kd = "RESET" /\ i = 3
        /\ kd = "select" => i \in {7, 10}
        /\ kd \in Ode => i = 6 \/ (Stacked /\ i = 9)
    BY <2>3 DEF Jobs, Ode
  <2> DEFINE b == Base(Boot[k].cs)
             o == OdeAt(Boot[k].cs)
  <2>6. b = ProbeLen + 4 /\ o = ProbeLen + 6
    BY <1>1, <1>3, <2>1 DEF OdeAt
  <2> HIDE DEF b, o
  <2>7. /\ kd \in Jobs => kd = "RESET" /\ k \in {1, ProbeLen + 3}
        /\ kd = "select" => k > b + 2
        /\ kd \in Jobs => k <= b
        /\ kd \in Ode => k = o \/ (Stacked /\ k = b + 5)
    BY <1>1, <2>2, <2>4, <2>6
  <2>8. k = ProbeLen + 3 => 1 \in Cs
    BY <1>3
  <2> QED BY <2>7, <2>8 DEF kd, b, o
<1> QED BY <1>2, <1>3, BootIndex

\* A start meets every chip with a frame that it may get while it is busy, and
\* waits for it.
LEMMA BootPatient ==
    /\ Boot # <<>>
    /\ WaitsAfterJob(Boot)
    /\ \A c \in Cs : MetPatiently(Boot, c)
<1>1. ProbeLen \in {5, 9} /\ Len(Boot) \in Nat /\ Len(Boot) >= ProbeLen
  BY BootTable, BootIs, RestTable
<1>2. Boot # <<>>
  BY <1>1, BootIs
<1>3. ASSUME NEW k \in 1 .. Len(Boot), Boot[k].kind \in Jobs
      PROVE  k < Len(Boot) /\ Boot[k + 1].kind = "wait" /\ Boot[k + 1].cs = Boot[k].cs
  <2>1. k \in {1, ProbeLen + 3} /\ (k = ProbeLen + 3 => 1 \in Cs)
    BY <1>3, BootKinds
  <2>2. CASE k = 1
    <3>1. 1 \in 1 .. ProbeLen /\ 2 \in 1 .. ProbeLen
      BY <1>1
    <3> QED BY <1>1, <2>2, <3>1, BootTable
  <2>3. CASE k = ProbeLen + 3
    <3>1. 1 \in Cs
      BY <2>1, <2>3
    <3>2. RestLen \in {6, 10} /\ Len(Boot) = ProbeLen + RestLen
      BY <3>1, BootIs, RestTable
    <3>3. 3 \in 1 .. RestLen /\ 4 \in 1 .. RestLen /\ k + 1 = ProbeLen + 4 /\ k < Len(Boot)
      BY <1>1, <2>3, <3>2
    <3>4. Boot[ProbeLen + 3].cs = 1 /\ Boot[ProbeLen + 4].cs = 1 /\ Boot[ProbeLen + 4].kind = "wait"
      BY <3>1, <3>3, RestTable
    <3> QED BY <2>3, <3>3, <3>4
  <2> QED BY <2>1, <2>2, <2>3
<1>4. WaitsAfterJob(Boot)
  BY <1>3 DEF WaitsAfterJob
<1>5. ASSUME NEW c \in Cs PROVE MetPatiently(Boot, c)
  <2>1. c \in {0, 1}
    BY SpiFacts
  <2>2. CASE c = 0
    <3>1. 1 \in 1 .. ProbeLen /\ 1 \in 1 .. Len(Boot)
      BY <1>1
    <3>2. Boot[1].cs = c /\ Boot[1].kind \in Patient
      BY <2>2, <3>1, BootTable DEF Patient
    <3>3. \A k \in 1 .. 1 - 1 : Boot[k].cs # c
      OBVIOUS
    <3> QED BY <3>1, <3>2, <3>3 DEF MetPatiently
  <2>3. CASE c = 1
    <3>1. 1 \in Cs
      BY <2>3
    <3>2. RestLen \in {6, 10} /\ Len(Boot) = ProbeLen + RestLen
      BY <3>1, BootIs, RestTable
    <3>3. 1 \in 1 .. RestLen /\ ProbeLen + 1 \in 1 .. Len(Boot)
      BY <1>1, <3>2
    <3>4. Boot[ProbeLen + 1].cs = c /\ Boot[ProbeLen + 1].kind \in Patient
      BY <2>3, <3>1, <3>3, RestTable DEF Patient
    <3>5. \A k \in 1 .. (ProbeLen + 1) - 1 : k \in 1 .. ProbeLen
      BY <1>1
    <3>6. \A k \in 1 .. (ProbeLen + 1) - 1 : Boot[k].cs # c
      BY <2>3, <3>5, BootTable
    <3> QED BY <3>3, <3>4, <3>6 DEF MetPatiently
  <2> QED BY <2>1, <2>2, <2>3
<1> QED BY <1>2, <1>4, <1>5

\* A start ends the protection of every die.
LEMMA BootReaches ==
    /\ SetAfterReset(Boot, Unprotect)
    /\ \A c \in Cs, d \in Dies, s \in Dies : (d = 0 => s = 0) => Reaches(Boot, c, d, s, Unprotect)
<1> DEFINE K == Unprotect
<1>1. Len(Boot) \in Nat /\ SettingsLen \in Nat
  BY BootIs DEF SettingsLen
<1>3. ASSUME NEW c \in Cs
      PROVE  /\ UnprotAt(c) \in 1 .. Len(Boot) /\ UnprotAt(c) > Base(c)
             /\ Boot[UnprotAt(c)].kind \in K /\ Boot[UnprotAt(c)].cs = c
             /\ NoSelect(Boot, c, 1, UnprotAt(c))
             /\ Stacked => /\ Base(c) + 3 \in 1 .. Len(Boot)
                           /\ Base(c) + 4 \in 1 .. Len(Boot)
                           /\ Boot[Base(c) + 4].kind \in K
                           /\ Boot[Base(c) + 4].cs = c
                           /\ NoSelect(Boot, c, Base(c) + 4, Base(c) + 4)
  <2>1. Base(c) \in Nat /\ Base(c) + 2 + SettingsLen <= Len(Boot)
    BY BootSettings
  <2>2. UnprotAt(c) \in {Base(c) + 1, Base(c) + 2}
    BY BootSettings
  <2>4. UnprotAt(c) \in 1 .. Len(Boot) /\ UnprotAt(c) > Base(c) /\ UnprotAt(c) <= Base(c) + 2
    BY <1>1, <2>1, <2>2
  <2>5. Boot[UnprotAt(c)].kind \in K /\ Boot[UnprotAt(c)].cs = c
    BY BootSettings DEF Unprotect
  <2>6. NoSelect(Boot, c, 1, UnprotAt(c))
    <3>1. ASSUME NEW k \in 1 .. UnprotAt(c), Boot[k].kind = "select", Boot[k].cs = c PROVE FALSE
      <4>1. k \in 1 .. Len(Boot) /\ k <= Base(c) + 2
        BY <1>1, <2>1, <2>4
      <4>2. k > Base(c) + 2
        BY <3>1, <4>1, BootKinds
      <4> QED BY <2>1, <4>1, <4>2
    <3> QED BY <3>1 DEF NoSelect
  <2>7. ASSUME Stacked
        PROVE  /\ Base(c) + 3 \in 1 .. Len(Boot) /\ Base(c) + 4 \in 1 .. Len(Boot)
               /\ Boot[Base(c) + 4].kind \in K /\ Boot[Base(c) + 4].cs = c
               /\ NoSelect(Boot, c, Base(c) + 4, Base(c) + 4)
    <3>1. SettingsLen = 4
      BY <2>7 DEF SettingsLen
    <3>2. Base(c) + 3 \in 1 .. Len(Boot) /\ Base(c) + 4 \in 1 .. Len(Boot)
      BY <1>1, <2>1, <3>1
    <3>3. Boot[Base(c) + 4].kind = "UNPROTECT" /\ Boot[Base(c) + 4].cs = c
      BY <2>7, BootSettings
    <3>4. \A k \in Base(c) + 4 .. Base(c) + 4 : k = Base(c) + 4
      BY <1>1, <2>1
    <3> QED BY <3>2, <3>3, <3>4 DEF NoSelect, Unprotect
  <2> QED BY <2>4, <2>5, <2>6, <2>7
<1> HIDE DEF K
<1>4. ASSUME NEW m \in 1 .. Len(Boot), Boot[m].kind = "RESET"
      PROVE  \E n \in m + 1 .. Len(Boot) :
                Boot[n].kind \in K /\ Boot[n].cs = Boot[m].cs /\ NoSelect(Boot, Boot[m].cs, 1, n)
  <2>3. Boot[m].cs \in Cs /\ m <= Base(Boot[m].cs)
    <3>1. Boot[m] \in FrameSet
      BY BootIs, ElementOfSeq
    <3> QED BY <1>4, <3>1, BootKinds DEF Jobs, FrameSet, FrameOf
  <2> DEFINE c == Boot[m].cs
             n == UnprotAt(c)
  <2>4. c \in Cs /\ m <= Base(c) /\ Base(c) \in Nat
    BY <2>3, BootSettings
  <2>5. n \in 1 .. Len(Boot) /\ n > Base(c) /\ Boot[n].kind \in K /\ Boot[n].cs = c /\ NoSelect(Boot, c, 1, n)
    BY <1>3, <2>4
  <2>6. n \in m + 1 .. Len(Boot)
    BY <1>1, <2>4, <2>5
  <2> QED BY <2>5, <2>6
<1>5. ASSUME NEW c \in Cs, NEW d \in Dies, NEW s \in Dies, d = 0 => s = 0
      PROVE  Reaches(Boot, c, d, s, K)
  <2>1. d \in {0, 1} /\ (d = 1 => Stacked)
    BY SpiFacts
  <2>2. CASE d = 0
    <3> DEFINE n == UnprotAt(c)
    <3>1. n \in 1 .. Len(Boot) /\ Boot[n].kind \in K /\ Boot[n].cs = c /\ NoSelect(Boot, c, 1, n)
      BY <1>3
    <3>2. s = d
      BY <1>5, <2>2
    <3> HIDE DEF n
    <3> QED BY <3>1, <3>2 DEF Reaches
  <2>3. CASE d = 1
    <3> DEFINE n == Base(c) + 4
               j == Base(c) + 3
    <3>0. Stacked
      BY <2>1, <2>3
    <3>1. /\ n \in 1 .. Len(Boot) /\ Boot[n].kind \in K /\ Boot[n].cs = c
          /\ NoSelect(Boot, c, Base(c) + 4, n)
      BY <1>3, <3>0
    <3>2. j \in 1 .. n /\ j + 1 = Base(c) + 4
      <4>1. Base(c) \in Nat
        BY BootSettings
      <4> QED BY <4>1
    <3>3. Boot[j].kind = "select" /\ Boot[j].cs = c /\ Boot[j].x = 1
      BY <3>0, BootSettings
    <3>4. NoSelect(Boot, c, j + 1, n)
      BY <3>1, <3>2
    <3> HIDE DEF n, j
    <3> QED BY <2>3, <3>1, <3>2, <3>3, <3>4 DEF Reaches
  <2> QED BY <2>1, <2>2, <2>3
<1> QED BY <1>4, <1>5 DEF SetAfterReset, K

-----------------------------------------------------------------------------
(* Addresses.                                                              *)

LEMMA Division ==
    ASSUME NEW b \in Nat \ {0}, NEW x \in Nat, NEW m \in 0 .. b - 1, NEW a \in Nat, a = b * x + m
    PROVE  a \div b = x /\ a % b = m
<1>1. a = b * (a \div b) + (a % b) /\ a % b \in 0 .. b - 1 /\ a \div b \in Nat
  OBVIOUS
<1>2. ASSUME NEW y \in Nat, NEW z \in Nat, NEW i \in 0 .. b - 1, NEW j \in 0 .. b - 1, y < z
      PROVE  b * y + i # b * z + j
  <2>1. z = (y + 1) + (z - (y + 1)) /\ z - (y + 1) \in Nat
    BY <1>2
  <2>2. b * z = b * (y + 1) + b * (z - (y + 1)) /\ b * (z - (y + 1)) >= 0
    BY <2>1
  <2>3. b * (y + 1) = b * y + b
    OBVIOUS
  <2>4. b * y \in Nat /\ b * z \in Nat
    OBVIOUS
  <2> QED BY <2>2, <2>3, <2>4
<1>3. ~(a \div b < x) /\ ~(x < a \div b)
  BY <1>1, <1>2
<1>4. a \div b = x
  BY <1>1, <1>3
<1> QED BY <1>1, <1>4

\* A row within its die, as a block and a page of this block.
LEMMA RowBlock ==
    ASSUME NEW r \in Rows
    PROVE  /\ r \div PagesPerBlock \in 0 .. BlocksPerDie - 1
           /\ r % PagesPerBlock \in 0 .. PagesPerBlock - 1
           /\ r = PagesPerBlock * (r \div PagesPerBlock) + (r % PagesPerBlock)
<1> DEFINE b == PagesPerBlock
           n == BlocksPerDie
           x == r \div b
<1>1. b \in Nat \ {0} /\ n \in Nat \ {0} /\ r \in Nat /\ r < n * b
  BY SpiFacts DEF Rows, PagesPerDie
<1>2. r = b * x + (r % b) /\ r % b \in 0 .. b - 1 /\ x \in Nat
  BY <1>1
<1>3. ~(x >= n)
  <2>1. SUFFICES ASSUME x >= n PROVE FALSE
    OBVIOUS
  <2>2. x = n + (x - n) /\ x - n \in Nat
    BY <1>1, <1>2, <2>1
  <2> HIDE DEF x, b, n
  <2>3. b * x = b * n + b * (x - n) /\ b * (x - n) >= 0
    BY <1>1, <2>2
  <2>4. b * n = n * b /\ b * n \in Nat
    BY <1>1
  <2> QED BY <1>1, <1>2, <2>3, <2>4
<1> QED BY <1>1, <1>2, <1>3

\* The page address q dies further on than row r.
LEMMA DieOffset ==
    ASSUME NEW r \in Rows, NEW q \in Nat, NEW a \in Nat, a = PagesPerDie * q + r
    PROVE  /\ a \div PagesPerDie = q /\ a % PagesPerDie = r
           /\ a \div PagesPerBlock = BlocksPerDie * q + r \div PagesPerBlock
<1>1. PagesPerDie \in Nat \ {0} /\ r \in 0 .. PagesPerDie - 1
  BY SpiFacts DEF Rows
<1>2. a \div PagesPerDie = q /\ a % PagesPerDie = r
  BY <1>1, Division
<1> DEFINE b == PagesPerBlock
           n == BlocksPerDie
           x == r \div b
           m == r % b
           y == n * q + x
<1>3. b \in Nat \ {0} /\ n \in Nat \ {0} /\ x \in 0 .. n - 1 /\ m \in 0 .. b - 1
      /\ r = b * x + m /\ PagesPerDie = n * b
  BY SpiFacts, RowBlock DEF PagesPerDie
<1> HIDE DEF b, n, x, m
<1>4. y \in Nat
  BY <1>3
<1>5. a = b * y + m
  <2>1. a = (n * b) * q + (b * x + m)
    BY <1>3
  <2>2. (n * b) * q = b * (n * q) /\ b * (n * q + x) = b * (n * q) + b * x
    BY <1>3
  <2> QED BY <1>3, <2>1, <2>2
<1> HIDE DEF y
<1>6. a \div b = y
  BY <1>3, <1>4, <1>5, Division
<1> QED BY <1>2, <1>6 DEF y, b, n, x

\* How many dies in front of the one that holds page a, for the four kinds of
\* boards.
LEMMA AddressDie ==
    ASSUME NEW a \in 0 .. NumPages - 1
    PROVE  \E q \in 0 .. 3, r \in Rows :
              /\ a = PagesPerDie * q + r
              /\ q >= NumDies => 1 \in Cs
              /\ ~Stacked => q <= 1
<1> DEFINE D == PagesPerDie
           q == a \div D
           r == a % D
<1>1. D \in Nat \ {0} /\ Cs \in {{0}, {0, 1}}
  BY SpiFacts
<1>2. /\ NumPages \in {D, 2 * D, 4 * D}
      /\ ~Stacked => NumPages \in {D, 2 * D}
      /\ Cs = {0} => NumPages = NumDies * D
      /\ NumDies \in {1, 2}
  BY <1>1 DEF NumPages, PagesPerCs, NumDies
<1>3. a \in Nat /\ a = D * q + r /\ r \in 0 .. D - 1 /\ q \in Nat
  BY <1>1, <1>2
<1> HIDE DEF q, r, D
<1>4. ASSUME NEW k \in {1, 2, 4}, a < k * D PROVE q < k
  <2>1. SUFFICES ASSUME q >= k PROVE FALSE
    BY <1>3, <1>4
  <2>2. q = k + (q - k) /\ q - k \in Nat
    BY <1>3, <2>1
  <2>3. D * q = D * k + D * (q - k) /\ D * (q - k) >= 0
    BY <1>1, <2>2
  <2>4. D * k = k * D /\ D * k \in Nat /\ D * q \in Nat
    BY <1>1, <1>3
  <2>5. a >= D * q /\ D * q >= D * k
    BY <1>1, <1>3, <2>3, <2>4
  <2> QED BY <1>3, <1>4, <2>4, <2>5
<1>5. q < 4 /\ (~Stacked => q < 2) /\ (Cs = {0} => q < NumDies)
  <2>1. a < NumPages
    BY <1>2, <1>1
  <2> QED BY <1>1, <1>2, <1>3, <1>4, <2>1
<1>6. q >= NumDies => 1 \in Cs
  BY <1>1, <1>2, <1>3, <1>5
<1>7. r \in Rows /\ q \in 0 .. 3
  BY <1>3, <1>5 DEF Rows, D
<1> QED BY <1>3, <1>5, <1>6, <1>7 DEF D

\* The driver cuts a page address into chip select, die, row and plane: the ones
\* that hold the page.
LEMMA Address ==
    ASSUME NEW a \in 0 .. NumPages - 1
    PROVE  /\ CsOf(a) \in Cs /\ RowOf(a) \in Rows /\ PlaneBit(a) \in Planes
           /\ Stacked => s2d_die(a) \in Dies
           /\ Abstract(a) = <<CsOf(a), IF Stacked THEN s2d_die(a) ELSE 0>>
           /\ RowOf(a) = a % PagesPerDie
           /\ PlaneBit(a) = (RowOf(a) \div PagesPerBlock) % 2
           /\ a = PagesPerCs * Abstract(a)[1] + PagesPerDie * Abstract(a)[2] + RowOf(a)
<1> DEFINE D == PagesPerDie
           n == BlocksPerDie
<1>0. PICK q \in 0 .. 3, r \in Rows : /\ a = D * q + r
                                      /\ q >= NumDies => 1 \in Cs
                                      /\ ~Stacked => q <= 1
  BY AddressDie
<1>1. D \in Nat \ {0} /\ r \in 0 .. D - 1 /\ n \in Nat \ {0} /\ n % 2 = 0 /\ a \in Nat
      /\ 0 \in Cs
  BY <1>0, SpiFacts, SpiNandAssumption DEF Rows
<1> DEFINE x == r \div PagesPerBlock
<1>2. x \in 0 .. n - 1
  BY RowBlock
<1>3. a \div D = q /\ a % D = r /\ a \div PagesPerBlock = n * q + x
  <2>1. q \in Nat /\ r \in Rows /\ a \in Nat /\ a = PagesPerDie * q + r
    BY <1>0, <1>1
  <2> QED BY <2>1, DieOffset
<1> HIDE DEF D, n, x
<1>4. CASE ~Stacked
  <2>1. PagesPerCs = D /\ s2d_addr(a) = a /\ q \in {0, 1} /\ (q = 1 => 1 \in Cs)
    BY <1>0, <1>1, <1>4 DEF PagesPerCs, NumDies, s2d_addr, D
  <2>2. CsOf(a) = q
    BY <1>3, <2>1 DEF CsOf, Extract
  <2>3. RowOf(a) = r
    <3>1. RowOf(a) = a - D * q
      BY <1>3, <2>1 DEF RowOf, Remove, Extract
    <3>2. a = D * q + r /\ D * q \in Nat
      BY <1>0, <1>1 DEF D
    <3> QED BY <1>1, <3>1, <3>2
  <2>4. PlaneBit(a) = x % 2
    <3>1. PlaneBit(a) = (n * q + x) % 2
      BY <1>3, <2>1 DEF PlaneBit
    <3>2. n * q = 0 \/ n * q = n
      BY <1>1, <2>1
    <3> QED BY <1>1, <1>2, <3>1, <3>2
  <2>5. Abstract(a) = <<q, 0>>
    <3>1. r \div D = 0
      BY <1>1
    <3> QED BY <1>3, <2>1, <3>1 DEF Abstract, D
  <2>6. Abstract(a) = <<CsOf(a), IF Stacked THEN s2d_die(a) ELSE 0>>
    BY <1>4, <2>2, <2>5
  <2>7. CsOf(a) \in Cs /\ RowOf(a) \in Rows /\ RowOf(a) = a % D
    BY <1>1, <1>3, <2>1, <2>2, <2>3
  <2>8. PlaneBit(a) = (RowOf(a) \div PagesPerBlock) % 2 /\ PlaneBit(a) \in Planes
    BY <1>2, <2>3, <2>4 DEF x, Planes
  <2>9. a = PagesPerCs * Abstract(a)[1] + D * Abstract(a)[2] + RowOf(a)
    BY <1>0, <1>1, <2>1, <2>3, <2>5
  <2> QED BY <1>4, <2>6, <2>7, <2>8, <2>9 DEF D
<1>5. CASE Stacked
  <2> DEFINE d == q % 2
             c == q \div 2
  <2>1. /\ PagesPerCs = D * 2 /\ NumDies = 2 /\ d \in {0, 1} /\ c \in {0, 1}
        /\ q = 2 * c + d /\ (c = 1 => 1 \in Cs)
    BY <1>0, <1>5 DEF PagesPerCs, NumDies, D
  <2> HIDE DEF c, d
  <2>2. a = D * (2 * c + d) + r /\ a \div D = 2 * c + d /\ (2 * c + d) % 2 = d
    BY <1>0, <1>3, <2>1
  <2>3. s2d_addr(a) = D * (2 * c) + r
    <3>1. s2d_addr(a) = a - D * d
      BY <1>5, <2>2 DEF s2d_addr, Remove, Extract, D
    <3>2. D * (2 * c + d) = D * (2 * c) + D * d /\ D * d \in Nat /\ D * (2 * c) \in Nat
      BY <1>1, <2>1
    <3> QED BY <1>1, <2>2, <3>1, <3>2
  <2>4. s2d_addr(a) = (D * 2) * c + r /\ s2d_addr(a) \in Nat /\ r \in 0 .. D * 2 - 1
    BY <1>1, <2>1, <2>3
  <2>5. s2d_addr(a) \div (D * 2) = c
    <3>1. D * 2 \in Nat \ {0}
      BY <1>1
    <3> QED BY <2>1, <2>4, <3>1, Division
  <2>6. CsOf(a) = c
    BY <2>1, <2>5 DEF CsOf, Extract
  <2>7. RowOf(a) = r
    <3>1. RowOf(a) = s2d_addr(a) - (D * 2) * c
      BY <2>1, <2>5 DEF RowOf, Remove, Extract
    <3> QED BY <1>1, <2>1, <2>4, <3>1
  <2>8. s2d_addr(a) \div PagesPerBlock = n * (2 * c) + x
    <3>1. 2 * c \in Nat
      BY <2>1
    <3>2. s2d_addr(a) = PagesPerDie * (2 * c) + r
      BY <2>3 DEF D
    <3> QED BY <2>4, <3>1, <3>2, DieOffset DEF n, x
  <2>9. PlaneBit(a) = x % 2
    <3>1. n * (2 * c) = 0 \/ n * (2 * c) = 2 * n
      BY <1>1, <2>1
    <3> QED BY <1>1, <1>2, <2>8, <3>1 DEF PlaneBit
  <2>10. s2d_die(a) = d
    <3>1. a \div PagesPerBlock = n * (2 * c + d) + x
      BY <1>3, <2>1
    <3>2. n * (2 * c + d) + x = (n * 2) * c + (n * d + x)
      BY <1>1, <1>2, <2>1
    <3>3. n * d \in {0, n} /\ n * d + x \in 0 .. n * 2 - 1 /\ n * 2 \in Nat \ {0}
      BY <1>1, <1>2, <2>1
    <3>4. (a \div PagesPerBlock) % (n * 2) = n * d + x
      <4> DEFINE y == a \div PagesPerBlock
      <4>1. y = (n * 2) * c + (n * d + x) /\ y \in Nat
        BY <1>1, <1>2, <2>1, <3>1, <3>2
      <4> HIDE DEF y
      <4> QED BY <2>1, <3>3, <4>1, Division, SMTT(30) DEF y
    <3>5. (n * 2) \div 2 = n
      BY <1>1
    <3>6. s2d_die(a) = IF n * d + x >= n THEN 1 ELSE 0
      BY <3>4, <3>5 DEF s2d_die, n
    <3>7. n * d + x >= n <=> d = 1
      BY <1>1, <1>2, <2>1
    <3> QED BY <2>1, <3>6, <3>7
  <2>11. Abstract(a) = <<c, d>>
    <3>1. a = (D * 2) * c + (D * d + r) /\ D * d + r \in 0 .. D * 2 - 1 /\ D * 2 \in Nat \ {0}
      BY <1>1, <2>1, <2>2
    <3>2. a \div (D * 2) = c /\ a % (D * 2) = D * d + r
      <4> DEFINE m == D * d + r
      <4>1. m \in 0 .. D * 2 - 1 /\ a = (D * 2) * c + m /\ D * 2 \in Nat \ {0} /\ c \in Nat
        BY <2>1, <3>1
      <4> HIDE DEF m
      <4>2. a \div (D * 2) = c /\ a % (D * 2) = m
        BY <1>1, <4>1, Division
      <4> QED BY <4>2 DEF m
    <3>3. (D * d + r) \div D = d
      <4> DEFINE m == D * d + r
      <4>1. m \in Nat /\ m = D * d + r /\ d \in Nat
        BY <1>1, <2>1
      <4> HIDE DEF m
      <4>2. m \div D = d
        BY <1>1, <4>1, Division
      <4> QED BY <4>2 DEF m
    <3> QED BY <2>1, <3>2, <3>3 DEF Abstract, D
  <2>12. CsOf(a) \in Cs /\ RowOf(a) \in Rows /\ RowOf(a) = a % D
    BY <1>1, <1>3, <2>1, <2>6, <2>7
  <2>13. PlaneBit(a) = (RowOf(a) \div PagesPerBlock) % 2 /\ PlaneBit(a) \in Planes
    BY <1>2, <2>7, <2>9 DEF x, Planes
  <2>14. s2d_die(a) \in Dies
    BY <1>5, <2>1, <2>10 DEF Stacked
  <2>15. a = PagesPerCs * Abstract(a)[1] + D * Abstract(a)[2] + RowOf(a)
    <3>1. a = (D * 2) * c + D * d + r
      BY <1>1, <2>1, <2>2
    <3> QED BY <2>1, <2>7, <2>11, <3>1
  <2>16. Abstract(a) = <<CsOf(a), IF Stacked THEN s2d_die(a) ELSE 0>>
    BY <1>5, <2>6, <2>10, <2>11
  <2> QED BY <1>5, <2>12, <2>13, <2>14, <2>15, <2>16 DEF D
<1> QED BY <1>4, <1>5

-----------------------------------------------------------------------------
(* The frames of an operation.                                             *)

LEMMA OpTyped ==
    ASSUME NEW o \in PF!Ops
    PROVE  /\ o.kind \in {"read", "write", "erase"} /\ o.a \in 0 .. NumPages - 1
           /\ o.kind = "write" => o.d \in Data /\ o.d \in Contents
BY DEF PF!Ops, PF!Addrs, Contents

\* The frames of an operation, counted from the last one.
FromEnd(o, m) == Frames(o)[Len(Frames(o)) - m + 1]
BodyLen(o) == IF o.kind = "read" THEN 3 ELSE IF o.kind = "write" THEN 5 ELSE 4

LEMMA Joined ==
    ASSUME NEW h \in Seq(FrameSet), NEW b \in Seq(FrameSet)
    PROVE  /\ h \o b \in Seq(FrameSet) /\ Len(h \o b) = Len(h) + Len(b)
           /\ \A m \in 1 .. Len(b) : (h \o b)[Len(h \o b) - m + 1] = b[Len(b) - m + 1]
           /\ \A k \in 1 .. Len(h) : (h \o b)[k] = h[k]
<1>1. h \o b \in Seq(FrameSet) /\ Len(h \o b) = Len(h) + Len(b) /\ Len(h) \in Nat /\ Len(b) \in Nat
  OBVIOUS
<1>2. \A k \in 1 .. Len(h) : (h \o b)[k] = h[k]
  OBVIOUS
<1>3. \A k \in 1 .. Len(b) : (h \o b)[Len(h) + k] = b[k]
  OBVIOUS
<1>4. ASSUME NEW m \in 1 .. Len(b) PROVE (h \o b)[Len(h \o b) - m + 1] = b[Len(b) - m + 1]
  <2>1. Len(b) - m + 1 \in 1 .. Len(b) /\ Len(h \o b) - m + 1 = Len(h) + (Len(b) - m + 1)
    BY <1>1
  <2> QED BY <1>3, <2>1
<1> QED BY <1>1, <1>2, <1>4

LEMMA OpFrames ==
    ASSUME NEW o \in PF!Ops
    PROVE  /\ Frames(o) \in Seq(FrameSet)
           /\ Len(Frames(o)) = BodyLen(o) + (IF Stacked THEN 1 ELSE 0)
           /\ FromEnd(o, 2) = Short("wait", CsOf(o.a))
           /\ o.kind = "read" =>
                /\ FromEnd(o, 1) = Frame("READ", CsOf(o.a), PlaneBit(o.a), Blank)
                /\ FromEnd(o, 3) = Frame("PAGE_DATA_READ", CsOf(o.a), RowOf(o.a), Blank)
           /\ o.kind = "write" =>
                /\ FromEnd(o, 1) = Short("status", CsOf(o.a))
                /\ FromEnd(o, 3) = Frame("PROGRAM_EXECUTE", CsOf(o.a), RowOf(o.a), Blank)
                /\ FromEnd(o, 4) = Frame("PROGRAM_LOAD", CsOf(o.a), PlaneBit(o.a), o.d)
                /\ FromEnd(o, 5) = Short("WRITE_ENABLE", CsOf(o.a))
           /\ o.kind = "erase" =>
                /\ FromEnd(o, 1) = Short("status", CsOf(o.a))
                /\ FromEnd(o, 3) = Frame("BLOCK_ERASE", CsOf(o.a), RowOf(o.a), Blank)
                /\ FromEnd(o, 4) = Short("WRITE_ENABLE", CsOf(o.a))
           /\ Stacked => FromEnd(o, BodyLen(o) + 1) = Frame("select", CsOf(o.a), s2d_die(o.a), Blank)
<1> DEFINE h == SelectDie(o.a)
           b == CASE o.kind = "read"  -> snaf_page_read(o.a)
                  [] o.kind = "write" -> snaf_page_write(o.a, o.d)
                  [] o.kind = "erase" -> nsc_block_erase(o.a)
           c == CsOf(o.a)
<1>1. /\ o.kind \in {"read", "write", "erase"} /\ o.a \in 0 .. NumPages - 1
      /\ o.kind = "write" => o.d \in Contents
  BY OpTyped
<1>2. c \in Cs /\ RowOf(o.a) \in Rows /\ PlaneBit(o.a) \in Planes /\ Blank \in Contents
      /\ (Stacked => s2d_die(o.a) \in Dies)
  BY <1>1, Address, SpiFacts
<1>3. /\ h \in Seq(FrameSet) /\ Len(h) = IF Stacked THEN 1 ELSE 0
      /\ Stacked => h[1] = Frame("select", c, s2d_die(o.a), Blank)
  <2>1. CASE Stacked
    <3>1. h = <<Frame("select", c, s2d_die(o.a), Blank)>>
      BY <2>1 DEF SelectDie
    <3>2. Frame("select", c, s2d_die(o.a), Blank) \in FrameSet
      BY <1>2, <2>1, FrameTyped
    <3> QED BY <2>1, <3>1, <3>2
  <2>2. CASE ~Stacked
    BY <2>2 DEF SelectDie
  <2> QED BY <2>1, <2>2
<1>4. /\ Short("wait", c) \in FrameSet /\ Short("status", c) \in FrameSet
      /\ Short("WRITE_ENABLE", c) \in FrameSet
  <2>1. "wait" \in Kinds /\ "status" \in Kinds /\ "WRITE_ENABLE" \in Kinds
    BY DEF Kinds
  <2> QED BY <1>2, <2>1, FrameTyped
<1>5. /\ \A k \in {"PAGE_DATA_READ", "PROGRAM_EXECUTE", "BLOCK_ERASE"} :
            Frame(k, c, RowOf(o.a), Blank) \in FrameSet
      /\ Frame("READ", c, PlaneBit(o.a), Blank) \in FrameSet
      /\ o.kind = "write" => Frame("PROGRAM_LOAD", c, PlaneBit(o.a), o.d) \in FrameSet
  BY <1>1, <1>2, FrameTyped
<1>6. /\ b \in Seq(FrameSet) /\ Len(b) = BodyLen(o)
      /\ b[Len(b) - 1] = Short("wait", c)
      /\ o.kind = "read" =>
           /\ b[Len(b)] = Frame("READ", c, PlaneBit(o.a), Blank)
           /\ b[Len(b) - 2] = Frame("PAGE_DATA_READ", c, RowOf(o.a), Blank)
      /\ o.kind = "write" =>
           /\ b[Len(b)] = Short("status", c)
           /\ b[Len(b) - 2] = Frame("PROGRAM_EXECUTE", c, RowOf(o.a), Blank)
           /\ b[Len(b) - 3] = Frame("PROGRAM_LOAD", c, PlaneBit(o.a), o.d)
           /\ b[Len(b) - 4] = Short("WRITE_ENABLE", c)
      /\ o.kind = "erase" =>
           /\ b[Len(b)] = Short("status", c)
           /\ b[Len(b) - 2] = Frame("BLOCK_ERASE", c, RowOf(o.a), Blank)
           /\ b[Len(b) - 3] = Short("WRITE_ENABLE", c)
  <2>1. CASE o.kind = "read"
    <3>1. b = <<Frame("PAGE_DATA_READ", c, RowOf(o.a), Blank), Short("wait", c),
                Frame("READ", c, PlaneBit(o.a), Blank)>>
      BY <2>1 DEF snaf_page_read
    <3>2. BodyLen(o) = 3
      BY <2>1 DEF BodyLen
    <3>3. Frame("PAGE_DATA_READ", c, RowOf(o.a), Blank) \in FrameSet
      BY <1>5
    <3> HIDE DEF b, c
    <3>4. b \in Seq(FrameSet) /\ Len(b) = 3
      BY <1>4, <1>5, <3>1, <3>3
    <3> QED BY <2>1, <3>1, <3>2, <3>4
  <2>2. CASE o.kind = "write"
    <3>1. b = <<Short("WRITE_ENABLE", c), Frame("PROGRAM_LOAD", c, PlaneBit(o.a), o.d),
                Frame("PROGRAM_EXECUTE", c, RowOf(o.a), Blank), Short("wait", c), Short("status", c)>>
      BY <2>2 DEF snaf_page_write
    <3>2. BodyLen(o) = 5
      BY <2>2 DEF BodyLen
    <3>3. Frame("PROGRAM_EXECUTE", c, RowOf(o.a), Blank) \in FrameSet
          /\ Frame("PROGRAM_LOAD", c, PlaneBit(o.a), o.d) \in FrameSet
      BY <1>5, <2>2
    <3> HIDE DEF b, c
    <3>4. b \in Seq(FrameSet) /\ Len(b) = 5
      BY <1>4, <3>1, <3>3
    <3> QED BY <2>2, <3>1, <3>2, <3>4
  <2>3. CASE o.kind = "erase"
    <3>1. b = <<Short("WRITE_ENABLE", c), Frame("BLOCK_ERASE", c, RowOf(o.a), Blank),
                Short("wait", c), Short("status", c)>>
      BY <2>3 DEF nsc_block_erase
    <3>2. BodyLen(o) = 4
      BY <2>3 DEF BodyLen
    <3>3. Frame("BLOCK_ERASE", c, RowOf(o.a), Blank) \in FrameSet
      BY <1>5
    <3> HIDE DEF b, c
    <3>4. b \in Seq(FrameSet) /\ Len(b) = 4
      BY <1>4, <3>1, <3>3
    <3> QED BY <2>3, <3>1, <3>2, <3>4
  <2> QED BY <1>1, <2>1, <2>2, <2>3
<1>7. Frames(o) = h \o b
  BY DEF Frames
<1> DEFINE q == h \o b
<1> HIDE DEF h, b
<1>8. h \in Seq(FrameSet) /\ b \in Seq(FrameSet)
  BY <1>3, <1>6
<1>9. /\ q \in Seq(FrameSet) /\ Len(q) = Len(h) + Len(b)
      /\ \A m \in 1 .. Len(b) : q[Len(q) - m + 1] = b[Len(b) - m + 1]
      /\ \A k \in 1 .. Len(h) : q[k] = h[k]
  BY <1>8, Joined
<1>0. BodyLen(o) = Len(b) /\ Len(b) \in {3, 4, 5} /\ (o.kind = "read" => Len(b) = 3)
      /\ (o.kind = "write" => Len(b) = 5) /\ (o.kind = "erase" => Len(b) = 4)
  BY <1>6 DEF BodyLen
<1> HIDE DEF q
<1>10. /\ q[Len(q) - 1 + 1] = b[Len(b)] /\ q[Len(q) - 2 + 1] = b[Len(b) - 1]
       /\ q[Len(q) - 3 + 1] = b[Len(b) - 2]
       /\ o.kind \in {"write", "erase"} => q[Len(q) - 4 + 1] = b[Len(b) - 3]
       /\ o.kind = "write" => q[Len(q) - 5 + 1] = b[Len(b) - 4]
  <2>1. /\ 1 \in 1 .. Len(b) /\ 2 \in 1 .. Len(b) /\ 3 \in 1 .. Len(b)
        /\ o.kind \in {"write", "erase"} => 4 \in 1 .. Len(b)
        /\ o.kind = "write" => 5 \in 1 .. Len(b)
    BY <1>0
  <2>2. Len(b) - 1 + 1 = Len(b) /\ Len(b) - 2 + 1 = Len(b) - 1 /\ Len(b) - 3 + 1 = Len(b) - 2
        /\ Len(b) - 4 + 1 = Len(b) - 3 /\ Len(b) - 5 + 1 = Len(b) - 4
    BY <1>0
  <2> QED BY <1>9, <2>1, <2>2
<1>11. Stacked => q[Len(q) - (BodyLen(o) + 1) + 1] = h[1]
  BY <1>0, <1>3, <1>9
<1>12. \A m : FromEnd(o, m) = q[Len(q) - m + 1]
  BY <1>7 DEF FromEnd, q
<1>13. Frames(o) = q
  BY <1>7 DEF q
<1>14. /\ FromEnd(o, 1) = b[Len(b)] /\ FromEnd(o, 2) = b[Len(b) - 1] /\ FromEnd(o, 3) = b[Len(b) - 2]
       /\ o.kind \in {"write", "erase"} => FromEnd(o, 4) = b[Len(b) - 3]
       /\ o.kind = "write" => FromEnd(o, 5) = b[Len(b) - 4]
       /\ Stacked => FromEnd(o, BodyLen(o) + 1) = h[1]
  BY <1>10, <1>11, <1>12
<1>15. Len(q) = BodyLen(o) + (IF Stacked THEN 1 ELSE 0)
  BY <1>0, <1>3, <1>9
<1> HIDE DEF c
<1>16. /\ Frames(o) \in Seq(FrameSet)
       /\ Len(Frames(o)) = BodyLen(o) + (IF Stacked THEN 1 ELSE 0)
       /\ Stacked => FromEnd(o, BodyLen(o) + 1) = Frame("select", c, s2d_die(o.a), Blank)
  BY <1>3, <1>9, <1>13, <1>14, <1>15
<1> QED BY <1>6, <1>14, <1>16 DEF c

\* An operation sends one frame that sets the chip to work and waits after it;
\* it resets nothing and changes no settings.
LEMMA OpKinds ==
    ASSUME NEW o \in PF!Ops, NEW k \in 1 .. Len(Frames(o))
    PROVE  /\ Frames(o)[k].kind \notin {"RESET", "load_uboot"} \cup Unprotect \cup Ode
           /\ Frames(o)[k].kind \in Jobs =>
                k < Len(Frames(o)) /\ Frames(o)[k + 1].kind = "wait"
                /\ Frames(o)[k + 1].cs = Frames(o)[k].cs
<1> DEFINE q == Frames(o)
           N == Len(q)
           m == N - k + 1
           c == CsOf(o.a)
<1>1. o.kind \in {"read", "write", "erase"} /\ N \in Nat /\ N = BodyLen(o) + (IF Stacked THEN 1 ELSE 0)
  BY OpTyped, OpFrames
<1>2. /\ BodyLen(o) \in {3, 4, 5} /\ (o.kind = "read" => BodyLen(o) = 3)
      /\ (o.kind = "write" => BodyLen(o) = 5) /\ (o.kind = "erase" => BodyLen(o) = 4)
  BY <1>1 DEF BodyLen
<1>3. m \in 1 .. N /\ N - m + 1 = k
  BY <1>1
<1>4. q[k] = FromEnd(o, m)
  BY <1>3 DEF FromEnd
<1>5. q[k + 1] = FromEnd(o, m - 1)
  <2>1. N - (m - 1) + 1 = k + 1
    BY <1>1, <1>3
  <2> QED BY <2>1 DEF FromEnd
<1> HIDE DEF m, N, q
<1>6. /\ FromEnd(o, 2).kind = "wait" /\ FromEnd(o, 2).cs = c
      /\ o.kind = "read" => FromEnd(o, 1).kind = "READ" /\ FromEnd(o, 3).kind = "PAGE_DATA_READ"
      /\ o.kind = "write" => /\ FromEnd(o, 1).kind = "status" /\ FromEnd(o, 3).kind = "PROGRAM_EXECUTE"
                             /\ FromEnd(o, 4).kind = "PROGRAM_LOAD"
                             /\ FromEnd(o, 5).kind = "WRITE_ENABLE"
      /\ o.kind = "erase" => /\ FromEnd(o, 1).kind = "status" /\ FromEnd(o, 3).kind = "BLOCK_ERASE"
                             /\ FromEnd(o, 4).kind = "WRITE_ENABLE"
      /\ FromEnd(o, 3).cs = c
      /\ Stacked => FromEnd(o, BodyLen(o) + 1).kind = "select"
  <2>1. /\ FromEnd(o, 2) = Short("wait", c)
        /\ o.kind = "read" =>
             /\ FromEnd(o, 1) = Frame("READ", c, PlaneBit(o.a), Blank)
             /\ FromEnd(o, 3) = Frame("PAGE_DATA_READ", c, RowOf(o.a), Blank)
        /\ o.kind = "write" =>
             /\ FromEnd(o, 1) = Short("status", c)
             /\ FromEnd(o, 3) = Frame("PROGRAM_EXECUTE", c, RowOf(o.a), Blank)
             /\ FromEnd(o, 4) = Frame("PROGRAM_LOAD", c, PlaneBit(o.a), o.d)
             /\ FromEnd(o, 5) = Short("WRITE_ENABLE", c)
        /\ o.kind = "erase" =>
             /\ FromEnd(o, 1) = Short("status", c)
             /\ FromEnd(o, 3) = Frame("BLOCK_ERASE", c, RowOf(o.a), Blank)
             /\ FromEnd(o, 4) = Short("WRITE_ENABLE", c)
        /\ Stacked => FromEnd(o, BodyLen(o) + 1) = Frame("select", c, s2d_die(o.a), Blank)
    BY OpFrames
  <2> HIDE DEF c
  <2> QED BY <1>1, <2>1 DEF Frame, Short
<1>7. /\ FromEnd(o, m).kind \notin {"RESET", "load_uboot"} \cup Unprotect \cup Ode
      /\ FromEnd(o, m).kind \in Jobs => m = 3
  <2>1. m \in 1 .. BodyLen(o) \/ (Stacked /\ m = BodyLen(o) + 1)
    BY <1>1, <1>2, <1>3
  <2>2. CASE Stacked /\ m = BodyLen(o) + 1
    BY <1>6, <2>2 DEF Jobs, Unprotect, Ode
  <2>3. CASE m \in 1 .. BodyLen(o)
    <3>1. CASE o.kind = "read"
      <4>1. m \in {1, 2, 3}
        BY <1>2, <2>3, <3>1
      <4> QED BY <1>6, <3>1, <4>1 DEF Jobs, Unprotect, Ode
    <3>2. CASE o.kind = "write"
      <4>1. m \in {1, 2, 3, 4, 5}
        BY <1>2, <2>3, <3>2
      <4> QED BY <1>6, <3>2, <4>1 DEF Jobs, Unprotect, Ode
    <3>3. CASE o.kind = "erase"
      <4>1. m \in {1, 2, 3, 4}
        BY <1>2, <2>3, <3>3
      <4> QED BY <1>6, <3>3, <4>1 DEF Jobs, Unprotect, Ode
    <3> QED BY <1>1, <3>1, <3>2, <3>3
  <2> QED BY <2>1, <2>2, <2>3
<1>8. m = 3 => k < N /\ q[k + 1].kind = "wait" /\ q[k + 1].cs = q[k].cs
  BY <1>1, <1>2, <1>3, <1>4, <1>5, <1>6
<1>9. q[k].kind \notin {"RESET", "load_uboot"} \cup Unprotect \cup Ode
  BY <1>4, <1>7
<1>10. q[k].kind \in Jobs => k < N /\ q[k + 1].kind = "wait" /\ q[k + 1].cs = q[k].cs
  BY <1>4, <1>7, <1>8
<1> QED BY <1>9, <1>10 DEF q, N

LEMMA OpScript ==
    ASSUME NEW o \in PF!Ops
    PROVE  /\ Frames(o) \in Seq(FrameSet) /\ Frames(o) # <<>> /\ WaitsAfterJob(Frames(o))
           /\ \A K \in {Unprotect, Ode} : SetAfterReset(Frames(o), K)
           /\ \A k \in 1 .. Len(Frames(o)) : Frames(o)[k].kind \notin Ode \cup {"RESET"}
<1>1. Frames(o) \in Seq(FrameSet) /\ Len(Frames(o)) > 0
  BY OpFrames DEF BodyLen
<1>2. Frames(o) # <<>>
  BY <1>1
<1>3. WaitsAfterJob(Frames(o))
  BY OpKinds DEF WaitsAfterJob
<1>4. \A k \in 1 .. Len(Frames(o)) : Frames(o)[k].kind # "RESET" /\ Frames(o)[k].kind \notin Ode
  BY OpKinds
<1>5. \A K \in {Unprotect, Ode} : SetAfterReset(Frames(o), K)
  BY <1>4 DEF SetAfterReset
<1> QED BY <1>1, <1>2, <1>3, <1>4, <1>5

-----------------------------------------------------------------------------
(* What is left of the lists when their first frame is sent.               *)

LEMMA TailIs ==
    ASSUME NEW q \in Seq(FrameSet), q # <<>>
    PROVE  /\ Tail(q) \in Seq(FrameSet) /\ Len(q) \in Nat \ {0}
           /\ Len(Tail(q)) = Len(q) - 1 /\ Head(q) = q[1] /\ Head(q) \in FrameSet
           /\ \A k \in 1 .. Len(q) - 1 : Tail(q)[k] = q[k + 1]
           /\ \A k \in 2 .. Len(q) : Tail(q)[k - 1] = q[k]
           /\ Tail(q) = <<>> <=> Len(q) = 1
<1>1. /\ Tail(q) \in Seq(FrameSet) /\ Len(q) \in Nat \ {0} /\ Len(Tail(q)) = Len(q) - 1
      /\ Head(q) = q[1] /\ Head(q) \in FrameSet
  OBVIOUS
<1>2. \A k \in 1 .. Len(q) - 1 : Tail(q)[k] = q[k + 1]
  OBVIOUS
<1>3. ASSUME NEW k \in 2 .. Len(q) PROVE Tail(q)[k - 1] = q[k]
  <2>1. k - 1 \in 1 .. Len(q) - 1 /\ (k - 1) + 1 = k
    BY <1>1
  <2> QED BY <1>2, <2>1
<1>4. Tail(q) = <<>> <=> Len(q) = 1
  <2>1. \A s \in Seq(FrameSet) : (s = <<>>) <=> (Len(s) = 0)
    BY EmptySeq
  <2> DEFINE t == Tail(q)
  <2> HIDE DEF t
  <2>2. t \in Seq(FrameSet) /\ Len(t) = Len(q) - 1
    BY <1>1 DEF t
  <2>3. t = <<>> <=> Len(t) = 0
    BY <2>1, <2>2
  <2>4. t = <<>> <=> Len(q) = 1
    BY <1>1, <2>2, <2>3
  <2> QED BY <2>4 DEF t
<1> QED BY <1>1, <1>2, <1>3, <1>4

LEMMA WaitsTail ==
    ASSUME NEW q \in Seq(FrameSet), q # <<>>, WaitsAfterJob(q)
    PROVE  /\ WaitsAfterJob(Tail(q))
           /\ Head(q).kind \in Jobs => MetPatiently(Tail(q), Head(q).cs)
<1> DEFINE t == Tail(q)
           N == Len(q)
<1>1. /\ t \in Seq(FrameSet) /\ N \in Nat \ {0} /\ Len(t) = N - 1 /\ Head(q) = q[1]
      /\ \A k \in 1 .. N - 1 : t[k] = q[k + 1]
  BY TailIs
<1>2. \A n \in 1 .. N : q[n].kind \in Jobs => n < N /\ q[n + 1].kind = "wait" /\ q[n + 1].cs = q[n].cs
  BY DEF WaitsAfterJob
<1> HIDE DEF t, N
<1>3. ASSUME NEW n \in 1 .. Len(t), t[n].kind \in Jobs
      PROVE  n < Len(t) /\ t[n + 1].kind = "wait" /\ t[n + 1].cs = t[n].cs
  <2>1. n \in 1 .. N - 1 /\ n + 1 \in 1 .. N /\ t[n] = q[n + 1]
    BY <1>1
  <2>2. n + 1 < N /\ q[(n + 1) + 1].kind = "wait" /\ q[(n + 1) + 1].cs = q[n + 1].cs
    BY <1>2, <1>3, <2>1
  <2>3. n + 1 \in 1 .. N - 1
    BY <1>1, <2>1, <2>2
  <2>4. t[n + 1] = q[(n + 1) + 1]
    BY <1>1, <2>3
  <2> QED BY <1>1, <2>1, <2>2, <2>3, <2>4
<1>4. ASSUME q[1].kind \in Jobs PROVE MetPatiently(t, q[1].cs)
  <2>1. 1 < N /\ q[1 + 1].kind = "wait" /\ q[1 + 1].cs = q[1].cs
    BY <1>1, <1>2, <1>4
  <2>2. 1 \in 1 .. N - 1 /\ 1 \in 1 .. Len(t)
    BY <1>1, <2>1
  <2>3. t[1] = q[1 + 1]
    BY <1>1, <2>2
  <2>4. \A k \in 1 .. 1 - 1 : t[k].cs # q[1].cs
    OBVIOUS
  <2> QED BY <2>1, <2>2, <2>3, <2>4 DEF MetPatiently, Patient
<1> QED BY <1>1, <1>3, <1>4 DEF WaitsAfterJob, t

LEMMA MetTail ==
    ASSUME NEW q \in Seq(FrameSet), q # <<>>, NEW c, MetPatiently(q, c)
    PROVE  \/ Head(q).cs = c /\ Head(q).kind \in Patient
           \/ Head(q).cs # c /\ MetPatiently(Tail(q), c)
<1> DEFINE t == Tail(q)
           N == Len(q)
<1>1. /\ t \in Seq(FrameSet) /\ N \in Nat \ {0} /\ Len(t) = N - 1 /\ Head(q) = q[1]
      /\ \A k \in 1 .. N - 1 : t[k] = q[k + 1]
      /\ \A k \in 2 .. N : t[k - 1] = q[k]
  BY TailIs
<1>2. PICK n \in 1 .. N : /\ q[n].cs = c /\ q[n].kind \in Patient
                          /\ \A k \in 1 .. n - 1 : q[k].cs # c
  BY DEF MetPatiently
<1> HIDE DEF t, N
<1>3. CASE n = 1
  BY <1>1, <1>2, <1>3
<1>4. CASE n # 1
  <2>1. n \in 2 .. N /\ n - 1 \in 1 .. Len(t) /\ 1 \in 1 .. n - 1
    BY <1>1, <1>4
  <2>2. t[n - 1] = q[n] /\ q[1].cs # c
    BY <1>1, <1>2, <2>1
  <2>3. ASSUME NEW k \in 1 .. (n - 1) - 1 PROVE t[k].cs # c
    <3>1. k \in 1 .. N - 1 /\ k + 1 \in 1 .. n - 1
      BY <1>1, <2>1
    <3> QED BY <1>1, <1>2, <3>1
  <2>4. MetPatiently(t, c)
    BY <1>2, <2>1, <2>2, <2>3 DEF MetPatiently
  <2> QED BY <1>1, <2>2, <2>4 DEF t
<1> QED BY <1>3, <1>4

LEMMA NoSelectTail ==
    ASSUME NEW q \in Seq(FrameSet), q # <<>>, NEW c, NEW i \in 1 .. Len(q), NEW j \in 1 .. Len(q)
    PROVE  /\ NoSelect(q, c, 1, j) => NoSelect(Tail(q), c, 1, j - 1)
           /\ 1 < i /\ NoSelect(q, c, i, j) => NoSelect(Tail(q), c, i - 1, j - 1)
           /\ NoSelect(q, c, i + 1, j) => NoSelect(Tail(q), c, (i - 1) + 1, j - 1)
<1> DEFINE t == Tail(q)
           N == Len(q)
<1>1. N \in Nat \ {0} /\ \A k \in 1 .. N - 1 : t[k] = q[k + 1]
  BY TailIs
<1> HIDE DEF t, N
<1>2. ASSUME NEW m \in 2 .. N + 1, NoSelect(q, c, m, j) PROVE NoSelect(t, c, m - 1, j - 1)
  <2>1. ASSUME NEW k \in m - 1 .. j - 1 PROVE ~(t[k].kind = "select" /\ t[k].cs = c)
    <3>1. k + 1 \in m .. j /\ k \in 1 .. N - 1
      BY <1>1 DEF N
    <3> QED BY <1>1, <1>2, <3>1 DEF NoSelect
  <2> QED BY <2>1 DEF NoSelect
<1>3. ASSUME NoSelect(q, c, 1, j) PROVE NoSelect(t, c, 1, j - 1)
  <2>1. NoSelect(q, c, 2, j)
    BY <1>3 DEF NoSelect
  <2>2. NoSelect(t, c, 2 - 1, j - 1)
    BY <1>1, <1>2, <2>1
  <2> QED BY <2>2
<1>4. ASSUME 1 < i, NoSelect(q, c, i, j) PROVE NoSelect(t, c, i - 1, j - 1)
  <2>1. i \in 2 .. N + 1
    BY <1>1, <1>4 DEF N
  <2> QED BY <1>2, <1>4, <2>1
<1>5. ASSUME NoSelect(q, c, i + 1, j) PROVE NoSelect(t, c, (i - 1) + 1, j - 1)
  <2>1. i + 1 \in 2 .. N + 1 /\ (i + 1) - 1 = (i - 1) + 1
    BY <1>1 DEF N
  <2> QED BY <1>2, <1>5, <2>1
<1> QED BY <1>3, <1>4, <1>5 DEF t

\* A die that the list reaches is reached by its first frame, or by the rest.
LEMMA ReachesTail ==
    ASSUME NEW q \in Seq(FrameSet), q # <<>>, NEW K \in {Unprotect, Ode},
           NEW c, NEW d, NEW s, Reaches(q, c, d, s, K)
    PROVE  \/ Head(q).kind \in K /\ Head(q).cs = c /\ s = d
           \/ /\ Head(q).kind = "select" /\ Head(q).cs = c
              /\ Reaches(Tail(q), c, d, Head(q).x, K)
           \/ /\ ~(Head(q).kind = "select" /\ Head(q).cs = c)
              /\ Reaches(Tail(q), c, d, s, K)
<1> DEFINE t == Tail(q)
           N == Len(q)
<1>1. /\ t \in Seq(FrameSet) /\ N \in Nat \ {0} /\ Len(t) = N - 1 /\ Head(q) = q[1]
      /\ \A k \in 2 .. N : t[k - 1] = q[k]
  BY TailIs
<1>2. PICK n \in 1 .. N :
        /\ q[n].kind \in K /\ q[n].cs = c
        /\ \/ s = d /\ NoSelect(q, c, 1, n)
           \/ /\ d = 1
              /\ \E j \in 1 .. n : /\ q[j].kind = "select" /\ q[j].cs = c /\ q[j].x = 1
                                   /\ NoSelect(q, c, j + 1, n)
  BY DEF Reaches
<1>3. "select" \notin K
  BY DEF Unprotect, Ode
<1>4. CASE n = 1
  <2>1. s = d
    <3>1. SUFFICES ASSUME NEW j \in 1 .. n, q[j].kind = "select" PROVE FALSE
      BY <1>2
    <3>2. j = n
      BY <1>4, <3>1
    <3> QED BY <1>2, <1>3, <3>1, <3>2
  <2> QED BY <1>1, <1>2, <1>4, <2>1
<1>5. CASE n # 1
  <2>1. n \in 2 .. N /\ n - 1 \in 1 .. Len(t)
    BY <1>1, <1>5
  <2>2. t[n - 1].kind \in K /\ t[n - 1].cs = c
    BY <1>1, <1>2, <2>1
  <2>3. CASE s = d /\ NoSelect(q, c, 1, n)
    <3>1. NoSelect(t, c, 1, n - 1)
      BY <2>3, NoSelectTail
    <3>2. ~(q[1].kind = "select" /\ q[1].cs = c)
      BY <1>1, <2>3 DEF NoSelect
    <3>3. Reaches(t, c, d, s, K)
      <4> HIDE DEF t
      <4> QED BY <2>1, <2>2, <2>3, <3>1 DEF Reaches
    <3> QED BY <1>1, <3>2, <3>3
  <2>4. ASSUME d = 1, NEW j \in 1 .. n, q[j].kind = "select", q[j].cs = c, q[j].x = 1,
               NoSelect(q, c, j + 1, n)
        PROVE  \/ q[1].kind = "select" /\ q[1].cs = c /\ Reaches(t, c, d, q[1].x, K)
               \/ ~(q[1].kind = "select" /\ q[1].cs = c) /\ Reaches(t, c, d, s, K)
    <3>0. j \in 1 .. N
      BY <2>1
    <3>1. NoSelect(t, c, (j - 1) + 1, n - 1)
      BY <2>4, <3>0, NoSelectTail
    <3>2. CASE j = 1
      <4>1. NoSelect(t, c, 1, n - 1)
        BY <3>1, <3>2
      <4>2. q[1].x = d
        BY <2>4, <3>2
      <4>3. Reaches(t, c, d, q[1].x, K)
        <5> HIDE DEF t
        <5> QED BY <2>1, <2>2, <4>1, <4>2 DEF Reaches
      <4> QED BY <2>4, <3>2, <4>3
    <3>3. CASE j # 1
      <4>1. j - 1 \in 1 .. n - 1 /\ j \in 2 .. N
        BY <2>1, <3>3, <3>0
      <4>2. t[j - 1] = q[j]
        BY <1>1, <4>1
      <4>3. \A z : Reaches(t, c, d, z, K)
        <5> HIDE DEF t
        <5> QED BY <2>1, <2>2, <2>4, <3>1, <4>1, <4>2 DEF Reaches
      <4> QED BY <4>3
    <3> QED BY <3>2, <3>3
  <2> QED BY <1>1, <1>2, <2>3, <2>4
<1> QED BY <1>4, <1>5

LEMMA SetTail ==
    ASSUME NEW q \in Seq(FrameSet), q # <<>>, NEW K \in {Unprotect, Ode}, SetAfterReset(q, K)
    PROVE  /\ SetAfterReset(Tail(q), K)
           /\ Head(q).kind = "RESET" => \A s : Reaches(Tail(q), Head(q).cs, s, s, K)
<1> DEFINE t == Tail(q)
           N == Len(q)
<1>1. /\ t \in Seq(FrameSet) /\ N \in Nat \ {0} /\ Len(t) = N - 1 /\ Head(q) = q[1]
      /\ \A k \in 1 .. N - 1 : t[k] = q[k + 1]
      /\ \A k \in 2 .. N : t[k - 1] = q[k]
  BY TailIs
<1>2. ASSUME NEW m \in 1 .. N, q[m].kind = "RESET"
      PROVE  \E n \in m + 1 .. N : /\ t[n - 1].kind \in K /\ t[n - 1].cs = q[m].cs
                                   /\ n - 1 \in m .. Len(t) /\ NoSelect(t, q[m].cs, 1, n - 1)
  <2>1. PICK n \in m + 1 .. N :
           q[n].kind \in K /\ q[n].cs = q[m].cs /\ NoSelect(q, q[m].cs, 1, n)
    BY <1>2 DEF SetAfterReset
  <2>2. n \in 2 .. N /\ n - 1 \in m .. Len(t) /\ n \in 1 .. N
    BY <1>1
  <2>3. t[n - 1] = q[n]
    BY <1>1, <2>2
  <2>4. NoSelect(t, q[m].cs, 1, n - 1)
    BY <2>1, <2>2, NoSelectTail
  <2> QED BY <2>1, <2>2, <2>3, <2>4
<1> HIDE DEF t, N
<1>3. ASSUME NEW m \in 1 .. Len(t), t[m].kind = "RESET"
      PROVE  \E n \in m + 1 .. Len(t) :
                t[n].kind \in K /\ t[n].cs = t[m].cs /\ NoSelect(t, t[m].cs, 1, n)
  <2>1. m + 1 \in 1 .. N /\ q[m + 1] = t[m]
    BY <1>1
  <2>2. PICK n \in (m + 1) + 1 .. N :
              /\ t[n - 1].kind \in K /\ t[n - 1].cs = q[m + 1].cs
              /\ n - 1 \in m + 1 .. Len(t) /\ NoSelect(t, q[m + 1].cs, 1, n - 1)
    BY <1>2, <1>3, <2>1
  <2> QED BY <2>1, <2>2
<1>4. ASSUME q[1].kind = "RESET", NEW s PROVE Reaches(t, q[1].cs, s, s, K)
  <2>1. PICK n \in 1 + 1 .. N :
              /\ t[n - 1].kind \in K /\ t[n - 1].cs = q[1].cs
              /\ n - 1 \in 1 .. Len(t) /\ NoSelect(t, q[1].cs, 1, n - 1)
    BY <1>1, <1>2, <1>4
  <2> QED BY <2>1 DEF Reaches
<1> QED BY <1>1, <1>3, <1>4 DEF SetAfterReset, t

-----------------------------------------------------------------------------
(* What a step does.                                                       *)

LEMMA FrameFields ==
    ASSUME NEW f \in FrameSet
    PROVE  /\ f.kind \in Kinds /\ f.cs \in Cs /\ f.x \in Nat /\ f.d \in Contents
           /\ f.kind \in {"PAGE_DATA_READ", "PROGRAM_EXECUTE", "BLOCK_ERASE"} => f.x \in Rows
           /\ f.kind = "select" => f.x \in Dies
           /\ f.kind \in {"PROGRAM_LOAD", "READ"} => f.x \in Planes
BY DEF FrameSet, FrameOf

LEMMA UnitIs ==
    ASSUME TypeInv, todo # <<>>
    PROVE  /\ frame \in FrameSet /\ frame.cs \in Cs /\ frame.kind \in Kinds
           /\ unit \in Units /\ unit[1] = frame.cs /\ unit[2] = sel[frame.cs]
           /\ chip[unit] \in Chip /\ (chip[unit].oip <=> chip[unit].job # NoJob)
           /\ array[unit] \in [Rows -> Contents]
<1>1. frame \in FrameSet
  BY TailIs DEF TypeInv, frame
<1>2. frame.cs \in Cs /\ frame.kind \in Kinds
  BY <1>1, FrameFields
<1>3. unit \in Units /\ unit[1] = frame.cs /\ unit[2] = sel[frame.cs]
  BY <1>2 DEF TypeInv, unit, Units
<1> HIDE DEF unit
<1> QED BY <1>1, <1>2, <1>3 DEF TypeInv

\* What Obeyed, and the other ways a frame changes a chip, have in common: one die
\* changes, to a state of a chip.
LEMMA ChipTyped ==
    ASSUME NEW c \in Chip, c.oip <=> c.job # NoJob
    PROVE  /\ [c EXCEPT !.wel = TRUE] \in Chip
           /\ [c EXCEPT !.prot = FALSE] \in Chip
           /\ \A b \in BOOLEAN : [c EXCEPT !.ode = b] \in Chip
           /\ \A k \in JobKinds \ {"none"}, r \in Rows :
                /\ [c EXCEPT !.oip = TRUE, !.job = [kind |-> k, row |-> r]] \in Chip
                /\ [kind |-> k, row |-> r] # NoJob
           /\ \A p \in Planes, x \in Contents : [c EXCEPT !.cache[p] = x] \in Chip
           /\ \A x, y \in BOOLEAN :
                [c EXCEPT !.oip = TRUE, !.wel = FALSE, !.prot = x, !.ode = y,
                          !.job = [kind |-> "reset", row |-> 0]] \in Chip
           /\ \A b \in BOOLEAN :
                [c EXCEPT !.oip = FALSE, !.wel = FALSE, !.fail = b, !.job = NoJob] \in Chip
           /\ \A p \in Planes, x \in Contents :
                [c EXCEPT !.oip = FALSE, !.cache[p] = x, !.job = NoJob] \in Chip
<1>0. NoJob \in [kind : JobKinds, row : Rows] /\ 0 \in Rows
  BY SpiFacts DEF NoJob, JobKinds
<1>1. [c EXCEPT !.wel = TRUE] \in Chip /\ [c EXCEPT !.prot = FALSE] \in Chip
  BY DEF Chip
<1>2. \A b \in BOOLEAN : [c EXCEPT !.ode = b] \in Chip
  BY DEF Chip
<1>3. ASSUME NEW k \in JobKinds \ {"none"}, NEW r \in Rows
      PROVE  /\ [c EXCEPT !.oip = TRUE, !.job = [kind |-> k, row |-> r]] \in Chip
             /\ [kind |-> k, row |-> r] # NoJob
  BY DEF Chip, NoJob
<1>4. ASSUME NEW p \in Planes, NEW x \in Contents PROVE [c EXCEPT !.cache[p] = x] \in Chip
  BY DEF Chip
<1>5. ASSUME NEW x \in BOOLEAN, NEW y \in BOOLEAN
      PROVE  [c EXCEPT !.oip = TRUE, !.wel = FALSE, !.prot = x, !.ode = y,
                       !.job = [kind |-> "reset", row |-> 0]] \in Chip
  BY <1>0 DEF Chip, JobKinds
<1>6. ASSUME NEW b \in BOOLEAN
      PROVE  [c EXCEPT !.oip = FALSE, !.wel = FALSE, !.fail = b, !.job = NoJob] \in Chip
  BY <1>0 DEF Chip
<1>7. ASSUME NEW p \in Planes, NEW x \in Contents
      PROVE  [c EXCEPT !.oip = FALSE, !.cache[p] = x, !.job = NoJob] \in Chip
  BY <1>0 DEF Chip
<1> QED BY <1>1, <1>2, <1>3, <1>4, <1>5, <1>6, <1>7

\* The die that a frame reaches: what changes in it, by the kind of the frame.
DieStep(f, c, e) ==
    /\ e \in Chip
    /\ e.oip <=> e.job # NoJob
    /\ e.oip /\ ~c.oip => f.kind \in Jobs
    /\ f.kind \in {"wait", "load_uboot"} => ~c.oip
    /\ e.prot /\ ~c.prot => f.kind = "RESET"
    /\ f.kind = "UNPROTECT" /\ ~c.oip => ~e.prot
    /\ e.ode # c.ode => f.kind \in Ode \cup {"RESET"}
    /\ f.kind \in Ode /\ ~c.oip => (e.ode <=> f.kind = "ODE_ON")

\* Every frame reaches the selected die of its chip and no other.
LEMMA SendStep ==
    ASSUME TypeInv, Send
    PROVE  /\ todo # <<>> /\ todo' = Tail(todo) /\ Advance
           /\ chip' \in [Units -> Chip]
           /\ \A v \in Units : v # unit => chip'[v] = chip[v]
           /\ DieStep(frame, chip[unit], chip'[unit])
           /\ frame.kind = "select" => sel' = [sel EXCEPT ![frame.cs] = frame.x] /\ chip' = chip
           /\ frame.kind # "select" => sel' = sel
           /\ open' \subseteq Cs
           /\ frame.kind # "RESET" => array' = array
           /\ frame.kind = "RESET" => Put(unit, JobRows(chip[unit].job), Junk)
           /\ ret' \in Contents \cup {"none", "OK", "fail"}
<1> DEFINE c == chip[unit]
           Common == /\ todo # <<>> /\ todo' = Tail(todo) /\ Advance
                     /\ open' \subseteq Cs
                     /\ ret' \in Contents \cup {"none", "OK", "fail"}
           OneDie == /\ chip' \in [Units -> Chip]
                     /\ \A v \in Units : v # unit => chip'[v] = chip[v]
                     /\ DieStep(frame, c, chip'[unit])
<1>1. todo # <<>>
  BY DEF Send, _pio_raw_cmd, select_die, program_load, read_cache, nsc_wait_spi_nand_oip_ready,
         check_status, reset_chip, load_uboot, IsNext
<1>2. /\ frame \in FrameSet /\ frame.cs \in Cs /\ unit \in Units
      /\ c \in Chip /\ (c.oip <=> c.job # NoJob)
  BY <1>1, UnitIs
<1>3. chip \in [Units -> Chip] /\ open \subseteq Cs /\ ret \in Contents \cup {"none", "OK", "fail"}
  BY DEF TypeInv
<1>4. ASSUME NEW lines, NEW e, Obeyed(lines, e), frame.cs \notin lines,
             c.oip => DieStep(frame, c, c), ~c.oip => e \in Chip /\ DieStep(frame, c, e)
      PROVE  OneDie
  <2> HIDE DEF unit, frame, DieStep
  <2>1. CASE c.oip
    <3>1. chip' = chip
      BY <1>4, <2>1 DEF Obeyed
    <3> QED BY <1>2, <1>3, <1>4, <2>1, <3>1
  <2>2. CASE ~c.oip
    <3>1. chip' = [chip EXCEPT ![unit] = e]
      BY <1>4, <2>2 DEF Obeyed
    <3> QED BY <1>2, <1>3, <1>4, <2>2, <3>1
  <2> QED BY <2>1, <2>2
<1>5. ASSUME UNCHANGED chip, DieStep(frame, c, c) PROVE OneDie
  BY <1>2, <1>3, <1>5
<1>6. c.oip \in BOOLEAN /\ c.prot \in BOOLEAN /\ c.ode \in BOOLEAN
  BY <1>2 DEF Chip
<1>7. frame.kind \notin {"wait", "load_uboot", "UNPROTECT"} \cup Ode => DieStep(frame, c, c)
  BY <1>2 DEF DieStep
<1>8. (frame.kind \notin {"wait", "load_uboot"} /\ c.oip) => DieStep(frame, c, c)
  BY <1>2 DEF DieStep
<1>9. frame.kind \in {"wait", "load_uboot"} /\ ~c.oip => DieStep(frame, c, c)
  BY <1>2 DEF DieStep, Ode
<1>10. \A x \in Planes : Plane(x) \in Planes
  BY DEF Plane, Planes
<1> HIDE DEF OneDie, Common
<1>11. CASE _pio_raw_cmd
  <2>1. Common /\ frame.cs \notin open' /\ sel' = sel /\ array' = array
    BY <1>1, <1>3, <1>11 DEF _pio_raw_cmd, Advance, Toggle, Common
  <2>2. frame.kind \in {"WRITE_ENABLE", "PAGE_DATA_READ", "PROGRAM_EXECUTE", "BLOCK_ERASE",
                        "UNPROTECT", "ODE_ON", "ODE_OFF", "RDID"}
    BY <1>11 DEF _pio_raw_cmd, IsNext
  <2>3. ASSUME frame.kind = "RDID", UNCHANGED chip PROVE OneDie
    BY <1>5, <1>7, <2>3 DEF Ode
  <2>4. ASSUME frame.kind = "WRITE_ENABLE", Obeyed(open', [c EXCEPT !.wel = TRUE]) PROVE OneDie
    <3> DEFINE e == [c EXCEPT !.wel = TRUE]
    <3>0. e \in Chip
      BY <1>2, ChipTyped
    <3>1. e \in Chip /\ e.oip = c.oip /\ e.job = c.job /\ e.prot = c.prot /\ e.ode = c.ode
      BY <1>2, <3>0 DEF Chip
    <3> HIDE DEF e
    <3>2. DieStep(frame, c, c) /\ DieStep(frame, c, e)
      BY <1>2, <1>7, <2>4, <3>1 DEF DieStep, Ode
    <3>3. Obeyed(open', e)
      BY <2>4 DEF e
    <3> QED BY <1>4, <2>1, <3>1, <3>2, <3>3
  <2>5. ASSUME NEW k \in JobKinds \ {"none"}, frame.kind \in Jobs, frame.x \in Rows,
               NEW e, e = Job(k) \/ e = c, Obeyed(open', e)
        PROVE  OneDie
    <3>1. Job(k) = [c EXCEPT !.oip = TRUE, !.job = [kind |-> k, row |-> frame.x]]
      BY DEF Job
    <3>2. Job(k) \in Chip /\ [kind |-> k, row |-> frame.x] # NoJob
      <4> DEFINE x == frame.x
      <4>1. x \in Rows
        BY <2>5
      <4> HIDE DEF x, c
      <4>2. /\ [c EXCEPT !.oip = TRUE, !.job = [kind |-> k, row |-> x]] \in Chip
            /\ [kind |-> k, row |-> x] # NoJob
        BY <1>2, <4>1, ChipTyped
      <4> QED BY <3>1, <4>2 DEF x
    <3>3. /\ Job(k).oip = TRUE /\ Job(k).job = [kind |-> k, row |-> frame.x]
          /\ Job(k).prot = c.prot /\ Job(k).ode = c.ode
      BY <1>2, <3>1 DEF Chip
    <3>4. DieStep(frame, c, c) /\ DieStep(frame, c, Job(k))
      <4>1. frame.kind \notin {"wait", "load_uboot", "UNPROTECT"} \cup Ode
        BY <2>5 DEF Jobs, Ode
      <4> QED BY <1>2, <1>7, <2>5, <3>2, <3>3, <4>1 DEF DieStep
    <3>5. e \in Chip /\ DieStep(frame, c, e)
      BY <1>2, <2>5, <3>2, <3>4
    <3> QED BY <1>4, <2>1, <2>5, <3>4, <3>5
  <2>6. ASSUME frame.kind \in {"PAGE_DATA_READ", "PROGRAM_EXECUTE", "BLOCK_ERASE"},
               \E k \in {"read", "program", "erase"} : Obeyed(open', Job(k)) \/ Obeyed(open', c)
        PROVE  OneDie
    <3>1. PICK k \in {"read", "program", "erase"} : Obeyed(open', Job(k)) \/ Obeyed(open', c)
      BY <2>6
    <3>2. k \in JobKinds \ {"none"} /\ frame.kind \in Jobs /\ frame.x \in Rows
      BY <1>2, <2>6, FrameFields DEF JobKinds, Jobs
    <3>3. CASE Obeyed(open', Job(k))
      BY <2>5, <3>2, <3>3
    <3>4. CASE Obeyed(open', c)
      BY <2>5, <3>2, <3>4
    <3> QED BY <3>1, <3>3, <3>4
  <2>7. ASSUME frame.kind = "UNPROTECT", Obeyed(open', [c EXCEPT !.prot = FALSE]) PROVE OneDie
    <3> DEFINE e == [c EXCEPT !.prot = FALSE]
    <3>0. e \in Chip
      BY <1>2, ChipTyped
    <3>1. e \in Chip /\ e.oip = c.oip /\ e.job = c.job /\ e.prot = FALSE /\ e.ode = c.ode
      BY <1>2, <3>0 DEF Chip
    <3> HIDE DEF e
    <3>2. DieStep(frame, c, e)
      BY <1>2, <2>7, <3>1 DEF DieStep, Ode
    <3>3. Obeyed(open', e) /\ (c.oip => DieStep(frame, c, c))
      BY <1>8, <2>7 DEF e
    <3> QED BY <1>4, <2>1, <3>1, <3>2, <3>3
  <2>8. ASSUME frame.kind \in {"ODE_ON", "ODE_OFF"},
               Obeyed(open', [c EXCEPT !.ode = (frame.kind = "ODE_ON")])
        PROVE  OneDie
    <3> DEFINE b == (frame.kind = "ODE_ON")
               e == [c EXCEPT !.ode = b]
    <3>1. e \in Chip /\ e.oip = c.oip /\ e.job = c.job /\ e.prot = c.prot /\ e.ode = b /\ b \in BOOLEAN
      <4>0. b \in BOOLEAN
        OBVIOUS
      <4> HIDE DEF b
      <4>1. e \in Chip
        BY <1>2, <4>0, ChipTyped
      <4>2. e.oip = c.oip /\ e.job = c.job /\ e.prot = c.prot /\ e.ode = b
        BY <1>2 DEF Chip
      <4> QED BY <4>0, <4>1, <4>2
    <3> HIDE DEF e
    <3>2. DieStep(frame, c, e)
      BY <1>2, <2>8, <3>1 DEF DieStep, Ode
    <3>3. Obeyed(open', e) /\ (c.oip => DieStep(frame, c, c))
      BY <1>8, <2>8 DEF e
    <3> QED BY <1>4, <2>1, <3>1, <3>2, <3>3
  <2>9. OneDie
    <3> HIDE DEF unit, frame
    <3> QED BY <1>11, <2>3, <2>4, <2>6, <2>7, <2>8 DEF _pio_raw_cmd
  <2>10. frame.kind # "select" /\ frame.kind # "RESET"
    BY <2>2
  <2> QED BY <2>1, <2>9, <2>10 DEF OneDie, Common
<1>12. CASE select_die
  <2>1. Common /\ frame.kind = "select" /\ chip' = chip /\ array' = array
        /\ sel' = [sel EXCEPT ![frame.cs] = frame.x]
    BY <1>1, <1>3, <1>12 DEF select_die, Advance, Toggle, Common, IsNext
  <2>2. OneDie
    BY <1>5, <1>7, <2>1 DEF Ode
  <2> QED BY <2>1, <2>2 DEF OneDie, Common
<1>13. CASE program_load
  <2>1. Common /\ frame.kind = "PROGRAM_LOAD" /\ array' = array /\ sel' = sel
    BY <1>1, <1>2, <1>3, <1>13 DEF program_load, Advance, Common, IsNext
  <2> DEFINE p == Plane(frame.x)
             y == IF frame.cs \in open THEN Junk ELSE frame.d
             e == [c EXCEPT !.cache[p] = y]
  <2>2. p \in Planes /\ y \in Contents
    BY <1>2, <1>10, <2>1, FrameFields, SpiFacts
  <2>3. Obeyed({}, e)
    BY <1>13 DEF program_load
  <2> HIDE DEF p, y
  <2> HIDE DEF c
  <2>a. e \in Chip
    BY <1>2, <2>2, ChipTyped
  <2>4. e \in Chip /\ e.oip = c.oip /\ e.job = c.job /\ e.prot = c.prot /\ e.ode = c.ode
    BY <1>2, <2>a DEF Chip
  <2> HIDE DEF e
  <2>5. DieStep(frame, c, c) /\ DieStep(frame, c, e)
    BY <1>2, <1>7, <2>1, <2>4 DEF DieStep, Ode
  <2>6. OneDie
    BY <1>4, <2>3, <2>4, <2>5 DEF c
  <2> QED BY <2>1, <2>6 DEF OneDie, Common, c
<1>14. CASE read_cache
  <2>1. frame.kind = "READ" /\ UNCHANGED chips
    BY <1>14 DEF read_cache, IsNext
  <2>2. ret' \in Contents
    <3>1. c.cache \in [Planes -> Contents] /\ Plane(frame.x) \in Planes /\ Junk \in Contents
      BY <1>2, <1>10, <2>1, FrameFields, SpiFacts DEF Chip
    <3> QED BY <1>14, <3>1 DEF read_cache
  <2>3. Common
    BY <1>1, <1>3, <1>14, <2>2 DEF read_cache, Advance, Common
  <2>4. OneDie
    BY <1>5, <1>7, <2>1 DEF Ode, chips
  <2> QED BY <2>1, <2>3, <2>4 DEF OneDie, Common, chips
<1>15. CASE nsc_wait_spi_nand_oip_ready
  <2>1. frame.kind = "wait" /\ UNCHANGED chips /\ ~c.oip
    BY <1>15 DEF nsc_wait_spi_nand_oip_ready, IsNext, ReadyBit
  <2>2. Common
    BY <1>1, <1>3, <1>15 DEF nsc_wait_spi_nand_oip_ready, Advance, Common, Toggle
  <2>3. OneDie
    BY <1>5, <1>9, <2>1 DEF chips
  <2> QED BY <2>1, <2>2, <2>3 DEF OneDie, Common, chips
<1>16. CASE check_status
  <2>1. frame.kind = "status" /\ UNCHANGED chips
    BY <1>16 DEF check_status, IsNext
  <2>2. Common
    BY <1>1, <1>3, <1>16 DEF check_status, Advance, Common, Toggle
  <2>3. OneDie
    BY <1>5, <1>7, <2>1 DEF Ode, chips
  <2> QED BY <2>1, <2>2, <2>3 DEF OneDie, Common, chips
<1>17. CASE reset_chip
  <2>1. frame.kind = "RESET" /\ sel' = sel /\ Put(unit, JobRows(c.job), Junk)
    BY <1>17 DEF reset_chip, IsNext
  <2>2. Common
    BY <1>1, <1>3, <1>17 DEF reset_chip, Advance, Common, Toggle
  <2>3. PICK kept \in BOOLEAN :
             chip' = [chip EXCEPT ![unit] = [c EXCEPT !.oip = TRUE, !.wel = FALSE,
                         !.prot = IF kept THEN @ ELSE TRUE, !.ode = IF kept THEN @ ELSE TRUE,
                         !.job = [kind |-> "reset", row |-> 0]]]
    BY <1>17 DEF reset_chip
  <2> DEFINE x == IF kept THEN c.prot ELSE TRUE
             y == IF kept THEN c.ode ELSE TRUE
             e == [c EXCEPT !.oip = TRUE, !.wel = FALSE, !.prot = x, !.ode = y,
                            !.job = [kind |-> "reset", row |-> 0]]
  <2>4. x \in BOOLEAN /\ y \in BOOLEAN
    BY <1>6
  <2>5. chip' = [chip EXCEPT ![unit] = e]
    BY <2>3
  <2> HIDE DEF x, y
  <2>6. e \in Chip /\ e.oip = TRUE /\ e.job = [kind |-> "reset", row |-> 0]
    <3> HIDE DEF c
    <3>1. e \in Chip
      BY <1>2, <2>4, ChipTyped
    <3> QED BY <1>2, <3>1 DEF Chip
  <2>7. e.job # NoJob
    BY <2>6 DEF NoJob
  <2> HIDE DEF e
  <2>8. DieStep(frame, c, e)
    BY <2>1, <2>6, <2>7 DEF DieStep, Jobs, Ode
  <2>9. OneDie
    BY <1>2, <1>3, <2>5, <2>6, <2>8 DEF OneDie
  <2> QED BY <2>1, <2>2, <2>9 DEF OneDie, Common
<1>18. CASE load_uboot
  <2>1. frame.kind = "load_uboot" /\ UNCHANGED chips /\ ~c.oip
    BY <1>18 DEF load_uboot, IsNext
  <2>2. Common
    BY <1>1, <1>3, <1>18 DEF load_uboot, Advance, Common
  <2>3. OneDie
    BY <1>5, <1>9, <2>1 DEF chips
  <2> QED BY <2>1, <2>2, <2>3 DEF OneDie, Common, chips
<1> QED BY <1>11, <1>12, <1>13, <1>14, <1>15, <1>16, <1>17, <1>18 DEF Send

\* The contents of a die after a job.
LEMMA PutTyped ==
    ASSUME NEW u \in Units, NEW S, NEW x \in Contents, Put(u, S, x),
           array \in [Units -> [Rows -> Contents]]
    PROVE  /\ array' \in [Units -> [Rows -> Contents]]
           /\ \A v \in Units : v # u => array'[v] = array[v]
           /\ \A r \in Rows : array'[u][r] = IF r \in S THEN x ELSE array[u][r]
<1> DEFINE g == [r \in Rows |-> IF r \in S THEN x ELSE array[u][r]]
<1>1. array' = [array EXCEPT ![u] = g]
  BY DEF Put
<1>2. g \in [Rows -> Contents]
  OBVIOUS
<1>3. \A r \in Rows : g[r] = IF r \in S THEN x ELSE array[u][r]
  OBVIOUS
<1> HIDE DEF g
<1> QED BY <1>1, <1>2, <1>3

LEMMA PlaneOk == \A r \in Rows : BlockPlane(r) \in Planes
<1> SUFFICES ASSUME NEW r \in Rows PROVE BlockPlane(r) \in Planes
  OBVIOUS
<1>1. r \div PagesPerBlock \in 0 .. BlocksPerDie - 1 /\ BlocksPerDie \in Nat
  BY RowBlock, SpiFacts
<1>2. (r \div PagesPerBlock) % 2 \in {0, 1}
  BY <1>1
<1> QED BY <1>2 DEF BlockPlane, Plane, Planes

\* A die that finishes is ready, and keeps its settings.
LEMMA FinishStep ==
    ASSUME TypeInv, NEW u \in Units, Finish(u)
    PROVE  /\ chip' \in [Units -> Chip] /\ array' \in [Units -> [Rows -> Contents]]
           /\ \A v \in Units : v # u => chip'[v] = chip[v] /\ array'[v] = array[v]
           /\ ~chip'[u].oip /\ chip'[u].job = NoJob
           /\ chip'[u].prot = chip[u].prot /\ chip'[u].ode = chip[u].ode
           /\ UNCHANGED <<sel, open, pc, op, todo, ret>>
<1> DEFINE c == chip[u]
           j == c.job
           p == BlockPlane(j.row)
           R(fail) == [c EXCEPT !.oip = FALSE, !.wel = FALSE, !.fail = fail, !.job = NoJob]
           Goal == /\ chip' \in [Units -> Chip] /\ array' \in [Units -> [Rows -> Contents]]
                   /\ \A v \in Units : v # u => chip'[v] = chip[v] /\ array'[v] = array[v]
                   /\ ~chip'[u].oip /\ chip'[u].job = NoJob
                   /\ chip'[u].prot = c.prot /\ chip'[u].ode = c.ode
<1>1. /\ chip \in [Units -> Chip] /\ array \in [Units -> [Rows -> Contents]]
      /\ c \in Chip /\ (c.oip <=> c.job # NoJob) /\ array[u] \in [Rows -> Contents]
  BY DEF TypeInv
<1>2. j.row \in Rows /\ p \in Planes /\ c.cache \in [Planes -> Contents]
      /\ c.prot \in BOOLEAN /\ c.ode \in BOOLEAN
  BY <1>1, PlaneOk DEF Chip
<1>3. ASSUME NEW e \in Chip, ~e.oip, e.job = NoJob, e.prot = c.prot, e.ode = c.ode,
             chip' = [chip EXCEPT ![u] = e], array' = array
      PROVE  Goal
  BY <1>1, <1>3
<1>4. ASSUME NEW e \in Chip, ~e.oip, e.job = NoJob, e.prot = c.prot, e.ode = c.ode,
             chip' = [chip EXCEPT ![u] = e], NEW S, NEW x \in Contents, Put(u, S, x)
      PROVE  Goal
  <2>1. /\ array' \in [Units -> [Rows -> Contents]]
        /\ \A v \in Units : v # u => array'[v] = array[v]
    BY <1>1, <1>4, PutTyped
  <2> QED BY <1>1, <1>4, <2>1
<1>5. ASSUME NEW b \in BOOLEAN
      PROVE R(b) \in Chip /\ ~R(b).oip /\ R(b).job = NoJob /\ R(b).prot = c.prot /\ R(b).ode = c.ode
  <2> HIDE DEF c
  <2>1. R(b) \in Chip
    BY <1>1, ChipTyped
  <2> QED BY <1>1, <2>1 DEF Chip
<1>6. Blank \in Contents /\ Junk \in Contents /\ c.cache[p] \in Contents /\ array[u][j.row] \in Contents
  BY <1>1, <1>2, SpiFacts
<1>7. UNCHANGED <<sel, open, pc, op, todo, ret>>
  BY DEF Finish
<1>8. CASE j.kind = "read" /\ chip' = [chip EXCEPT ![u] =
             [c EXCEPT !.oip = FALSE, !.cache[p] = array[u][j.row], !.job = NoJob]] /\ array' = array
  <2> DEFINE x == array[u][j.row]
             e == [c EXCEPT !.oip = FALSE, !.cache[p] = x, !.job = NoJob]
  <2>1. chip' = [chip EXCEPT ![u] = e]
    BY <1>8
  <2>2. x \in Contents
    BY <1>6
  <2> HIDE DEF c, p, x
  <2>3. e \in Chip
    BY <1>1, <1>2, <2>2, ChipTyped
  <2>4. ~e.oip /\ e.job = NoJob /\ e.prot = c.prot /\ e.ode = c.ode
    BY <1>1, <2>3 DEF Chip
  <2> HIDE DEF e, Goal
  <2>5. Goal
    BY <1>3, <1>8, <2>1, <2>3, <2>4
  <2> QED BY <1>7, <2>5 DEF Goal, c
<1>9. ASSUME NEW b \in BOOLEAN, NEW S, NEW x \in Contents, Put(u, S, x) \/ array' = array,
             chip' = [chip EXCEPT ![u] = R(b)]
      PROVE  Goal
  <2> HIDE DEF R, Goal
  <2> QED BY <1>3, <1>4, <1>5, <1>9
<1>10. \/ /\ j.kind = "read"
          /\ chip' = [chip EXCEPT ![u] =
                [c EXCEPT !.oip = FALSE, !.cache[p] = array[u][j.row], !.job = NoJob]]
          /\ UNCHANGED array
       \/ /\ Put(u, {j.row}, IF array[u][j.row] = Blank THEN c.cache[p] ELSE Junk)
          /\ chip' = [chip EXCEPT ![u] = R(FALSE)]
       \/ /\ Put(u, Block(j.row), Blank)
          /\ chip' = [chip EXCEPT ![u] = R(FALSE)]
       \/ /\ Put(u, JobRows(j), Junk)
          /\ chip' = [chip EXCEPT ![u] = R(TRUE)]
       \/ /\ chip' = [chip EXCEPT ![u] = R(j.kind # "reset")]
          /\ UNCHANGED array
  <2> HIDE DEF p
  <2> QED BY DEF Finish, p
<1>11. CASE /\ Put(u, {j.row}, IF array[u][j.row] = Blank THEN c.cache[p] ELSE Junk)
            /\ chip' = [chip EXCEPT ![u] = R(FALSE)]
  <2> HIDE DEF R, Goal, p
  <2>1. Goal
    BY <1>6, <1>9, <1>11
  <2> QED BY <1>7, <2>1 DEF Goal
<1>12. CASE Put(u, Block(j.row), Blank) /\ chip' = [chip EXCEPT ![u] = R(FALSE)]
  <2> HIDE DEF R, Goal, p
  <2>1. Goal
    BY <1>6, <1>9, <1>12
  <2> QED BY <1>7, <2>1 DEF Goal
<1>13. CASE Put(u, JobRows(j), Junk) /\ chip' = [chip EXCEPT ![u] = R(TRUE)]
  <2> HIDE DEF R, Goal, p
  <2>1. Goal
    BY <1>6, <1>9, <1>13
  <2> QED BY <1>7, <2>1 DEF Goal
<1>14. CASE chip' = [chip EXCEPT ![u] = R(j.kind # "reset")] /\ UNCHANGED array
  <2> DEFINE b == (j.kind # "reset")
  <2>0. b \in BOOLEAN
    OBVIOUS
  <2>1. chip' = [chip EXCEPT ![u] = R(b)]
    BY <1>14
  <2> HIDE DEF R, Goal, p, b
  <2>2. Goal
    BY <1>6, <1>9, <1>14, <2>0, <2>1
  <2> QED BY <1>7, <2>2 DEF Goal
<1> QED BY <1>8, <1>10, <1>11, <1>12, <1>13, <1>14

LEMMA PowerTyped ==
    ASSUME array \in [Units -> [Rows -> Contents]], PowerFails
    PROVE  array' \in [Units -> [Rows -> Contents]]
<1>1. array' = [u \in Units |-> [r \in Rows |->
          IF chip[u].oip /\ r \in JobRows(chip[u].job) THEN Junk ELSE array[u][r]]]
  BY DEF PowerFails
<1>2. Junk \in Contents
  BY SpiFacts
<1> QED BY <1>1, <1>2

LEMMA PoweredOnTyped ==
    PoweredOn \in Chip /\ ~PoweredOn.oip /\ PoweredOn.job = NoJob
    /\ [u \in Units |-> PoweredOn] \in [Units -> Chip]
    /\ [c \in Cs |-> 0] \in [Cs -> Dies]
<1>1. Junk \in Contents /\ 0 \in Rows /\ 0 \in Dies
  BY SpiFacts
<1> QED BY <1>1 DEF PoweredOn, Chip, NoJob, JobKinds

\* A function of another maker changes nothing but the frames that are left.
LEMMA OtherMaker ==
    ASSUME other_maker
    PROVE  /\ pc = "boot" /\ UNCHANGED <<array, chip, sel, pc, op, ret>>
           /\ open' \subseteq open /\ todo # <<>>
           /\ todo' = todo \/ todo' = Boot
<1>1. /\ pc = "boot" /\ UNCHANGED <<array, chip, sel, pc, op, ret>> /\ todo # <<>>
      /\ todo' = todo \/ todo' = Boot
  BY DEF other_maker, chips, IsNext
<1>2. open' \subseteq open
  BY DEF other_maker, Toggle
<1> QED BY <1>1, <1>2

LEMMA InitTypeInv == Init => TypeInv
<1> SUFFICES ASSUME Init PROVE TypeInv
  OBVIOUS
<1>1. Boot \in Seq(FrameSet) /\ Boot # <<>>
  BY BootIs, BootPatient
<1>2. array \in [Units -> [Rows -> Contents]]
  BY SpiFacts DEF Init
<1>3. chip \in [Units -> Chip] /\ sel \in [Cs -> Dies]
  BY PoweredOnTyped DEF Init
<1>4. \A u \in Units : chip[u].oip <=> chip[u].job # NoJob
  BY PoweredOnTyped DEF Init
<1> QED BY <1>1, <1>2, <1>3, <1>4 DEF Init, TypeInv

LEMMA StepTypeInv == TypeInv /\ [Next]_vars => TypeInv'
<1> SUFFICES ASSUME TypeInv, [Next]_vars PROVE TypeInv'
  OBVIOUS
<1>0. TypeInv
  OBVIOUS
<1>1. CASE UNCHANGED vars
  BY <1>1 DEF TypeInv, vars, chips
<1>2. ASSUME NEW o \in PF!Ops, Start(o) PROVE TypeInv'
  <2>1. Frames(o) \in Seq(FrameSet) /\ Frames(o) # <<>>
    BY OpScript
  <2>2. UNCHANGED <<array, chip, sel, open, ret>> /\ pc' = "run" /\ op' = o /\ todo' = Frames(o)
    BY <1>2 DEF Start, chips
  <2> QED BY <2>1, <2>2 DEF TypeInv
<1>3. CASE Send
  <2> DEFINE u == unit
  <2>1. /\ todo # <<>> /\ todo' = Tail(todo) /\ Advance
        /\ chip' \in [Units -> Chip]
        /\ \A v \in Units : v # unit => chip'[v] = chip[v]
        /\ DieStep(frame, chip[unit], chip'[unit])
        /\ frame.kind = "select" => sel' = [sel EXCEPT ![frame.cs] = frame.x] /\ chip' = chip
        /\ frame.kind # "select" => sel' = sel
        /\ open' \subseteq Cs
        /\ frame.kind # "RESET" => array' = array
        /\ frame.kind = "RESET" => Put(unit, JobRows(chip[unit].job), Junk)
        /\ ret' \in Contents \cup {"none", "OK", "fail"}
    BY <1>3, SendStep
  <2>2. /\ frame \in FrameSet /\ frame.cs \in Cs /\ unit \in Units
        /\ frame.kind = "select" => frame.x \in Dies
    BY <2>1, UnitIs, FrameFields
  <2>3. array' \in [Units -> [Rows -> Contents]]
    BY <2>1, <2>2, PutTyped, SpiFacts DEF TypeInv
  <2>4. \A v \in Units : chip'[v].oip <=> chip'[v].job # NoJob
    BY <2>1, <2>2 DEF TypeInv, DieStep
  <2>5. sel' \in [Cs -> Dies]
    <3> HIDE DEF frame
    <3> QED BY <2>1, <2>2 DEF TypeInv
  <2>6. /\ todo' \in Seq(FrameSet) /\ (todo' = <<>> <=> Len(todo) = 1)
    BY <2>1, TailIs DEF TypeInv
  <2>7. pc' \in {"boot", "idle", "run"} /\ (pc' = "idle" <=> todo' = <<>>)
        /\ (pc' = "run" => op' \in PF!Ops)
    BY <2>1, <2>6 DEF TypeInv, Advance
  <2> QED BY <2>1, <2>3, <2>4, <2>5, <2>6, <2>7 DEF TypeInv
<1>4. ASSUME NEW u \in Units, Finish(u) PROVE TypeInv'
  <2>1. /\ chip' \in [Units -> Chip] /\ array' \in [Units -> [Rows -> Contents]]
        /\ \A v \in Units : v # u => chip'[v] = chip[v] /\ array'[v] = array[v]
        /\ ~chip'[u].oip /\ chip'[u].job = NoJob
        /\ UNCHANGED <<sel, open, pc, op, todo, ret>>
    BY <1>4, FinishStep
  <2>2. \A v \in Units : chip'[v].oip <=> chip'[v].job # NoJob
    BY <2>1 DEF TypeInv
  <2> QED BY <2>1, <2>2 DEF TypeInv
<1>5. CASE CpuReset
  <2>1. Boot \in Seq(FrameSet) /\ Boot # <<>>
    BY BootIs, BootPatient
  <2> QED BY <1>5, <2>1 DEF CpuReset, TypeInv, chips
<1>6. CASE PowerFails
  <2>1. Boot \in Seq(FrameSet) /\ Boot # <<>>
    BY BootIs, BootPatient
  <2>2. array' \in [Units -> [Rows -> Contents]]
    BY <1>6, PowerTyped DEF TypeInv
  <2>3. chip' \in [Units -> Chip] /\ sel' \in [Cs -> Dies]
    BY <1>6, PoweredOnTyped DEF PowerFails
  <2>4. \A u \in Units : chip'[u].oip <=> chip'[u].job # NoJob
    BY <1>6, PoweredOnTyped DEF PowerFails
  <2> QED BY <1>6, <2>1, <2>2, <2>3, <2>4 DEF PowerFails, TypeInv
<1>7. CASE other_maker
  <2>1. Boot \in Seq(FrameSet) /\ Boot # <<>>
    BY BootIs, BootPatient
  <2> QED BY <1>7, <2>1, OtherMaker DEF TypeInv
<1> QED BY <1>1, <1>2, <1>3, <1>4, <1>5, <1>6, <1>7 DEF Next

LEMMA TypeInvariant == Spec => []TypeInv
BY InitTypeInv, StepTypeInv, PTL DEF Spec

-----------------------------------------------------------------------------
(* The driver waits for its chips.                                         *)

LEMMA NothingMet == \A c : ~MetPatiently(<<>>, c)
BY DEF MetPatiently

LEMMA NothingReached == \A c, d, s, K : ~Reaches(<<>>, c, d, s, K)
BY DEF Reaches

LEMMA PairIs == \A v \in Units : v = <<v[1], v[2]>> /\ v[1] \in Cs /\ v[2] \in Dies
BY DEF Units

LEMMA InitBusyInv == Init => BusyInv
BY BootPatient, PoweredOnTyped DEF Init, BusyInv

LEMMA StepBusyInv == TypeInv /\ BusyInv /\ [Next]_vars => BusyInv'
<1> SUFFICES ASSUME TypeInv, BusyInv, [Next]_vars PROVE BusyInv'
  OBVIOUS
<1>0. TypeInv /\ BusyInv
  OBVIOUS
<1>1. CASE UNCHANGED vars
  BY <1>1 DEF BusyInv, vars, chips
<1>2. ASSUME NEW o \in PF!Ops, Start(o) PROVE BusyInv'
  <2>1. todo = <<>> /\ todo' = Frames(o) /\ chip' = chip /\ sel' = sel
    BY <1>2 DEF Start, TypeInv, chips
  <2>2. \A u \in Units : ~chip[u].oip
    BY <2>1, NothingMet DEF BusyInv
  <2> QED BY <2>1, <2>2, OpScript DEF BusyInv
<1>3. CASE Send
  <2>1. /\ todo # <<>> /\ todo' = Tail(todo)
        /\ \A v \in Units : v # unit => chip'[v] = chip[v]
        /\ DieStep(frame, chip[unit], chip'[unit])
        /\ frame.kind = "select" => sel' = [sel EXCEPT ![frame.cs] = frame.x] /\ chip' = chip
        /\ frame.kind # "select" => sel' = sel
    BY <1>3, SendStep
  <2>2. frame = Head(todo) /\ unit \in Units /\ unit = <<frame.cs, sel[frame.cs]>>
        /\ unit[1] = frame.cs /\ unit[2] = sel[frame.cs] /\ frame.cs \in Cs
    BY <2>1, UnitIs DEF frame, unit
  <2>3. todo \in Seq(FrameSet) /\ WaitsAfterJob(todo) /\ sel \in [Cs -> Dies]
    BY DEF TypeInv, BusyInv
  <2>4. WaitsAfterJob(Tail(todo)) /\ (frame.kind \in Jobs => MetPatiently(Tail(todo), frame.cs))
    BY <2>1, <2>2, <2>3, WaitsTail
  <2> HIDE DEF unit, frame
  <2>5. ASSUME NEW v \in Units, chip'[v].oip
        PROVE  v[2] = sel'[v[1]] /\ MetPatiently(Tail(todo), v[1])
    <3>0. v = <<v[1], v[2]>> /\ v[1] \in Cs
      BY PairIs
    <3>1. CASE v = unit /\ frame.kind \in Jobs
      <4>1. sel' = sel
        BY <2>1, <3>1 DEF Jobs
      <4> QED BY <2>2, <2>4, <3>1, <4>1
    <3>2. CASE ~(v = unit /\ frame.kind \in Jobs)
      <4>1. chip[v].oip
        BY <2>1, <2>5, <3>2 DEF DieStep
      <4>2. v[2] = sel[v[1]] /\ MetPatiently(todo, v[1])
        BY <4>1 DEF BusyInv
      <4>3. \/ frame.cs = v[1] /\ frame.kind \in Patient
            \/ frame.cs # v[1] /\ MetPatiently(Tail(todo), v[1])
        BY <2>1, <2>2, <2>3, <4>2, MetTail
      <4>4. CASE frame.cs = v[1] /\ frame.kind \in Patient
        <5>1. v = unit
          BY <2>2, <3>0, <4>2, <4>4
        <5>2. frame.kind \in {"wait", "load_uboot"}
          BY <3>2, <4>4, <5>1 DEF Patient, Jobs
        <5> QED BY <2>1, <4>1, <5>1, <5>2 DEF DieStep
      <4>5. CASE frame.cs # v[1] /\ MetPatiently(Tail(todo), v[1])
        <5>1. sel'[v[1]] = sel[v[1]]
          BY <2>1, <2>2, <2>3, <3>0, <4>5
        <5> QED BY <4>2, <4>5, <5>1
      <4> QED BY <4>3, <4>4, <4>5
    <3> QED BY <3>1, <3>2
  <2> QED BY <2>1, <2>4, <2>5 DEF BusyInv
<1>4. ASSUME NEW u \in Units, Finish(u) PROVE BusyInv'
  BY <1>4, FinishStep DEF BusyInv
<1>5. CASE CpuReset
  <2>1. todo' = Boot /\ chip' = chip /\ sel' = sel
    BY <1>5 DEF CpuReset, chips
  <2>2. \A u \in Units : u[1] \in Cs
    BY PairIs
  <2> QED BY <2>1, <2>2, BootPatient DEF BusyInv
<1>6. CASE PowerFails
  <2>1. todo' = Boot /\ \A u \in Units : ~chip'[u].oip
    BY <1>6, PoweredOnTyped DEF PowerFails
  <2> QED BY <2>1, BootPatient DEF BusyInv
<1>7. CASE other_maker
  <2>1. \A u \in Units : u[1] \in Cs
    BY PairIs
  <2> QED BY <1>7, <2>1, OtherMaker, BootPatient DEF BusyInv
<1> QED BY <1>1, <1>2, <1>3, <1>4, <1>5, <1>6, <1>7 DEF Next

LEMMA BusyInvariant == Spec => [](TypeInv /\ BusyInv)
<1>1. Init => TypeInv /\ BusyInv
  BY InitTypeInv, InitBusyInv
<1>2. TypeInv /\ BusyInv /\ [Next]_vars => (TypeInv /\ BusyInv)'
  BY StepTypeInv, StepBusyInv
<1> QED BY <1>1, <1>2, PTL DEF Spec

LEMMA ReadyForFrame == TypeInv /\ BusyInv => ChipReadyForFrame
<1> SUFFICES ASSUME TypeInv, BusyInv, todo # <<>>, chip[unit].oip
             PROVE  frame.kind \in {"wait", "RESET", "select", "load_uboot"}
  BY DEF ChipReadyForFrame
<1>1. unit \in Units /\ unit[1] = frame.cs /\ frame = Head(todo)
  BY UnitIs DEF frame
<1>2. MetPatiently(todo, frame.cs) /\ todo \in Seq(FrameSet)
  BY <1>1 DEF BusyInv, TypeInv
<1> HIDE DEF frame, unit
<1>3. frame.kind \in Patient
  BY <1>1, <1>2, MetTail
<1> QED BY <1>3 DEF Patient

\* The driver's state is well formed: every frame is for a chip that exists, and
\* an operation that has sent its frames is over.
THEOREM TypeCorrect == Spec => []TypeOK
<1>1. TypeInv => TypeOK
  <2> SUFFICES ASSUME TypeInv PROVE TypeOK
    OBVIOUS
  <2>1. ASSUME NEW u \in Units
        PROVE  chip[u].cache \in [Planes -> Contents] /\ chip[u].job.row \in Rows
    BY DEF TypeInv, Chip
  <2>2. ASSUME NEW n \in 1 .. Len(todo) PROVE todo[n].cs \in Cs
    <3>1. todo[n] \in FrameSet
      BY ElementOfSeq DEF TypeInv
    <3> QED BY <3>1, FrameFields
  <2> QED BY <2>1, <2>2 DEF TypeInv, TypeOK
<1> QED BY <1>1, TypeInvariant, PTL

\* The driver sends a command, or takes the status for the result, only when the
\* die that is selected is ready: every frame that sets a chip to work is followed
\* by a wait for it (nsc_wait_spi_nand_oip_ready), and a start, which may meet a
\* chip that is still busy from before a reset of the processor, begins with the
\* reset of the first chip and with U-Boot's loading for the second.
THEOREM WaitsForChips == Spec => []ChipReadyForFrame
BY BusyInvariant, ReadyForFrame, PTL

-----------------------------------------------------------------------------
(* Every die gets its settings.                                            *)

\* A die that waits for its settings, and one that is reset now, gets them with
\* this frame or with a later one.
LEMMA PendingStep ==
    ASSUME TypeInv, Send, NEW K \in {Unprotect, Ode}, SetAfterReset(todo, K), NEW v \in Units,
           \/ Reaches(todo, v[1], v[2], sel[v[1]], K)
           \/ v = unit /\ frame.kind = "RESET"
    PROVE  \/ Reaches(Tail(todo), v[1], v[2], sel'[v[1]], K)
           \/ v = unit /\ frame.kind \in K
<1>1. /\ todo # <<>>
      /\ frame.kind = "select" => sel' = [sel EXCEPT ![frame.cs] = frame.x]
      /\ frame.kind # "select" => sel' = sel
  BY SendStep
<1>2. frame = Head(todo) /\ unit \in Units /\ unit = <<frame.cs, sel[frame.cs]>>
      /\ unit[1] = frame.cs /\ unit[2] = sel[frame.cs] /\ frame.cs \in Cs
  BY <1>1, UnitIs DEF frame, unit
<1>3. todo \in Seq(FrameSet) /\ sel \in [Cs -> Dies]
  BY DEF TypeInv
<1>4. v = <<v[1], v[2]>> /\ v[1] \in Cs
  BY PairIs
<1> HIDE DEF unit, frame
<1>5. CASE v = unit /\ frame.kind = "RESET"
  <2>1. \A s : Reaches(Tail(todo), frame.cs, s, s, K)
    BY <1>1, <1>2, <1>3, <1>5, SetTail
  <2>2. sel' = sel
    BY <1>1, <1>5
  <2> QED BY <1>2, <1>5, <2>1, <2>2
<1>6. CASE Reaches(todo, v[1], v[2], sel[v[1]], K)
  <2>1. \/ frame.kind \in K /\ frame.cs = v[1] /\ sel[v[1]] = v[2]
        \/ /\ frame.kind = "select" /\ frame.cs = v[1]
           /\ Reaches(Tail(todo), v[1], v[2], frame.x, K)
        \/ /\ ~(frame.kind = "select" /\ frame.cs = v[1])
           /\ Reaches(Tail(todo), v[1], v[2], sel[v[1]], K)
    BY <1>1, <1>2, <1>3, <1>6, ReachesTail
  <2>2. CASE frame.kind \in K /\ frame.cs = v[1] /\ sel[v[1]] = v[2]
    BY <1>2, <1>4, <2>2
  <2>3. CASE /\ frame.kind = "select" /\ frame.cs = v[1]
             /\ Reaches(Tail(todo), v[1], v[2], frame.x, K)
    <3>1. sel'[v[1]] = frame.x
      BY <1>1, <1>2, <1>3, <2>3
    <3> QED BY <2>3, <3>1
  <2>4. CASE /\ ~(frame.kind = "select" /\ frame.cs = v[1])
             /\ Reaches(Tail(todo), v[1], v[2], sel[v[1]], K)
    <3>1. sel'[v[1]] = sel[v[1]]
      BY <1>1, <1>2, <1>3, <1>4, <2>4
    <3> QED BY <2>4, <3>1
  <2> QED BY <2>1, <2>2, <2>3, <2>4
<1> QED BY <1>5, <1>6

\* When the processor is reset while a die waits for its settings, the start that
\* follows reaches it.
LEMMA PendingReset ==
    ASSUME TypeInv, NEW v \in Units, Reaches(todo, v[1], v[2], sel[v[1]], Unprotect)
    PROVE  Reaches(Boot, v[1], v[2], sel[v[1]], Unprotect)
<1>1. v[1] \in Cs /\ v[2] \in Dies /\ sel[v[1]] \in Dies
  BY PairIs DEF TypeInv
<1>2. v[2] = 0 => sel[v[1]] = 0
  BY DEF Reaches
<1> QED BY <1>1, <1>2, BootReaches

LEMMA PoweredReached ==
    ASSUME NEW v \in Units, NEW s, s = [c \in Cs |-> 0]
    PROVE  Reaches(Boot, v[1], v[2], s[v[1]], Unprotect)
<1>1. v[1] \in Cs /\ v[2] \in Dies /\ s[v[1]] = 0 /\ 0 \in Dies
  BY PairIs, SpiFacts
<1> QED BY <1>1, BootReaches

LEMMA InitProtInv == Init => ProtInv
<1> SUFFICES ASSUME Init PROVE ProtInv
  OBVIOUS
<1>1. todo = Boot /\ sel = [c \in Cs |-> 0]
  BY DEF Init
<1>2. \A u \in Units : Reaches(Boot, u[1], u[2], sel[u[1]], Unprotect)
  BY <1>1, PoweredReached
<1> QED BY <1>1, <1>2, BootReaches DEF ProtInv

LEMMA StepProtInv == TypeInv /\ BusyInv /\ ProtInv /\ [Next]_vars => ProtInv'
<1> SUFFICES ASSUME TypeInv, BusyInv, ProtInv, [Next]_vars PROVE ProtInv'
  OBVIOUS
<1>0. TypeInv /\ BusyInv /\ ChipReadyForFrame /\ SetAfterReset(todo, Unprotect)
      /\ Unprotect \in {Unprotect, Ode}
  BY ReadyForFrame DEF ProtInv
<1>1. CASE UNCHANGED vars
  BY <1>1 DEF ProtInv, vars, chips
<1>2. ASSUME NEW o \in PF!Ops, Start(o) PROVE ProtInv'
  <2>1. todo = <<>> /\ todo' = Frames(o) /\ chip' = chip /\ sel' = sel
    BY <1>2 DEF Start, TypeInv, chips
  <2>2. \A u \in Units : ~chip[u].prot
    BY <2>1, NothingReached DEF ProtInv
  <2> QED BY <2>1, <2>2, OpScript DEF ProtInv
<1>3. CASE Send
  <2>1. /\ todo # <<>> /\ todo' = Tail(todo)
        /\ \A v \in Units : v # unit => chip'[v] = chip[v]
        /\ DieStep(frame, chip[unit], chip'[unit])
    BY <1>3, SendStep
  <2>2. SetAfterReset(Tail(todo), Unprotect)
    BY <1>0, <2>1, SetTail DEF TypeInv
  <2>3. ASSUME NEW v \in Units, chip'[v].prot
        PROVE  Reaches(Tail(todo), v[1], v[2], sel'[v[1]], Unprotect)
    <3>1. \/ Reaches(todo, v[1], v[2], sel[v[1]], Unprotect)
          \/ v = unit /\ frame.kind = "RESET"
      <4> HIDE DEF unit, frame
      <4> QED BY <2>1, <2>3 DEF ProtInv, DieStep
    <3>2. ~(v = unit /\ frame.kind \in Unprotect)
      <4>1. SUFFICES ASSUME v = unit, frame.kind = "UNPROTECT" PROVE FALSE
        BY DEF Unprotect
      <4>2. ~chip[unit].oip
        BY <1>0, <2>1, <4>1 DEF ChipReadyForFrame
      <4> QED BY <2>1, <2>3, <4>1, <4>2 DEF DieStep
    <3> QED BY <1>0, <1>3, <3>1, <3>2, PendingStep
  <2> QED BY <2>1, <2>2, <2>3 DEF ProtInv
<1>4. ASSUME NEW u \in Units, Finish(u) PROVE ProtInv'
  BY <1>4, FinishStep DEF ProtInv
<1>5. CASE CpuReset
  <2>1. todo' = Boot /\ chip' = chip /\ sel' = sel
    BY <1>5 DEF CpuReset, chips
  <2>2. \A u \in Units : chip[u].prot => Reaches(Boot, u[1], u[2], sel[u[1]], Unprotect)
    BY PendingReset DEF ProtInv
  <2> QED BY <2>1, <2>2, BootReaches DEF ProtInv
<1>6. CASE PowerFails
  <2>1. todo' = Boot /\ sel' = [c \in Cs |-> 0]
    BY <1>6 DEF PowerFails
  <2>2. \A u \in Units : Reaches(Boot, u[1], u[2], sel'[u[1]], Unprotect)
    BY <2>1, PoweredReached
  <2> QED BY <2>1, <2>2, BootReaches DEF ProtInv
<1>7. CASE other_maker
  <2>1. chip' = chip /\ sel' = sel /\ (todo' = todo \/ todo' = Boot)
    BY <1>7, OtherMaker
  <2>2. \A u \in Units : chip[u].prot => Reaches(Boot, u[1], u[2], sel[u[1]], Unprotect)
    BY PendingReset DEF ProtInv
  <2> QED BY <2>1, <2>2, BootReaches DEF ProtInv
<1> QED BY <1>1, <1>2, <1>3, <1>4, <1>5, <1>6, <1>7 DEF Next

\* When the driver is ready for use no block of any die is protected, whatever was
\* interrupted before: a start sends the settings to both dies of both chips, and
\* when it is cut short the next one reaches the dies that were left out, although
\* it begins with whichever die was selected then.
THEOREM NothingStaysProtected == Spec => [](pc = "idle" => \A u \in Units : ~chip[u].prot)
<1>1. Init => ProtInv
  BY InitProtInv
<1>2. TypeInv /\ BusyInv /\ ProtInv /\ [Next]_vars => ProtInv'
  BY StepProtInv
<1>3. TypeInv /\ ProtInv => (pc = "idle" => \A u \in Units : ~chip[u].prot)
  BY NothingReached DEF TypeInv, ProtInv
<1> QED BY <1>1, <1>2, <1>3, BusyInvariant, PTL DEF Spec

\* How many frames of a start were sent, when todo is what is left of it.
Sent == Len(Boot) - Len(todo)

\* The ECC setting of the dies of chip c while a start goes on.  The first die has
\* its setting already, or it is selected and will get it: a start that finds the
\* second die selected sends the setting of the first one to the second, which gets
\* its own later.
ChipOde(c) ==
    /\ chip[<<c, 0>>].ode = OdeOf(<<c, 0>>) \/ (sel[c] = 0 /\ Sent < OdeAt(c))
    /\ Stacked /\ Sent \in {Base(c) + 3, Base(c) + 4} => sel[c] = 1
    /\ Stacked /\ Sent >= Base(c) + 5 => chip[<<c, 1>>].ode = OdeOf(<<c, 1>>)

OdeInv ==
    /\ pc # "boot" =>
          /\ \A u \in Units : chip[u].ode = OdeOf(u)
          /\ \A k \in 1 .. Len(todo) : todo[k].kind \notin Ode \cup {"RESET"}
    /\ pc = "boot" =>
          /\ Len(todo) <= Len(Boot)
          /\ \A k \in 1 .. Len(todo) : todo[k] = Boot[Sent + k]
          /\ \A c \in Cs : ChipOde(c)

\* The first frame of a start is to be sent.
AtStart ==
    /\ todo = Boot /\ pc = "boot"
    /\ \A c \in Cs : chip[<<c, 0>>].ode = OdeOf(<<c, 0>>) \/ sel[c] = 0

LEMMA StartOde == AtStart => OdeInv
<1> SUFFICES ASSUME AtStart PROVE OdeInv
  OBVIOUS
<1> USE DEF AtStart
<1>1. Len(Boot) \in Nat /\ Sent = 0
  BY BootIs DEF Sent
<1>2. \A k \in 1 .. Len(Boot) : Boot[Sent + k] = Boot[k]
  BY <1>1
<1>3. ASSUME NEW c \in Cs PROVE ChipOde(c)
  <2>1. Base(c) \in Nat /\ OdeAt(c) \in {Base(c) + 1, Base(c) + 2}
    BY BootSettings
  <2>2. Sent < OdeAt(c) /\ Sent \notin {Base(c) + 3, Base(c) + 4} /\ ~(Sent >= Base(c) + 5)
    BY <1>1, <2>1
  <2> QED BY <2>2 DEF ChipOde
<1> QED BY <1>1, <1>2, <1>3 DEF OdeInv

LEMMA StartOdeNext == AtStart' => OdeInv'
BY StartOde, PTL

LEMMA InitOdeInv == Init => OdeInv
<1> SUFFICES ASSUME Init PROVE OdeInv
  OBVIOUS
<1>1. \A c \in Cs : sel[c] = 0
  BY DEF Init
<1> QED BY <1>1, StartOde DEF Init, AtStart

\* In a start the first die of every chip has its setting or is selected.
LEMMA FirstDie ==
    ASSUME OdeInv
    PROVE  \A c \in Cs : chip[<<c, 0>>].ode = OdeOf(<<c, 0>>) \/ sel[c] = 0
<1> SUFFICES ASSUME NEW c \in Cs PROVE chip[<<c, 0>>].ode = OdeOf(<<c, 0>>) \/ sel[c] = 0
  OBVIOUS
<1>1. <<c, 0>> \in Units
  BY SpiFacts DEF Units
<1> QED BY <1>1 DEF OdeInv, ChipOde

\* A frame of a start, for the chip it is sent to and for the other one.
LEMMA OdeFrame ==
    ASSUME TypeInv, BusyInv, TypeInv', OdeInv, Send, pc = "boot", NEW c \in Cs
    PROVE  ChipOde(c)'
<1> DEFINE p == Sent
           b == Base(c)
           u0 == <<c, 0>>
           u1 == <<c, 1>>
<1>1. /\ todo # <<>> /\ todo' = Tail(todo)
      /\ \A v \in Units : v # unit => chip'[v] = chip[v]
      /\ DieStep(frame, chip[unit], chip'[unit])
      /\ frame.kind = "select" => sel' = [sel EXCEPT ![frame.cs] = frame.x] /\ chip' = chip
      /\ frame.kind # "select" => sel' = sel
  BY SendStep
<1>2. /\ frame = todo[1] /\ Len(Tail(todo)) = Len(todo) - 1 /\ Len(todo) \in Nat \ {0}
  BY <1>1, TailIs DEF TypeInv, frame
<1>3. Len(Boot) \in Nat /\ Len(todo) <= Len(Boot)
  BY BootIs DEF OdeInv
<1>4. p \in Nat /\ Sent' = p + 1 /\ p + 1 \in 1 .. Len(Boot)
  BY <1>1, <1>2, <1>3 DEF Sent
<1>5. frame = Boot[p + 1]
  <2>1. 1 \in 1 .. Len(todo)
    BY <1>2
  <2> QED BY <1>2, <2>1 DEF OdeInv
<1>6. /\ unit \in Units /\ unit = <<frame.cs, sel[frame.cs]>> /\ frame.cs \in Cs
      /\ sel \in [Cs -> Dies]
  BY <1>1, UnitIs DEF unit, TypeInv
<1>7. frame.kind \in Ode => ~chip[unit].oip
  BY <1>1, ReadyForFrame DEF ChipReadyForFrame, Ode
<1>8. /\ b \in Nat /\ OdeAt(c) \in {b + 1, b + 2}
      /\ Boot[OdeAt(c)].kind = OdeKind(OdeOf(u0)) /\ Boot[OdeAt(c)].cs = c
      /\ Stacked => /\ Boot[b + 3].kind = "select" /\ Boot[b + 3].x = 1 /\ Boot[b + 3].cs = c
                    /\ Boot[b + 4].kind = "UNPROTECT" /\ Boot[b + 4].cs = c
                    /\ Boot[b + 5].kind = "ODE_OFF" /\ Boot[b + 5].cs = c
  BY BootSettings
<1>9. /\ frame.kind = "select" => p + 1 > Base(frame.cs) + 2
      /\ frame.kind = "RESET" => p + 1 <= Base(frame.cs)
      /\ frame.kind \in Ode =>
           p + 1 = OdeAt(frame.cs) \/ (Stacked /\ p + 1 = Base(frame.cs) + 5)
  BY <1>4, <1>5, BootKinds DEF Jobs
<1>10. ChipOde(c)
  BY DEF OdeInv
<1>11. /\ u0 \in Units /\ (Stacked => u1 \in Units)
       /\ OdeOf(u0) \in BOOLEAN /\ OdeOf(u1) = FALSE
  BY SpiFacts, SpiNandAssumption DEF Units, OdeOf
<1>12. /\ \A v \in Units : chip[v].ode \in BOOLEAN /\ chip'[v].ode \in BOOLEAN
  BY DEF TypeInv, Chip
<1> HIDE DEF frame, unit, p, b
<1>13. CASE frame.cs # c
  <2>1. u0 # unit /\ u1 # unit
    BY <1>6, <1>13
  <2>2. chip'[u0] = chip[u0] /\ (Stacked => chip'[u1] = chip[u1]) /\ sel'[c] = sel[c]
    BY <1>1, <1>6, <1>11, <1>13, <2>1
  <2>3. /\ p + 1 # OdeAt(c)
        /\ Stacked => p + 1 # b + 3 /\ p + 1 # b + 4 /\ p + 1 # b + 5
    BY <1>5, <1>8, <1>13
  <2>4. p < OdeAt(c) => p + 1 < OdeAt(c)
    BY <1>4, <1>8, <2>3
  <2>5. Stacked /\ p + 1 \in {b + 3, b + 4} => p \in {b + 3, b + 4}
    BY <2>3
  <2>6. Stacked /\ p + 1 >= b + 5 => p >= b + 5
    BY <1>4, <1>8, <2>3
  <2> QED BY <1>4, <1>10, <2>2, <2>4, <2>5, <2>6 DEF ChipOde, p, b
<1>14. CASE frame.cs = c
  <2>0. unit = <<c, sel[c]>> /\ sel[c] \in Dies /\ Dies \subseteq {0, 1}
    BY <1>6, <1>14, SpiFacts
  <2>1. /\ frame.kind = "select" => p + 1 > b + 2
        /\ frame.kind = "RESET" => p + 1 <= b
        /\ frame.kind \in Ode => p + 1 = OdeAt(c) \/ (Stacked /\ p + 1 = b + 5)
    BY <1>9, <1>14 DEF b
  <2>2. /\ chip[u0].ode = OdeOf(u0) \/ (sel[c] = 0 /\ p < OdeAt(c))
        /\ Stacked /\ p \in {b + 3, b + 4} => sel[c] = 1
        /\ Stacked /\ p >= b + 5 => chip[u1].ode = OdeOf(u1)
    BY <1>10 DEF ChipOde, p, b
  <2>3. ASSUME NEW v \in Units, chip'[v].ode # chip[v].ode
        PROVE  v = unit /\ frame.kind \in Ode \cup {"RESET"}
    BY <1>1, <2>3 DEF DieStep
  <2>4. frame.kind \in Ode => (chip'[unit].ode <=> frame.kind = "ODE_ON")
    BY <1>1, <1>7 DEF DieStep
  <2>5. chip'[u0].ode = OdeOf(u0) \/ (sel'[c] = 0 /\ p + 1 < OdeAt(c))
    <3>1. CASE p + 1 = OdeAt(c)
      <4>1. frame.kind = OdeKind(OdeOf(u0)) /\ frame.kind \in Ode
        BY <1>5, <1>8, <1>11, <3>1 DEF OdeKind, Ode
      <4>2. CASE sel[c] = 0
        <5>1. unit = u0
          BY <2>0, <4>2
        <5>2. chip'[u0].ode <=> OdeOf(u0)
          BY <1>11, <2>4, <4>1, <5>1 DEF OdeKind
        <5> QED BY <1>11, <1>12, <5>2
      <4>3. CASE sel[c] # 0
        <5>1. unit # u0 /\ chip[u0].ode = OdeOf(u0)
          BY <2>0, <2>2, <4>3
        <5> QED BY <1>1, <1>11, <5>1
      <4> QED BY <4>2, <4>3
    <3>2. CASE p + 1 < OdeAt(c)
      <4>1. frame.kind # "select" /\ sel' = sel
        BY <1>1, <1>4, <1>8, <2>1, <3>2
      <4>2. CASE sel[c] = 0
        BY <3>2, <4>1, <4>2
      <4>3. CASE sel[c] # 0
        <5>1. unit # u0 /\ chip[u0].ode = OdeOf(u0)
          BY <2>0, <2>2, <4>3
        <5> QED BY <1>1, <1>11, <5>1
      <4> QED BY <4>2, <4>3
    <3>3. CASE p + 1 > OdeAt(c)
      <4>1. chip[u0].ode = OdeOf(u0)
        BY <1>4, <1>8, <2>2, <3>3
      <4>2. frame.kind # "RESET"
        BY <1>4, <1>8, <2>1, <3>3
      <4>3. frame.kind \in Ode => unit # u0
        <5>1. SUFFICES ASSUME frame.kind \in Ode PROVE unit # u0
          OBVIOUS
        <5>2. Stacked /\ p = b + 4
          BY <1>4, <1>8, <2>1, <3>3, <5>1
        <5>3. sel[c] = 1
          BY <2>2, <5>2
        <5> QED BY <2>0, <5>3
      <4> QED BY <1>11, <2>3, <4>1, <4>2, <4>3
    <3>4. p + 1 = OdeAt(c) \/ p + 1 < OdeAt(c) \/ p + 1 > OdeAt(c)
      BY <1>4, <1>8
    <3> QED BY <3>1, <3>2, <3>3, <3>4
  <2>6. ASSUME Stacked, p + 1 \in {b + 3, b + 4} PROVE sel'[c] = 1
    <3>1. CASE p + 1 = b + 3
      <4>1. frame.kind = "select" /\ frame.x = 1
        BY <1>5, <1>8, <2>6, <3>1
      <4> QED BY <1>1, <1>6, <1>14, <4>1
    <3>2. CASE p + 1 = b + 4
      <4>1. frame.kind = "UNPROTECT" /\ p = b + 3
        BY <1>4, <1>5, <1>8, <2>6, <3>2
      <4> QED BY <1>1, <2>2, <2>6, <4>1
    <3> QED BY <2>6, <3>1, <3>2
  <2>7. ASSUME Stacked, p + 1 >= b + 5 PROVE chip'[u1].ode = OdeOf(u1)
    <3>1. CASE p + 1 = b + 5
      <4>1. frame.kind = "ODE_OFF" /\ p = b + 4
        BY <1>4, <1>5, <1>8, <2>7, <3>1
      <4>2. unit = u1
        BY <2>0, <2>2, <2>7, <4>1
      <4>3. ~chip'[u1].ode
        BY <2>4, <4>1, <4>2 DEF Ode
      <4> QED BY <1>11, <1>12, <2>7, <4>3
    <3>2. CASE p + 1 # b + 5
      <4>1. p >= b + 5
        BY <1>4, <1>8, <2>7, <3>2
      <4>2. chip[u1].ode = OdeOf(u1)
        BY <2>2, <2>7, <4>1
      <4>3. frame.kind \notin Ode \cup {"RESET"}
        BY <1>4, <1>8, <2>1, <3>2, <4>1
      <4> QED BY <1>11, <2>3, <2>7, <4>2, <4>3
    <3> QED BY <3>1, <3>2
  <2>8. Sent' = p + 1
    BY <1>4
  <2> QED BY <2>5, <2>6, <2>7, <2>8 DEF ChipOde, b
<1> QED BY <1>13, <1>14

LEMMA StepOdeInv == TypeInv /\ BusyInv /\ OdeInv /\ [Next]_vars /\ TypeInv' => OdeInv'
<1> SUFFICES ASSUME TypeInv, BusyInv, OdeInv, [Next]_vars, TypeInv' PROVE OdeInv'
  OBVIOUS
<1>1. CASE UNCHANGED vars
  BY <1>1 DEF OdeInv, ChipOde, Sent, vars, chips
<1>2. ASSUME NEW o \in PF!Ops, Start(o) PROVE OdeInv'
  <2>1. pc = "idle" /\ pc' = "run" /\ chip' = chip /\ todo' = Frames(o)
    BY <1>2 DEF Start, chips
  <2>2. \A k \in 1 .. Len(Frames(o)) : Frames(o)[k].kind \notin Ode \cup {"RESET"}
    BY OpScript
  <2> QED BY <2>1, <2>2 DEF OdeInv
<1>3. CASE Send
  <2>1. /\ todo # <<>> /\ todo' = Tail(todo) /\ Advance
        /\ \A v \in Units : v # unit => chip'[v] = chip[v]
        /\ DieStep(frame, chip[unit], chip'[unit])
    BY <1>3, SendStep
  <2>2. /\ frame = todo[1] /\ 1 \in 1 .. Len(todo) /\ Len(Tail(todo)) = Len(todo) - 1
        /\ \A k \in 1 .. Len(todo) - 1 : Tail(todo)[k] = todo[k + 1]
        /\ Len(todo) \in Nat \ {0}
    BY <2>1, TailIs DEF TypeInv, frame
  <2>3. CASE pc # "boot"
    <3>1. pc' # "boot"
      BY <2>1, <2>3 DEF Advance
    <3>2. frame.kind \notin Ode \cup {"RESET"}
      BY <2>2, <2>3 DEF OdeInv
    <3>4. ASSUME NEW k \in 1 .. Len(todo') PROVE todo'[k].kind \notin Ode \cup {"RESET"}
      <4>1. k + 1 \in 1 .. Len(todo) /\ todo'[k] = todo[k + 1]
        BY <2>1, <2>2
      <4> QED BY <2>3, <4>1 DEF OdeInv
    <3> HIDE DEF unit, frame
    <3>3. \A v \in Units : chip'[v].ode = chip[v].ode
      BY <2>1, <3>2 DEF DieStep
    <3> QED BY <2>3, <3>1, <3>3, <3>4 DEF OdeInv
  <2>4. CASE pc = "boot"
    <3>1. \A c \in Cs : ChipOde(c)'
      BY <1>3, <2>4, OdeFrame
    <3>2. Len(Boot) \in Nat /\ Len(todo) <= Len(Boot)
      BY <2>4, BootIs DEF OdeInv
    <3>3. Sent' = Sent + 1 /\ Len(todo') <= Len(Boot) /\ Sent \in Nat
      BY <2>1, <2>2, <3>2 DEF Sent
    <3>4. ASSUME NEW k \in 1 .. Len(todo') PROVE todo'[k] = Boot[Sent' + k]
      <4>1. k + 1 \in 1 .. Len(todo) /\ todo'[k] = todo[k + 1]
        BY <2>1, <2>2
      <4>2. todo[k + 1] = Boot[Sent + (k + 1)]
        BY <2>4, <4>1 DEF OdeInv
      <4>3. Sent' + k = Sent + (k + 1)
        BY <3>3
      <4> QED BY <4>1, <4>2, <4>3
    <3>5. CASE pc' = "boot"
      BY <3>1, <3>3, <3>4, <3>5 DEF OdeInv
    <3>6. CASE pc' # "boot"
      <4>1. Len(todo) = 1
        BY <2>1, <2>4, <3>6 DEF Advance
      <4>2. Sent' = Len(Boot)
        <5>1. Len(todo') = 0
          BY <2>1, <2>2, <4>1
        <5> QED BY <3>2, <5>1 DEF Sent
      <4>3. ASSUME NEW v \in Units PROVE chip'[v].ode = OdeOf(v)
        <5> DEFINE c == v[1]
        <5>1. v = <<c, v[2]>> /\ c \in Cs /\ v[2] \in {0, 1} /\ (v[2] = 1 => Stacked)
          BY PairIs, SpiFacts
        <5>2. Base(c) \in Nat /\ OdeAt(c) \in {Base(c) + 1, Base(c) + 2}
              /\ Base(c) + 2 + SettingsLen <= Len(Boot)
          BY <5>1, BootSettings
        <5>3. SettingsLen \in Nat /\ (Stacked => SettingsLen = 4)
          BY DEF SettingsLen
        <5>4. ~(Sent' < OdeAt(c)) /\ (Stacked => Sent' >= Base(c) + 5)
          BY <3>2, <4>2, <5>2, <5>3
        <5>5. ChipOde(c)'
          BY <3>1, <5>1
        <5>6. chip'[<<c, 0>>].ode = OdeOf(<<c, 0>>)
          BY <5>4, <5>5 DEF ChipOde
        <5>7. Stacked => chip'[<<c, 1>>].ode = OdeOf(<<c, 1>>)
          BY <5>4, <5>5 DEF ChipOde
        <5> QED BY <5>1, <5>6, <5>7
      <4>4. Len(todo') = 0
        BY <2>1, <2>2, <4>1
      <4> QED BY <3>6, <4>3, <4>4 DEF OdeInv
    <3> QED BY <3>5, <3>6
  <2> QED BY <2>3, <2>4
<1>4. ASSUME NEW u \in Units, Finish(u) PROVE OdeInv'
  <2>1. /\ \A v \in Units : chip'[v].ode = chip[v].ode
        /\ UNCHANGED <<sel, pc, todo>>
    BY <1>4, FinishStep
  <2>2. \A c \in Cs : <<c, 0>> \in Units /\ (Stacked => <<c, 1>> \in Units)
    BY SpiFacts DEF Units
  <2>3. \A c \in Cs : ChipOde(c) => ChipOde(c)'
    BY <2>1, <2>2 DEF ChipOde, Sent
  <2>4. Sent' = Sent
    BY <2>1 DEF Sent
  <2> QED BY <2>1, <2>3, <2>4 DEF OdeInv
<1>5. CASE CpuReset
  <2>1. todo' = Boot /\ chip' = chip /\ sel' = sel /\ pc' = "boot"
    BY <1>5 DEF CpuReset, chips
  <2>2. \A c \in Cs : chip'[<<c, 0>>].ode = OdeOf(<<c, 0>>) \/ sel'[c] = 0
    BY <2>1, FirstDie
  <2> QED BY <2>1, <2>2, StartOdeNext DEF AtStart
<1>6. CASE PowerFails
  <2>1. todo' = Boot /\ sel' = [c \in Cs |-> 0] /\ pc' = "boot"
    BY <1>6 DEF PowerFails
  <2>2. \A c \in Cs : chip'[<<c, 0>>].ode = OdeOf(<<c, 0>>) \/ sel'[c] = 0
    BY <2>1
  <2> QED BY <2>1, <2>2, StartOdeNext DEF AtStart
<1>7. CASE other_maker
  <2>1. chip' = chip /\ sel' = sel /\ pc' = pc /\ pc = "boot" /\ (todo' = todo \/ todo' = Boot)
    BY <1>7, OtherMaker
  <2>2. CASE todo' = todo
    BY <2>1, <2>2 DEF OdeInv, ChipOde, Sent
  <2>3. CASE todo' = Boot
    <3>1. \A c \in Cs : chip'[<<c, 0>>].ode = OdeOf(<<c, 0>>) \/ sel'[c] = 0
      BY <2>1, FirstDie
    <3> QED BY <2>1, <2>3, <3>1, StartOdeNext DEF AtStart
  <2> QED BY <2>1, <2>2, <2>3
<1> QED BY <1>1, <1>2, <1>3, <1>4, <1>5, <1>6, <1>7 DEF Next

\* And each die has the setting of its own ECC that the makers' functions give it,
\* whatever settings the probe and init_rest have and whichever die a start that was
\* cut short had selected.
THEOREM DiesGetSettings == Spec => []DiesSetUp
<1>1. Init => ProtInv /\ OdeInv
  BY InitProtInv, InitOdeInv
<1>2. TypeInv /\ BusyInv /\ ProtInv /\ OdeInv /\ [Next]_vars /\ TypeInv' => (ProtInv /\ OdeInv)'
  BY StepProtInv, StepOdeInv
<1>3. TypeInv /\ ProtInv /\ OdeInv => DiesSetUp
  BY NothingReached DEF TypeInv, ProtInv, OdeInv, DiesSetUp
<1> QED BY <1>1, <1>2, <1>3, BusyInvariant, PTL DEF Spec

-----------------------------------------------------------------------------
(* The driver implements PageFlash.                                        *)

OpUnit(o) == Abstract(o.a)
OpPlane(o) == BlockPlane(RowOf(o.a))
JobOf(o) == [kind |-> IF o.kind = "write" THEN "program" ELSE o.kind, row |-> RowOf(o.a)]

\* How far an operation is: the frames that are left are the last ones of its list,
\* the die it is for is selected, may be programmed or erased, and has the data.
RunInv ==
    pc = "run" =>
        /\ Len(todo) <= Len(Frames(op))
        /\ \A j \in 1 .. Len(todo) : todo[j] = FromEnd(op, Len(todo) - j + 1)
        /\ Len(todo) <= BodyLen(op) => sel[OpUnit(op)[1]] = OpUnit(op)[2]
        /\ op.kind # "read" /\ Len(todo) \in 3 .. BodyLen(op) - 1 => chip[OpUnit(op)].wel
        /\ op.kind = "write" /\ Len(todo) = 3 => chip[OpUnit(op)].cache[OpPlane(op)] = op.d

\* A line is left active only between PROGRAM LOAD and PROGRAM EXECUTE.
OpenInv ==
    \A c \in open : pc = "run" /\ op.kind = "write" /\ Len(todo) = 3 /\ c = CsOf(op.a)

\* A die that works does so for the operation that runs or that a reset of the
\* processor has interrupted, or it resets itself in a start.
JobInv ==
    \A u \in Units : chip[u].oip =>
        \/ pc = "boot" /\ chip[u].job.kind = "reset"
        \/ /\ op \in PF!Ops /\ u = OpUnit(op) /\ chip[u].job = JobOf(op)
           /\ op.kind = "write" => chip[u].cache[OpPlane(op)] = op.d
           /\ pc = "run" => Len(todo) <= 2

\* The frames of a start.
StartKinds == {"RESET", "wait", "RDID", "UNPROTECT", "ODE_ON", "ODE_OFF", "select", "load_uboot"}
BootInv == pc = "boot" => \A n \in 1 .. Len(todo) : todo[n].kind \in StartKinds

FlashInv == RunInv /\ OpenInv /\ JobInv /\ BootInv

LEMMA BootStartKinds == \A k \in 1 .. Len(Boot) : Boot[k].kind \in StartKinds
<1> SUFFICES ASSUME NEW k \in 1 .. Len(Boot) PROVE Boot[k].kind \in StartKinds
  OBVIOUS
<1>1. ProbeLen \in {5, 9} /\ (~Stacked => ProbeLen = 5)
  BY DEF ProbeLen, SettingsLen
<1>2. CASE k \in 1 .. ProbeLen
  <2>1. k \in {1, 2, 3, 4, 5} \/ (Stacked /\ k \in {6, 7, 8, 9})
    BY <1>1, <1>2
  <2>2. Boot[4].kind \in StartKinds
    BY BootTable DEF OdeKind, StartKinds
  <2> QED BY <2>1, <2>2, BootTable DEF StartKinds
<1>3. CASE 1 \in Cs /\ k - ProbeLen \in 1 .. RestLen /\ k = ProbeLen + (k - ProbeLen)
  <2> DEFINE i == k - ProbeLen
  <2>1. i \in {1, 2, 3, 4, 5, 6} \/ (Stacked /\ i \in {7, 8, 9, 10})
    BY <1>3 DEF RestLen, SettingsLen
  <2>2. k = ProbeLen + i
    BY <1>3
  <2> HIDE DEF i
  <2>3. /\ Boot[ProbeLen + 1].kind \in StartKinds /\ Boot[ProbeLen + 2].kind \in StartKinds
        /\ Boot[ProbeLen + 3].kind \in StartKinds /\ Boot[ProbeLen + 4].kind \in StartKinds
        /\ Boot[ProbeLen + 5].kind \in StartKinds /\ Boot[ProbeLen + 6].kind \in StartKinds
        /\ Stacked => /\ Boot[ProbeLen + 7].kind \in StartKinds /\ Boot[ProbeLen + 8].kind \in StartKinds
                      /\ Boot[ProbeLen + 9].kind \in StartKinds /\ Boot[ProbeLen + 10].kind \in StartKinds
    BY <1>3, RestTable DEF OdeKind, StartKinds
  <2> QED BY <2>1, <2>2, <2>3
<1> QED BY <1>2, <1>3, BootIndex

\* The frames as they reach a die that is ready.
LEMMA ReadyStep ==
    ASSUME TypeInv, Send, ~chip[unit].oip
    PROVE  /\ frame.kind = "WRITE_ENABLE" => chip' = [chip EXCEPT ![unit] = [chip[unit] EXCEPT !.wel = TRUE]]
           /\ frame.kind = "PAGE_DATA_READ" => chip' = [chip EXCEPT ![unit] = Job("read")]
           /\ frame.kind = "PROGRAM_EXECUTE" /\ chip[unit].wel => chip' = [chip EXCEPT ![unit] = Job("program")]
           /\ frame.kind = "BLOCK_ERASE" /\ chip[unit].wel => chip' = [chip EXCEPT ![unit] = Job("erase")]
           /\ frame.kind = "PROGRAM_LOAD" =>
                chip' = [chip EXCEPT ![unit] = [chip[unit] EXCEPT !.cache[Plane(frame.x)] =
                            IF frame.cs \in open THEN Junk ELSE frame.d]]
           /\ frame.kind = "READ" /\ frame.cs \notin open => ret' = chip[unit].cache[Plane(frame.x)]
<1> HIDE DEF unit, frame
<1>1. frame.kind \in {"WRITE_ENABLE", "PAGE_DATA_READ", "PROGRAM_EXECUTE", "BLOCK_ERASE"} =>
         _pio_raw_cmd /\ frame.cs \notin open'
  BY DEF Send, _pio_raw_cmd, select_die, program_load, read_cache, nsc_wait_spi_nand_oip_ready,
         check_status, reset_chip, load_uboot, IsNext, Toggle
<1>2. frame.kind = "WRITE_ENABLE" => chip' = [chip EXCEPT ![unit] = [chip[unit] EXCEPT !.wel = TRUE]]
  BY <1>1 DEF _pio_raw_cmd, Obeyed
<1>3. frame.kind = "PAGE_DATA_READ" => chip' = [chip EXCEPT ![unit] = Job("read")]
  BY <1>1 DEF _pio_raw_cmd, Obeyed
<1>4. frame.kind = "PROGRAM_EXECUTE" /\ chip[unit].wel => chip' = [chip EXCEPT ![unit] = Job("program")]
  BY <1>1 DEF _pio_raw_cmd, Obeyed
<1>5. frame.kind = "BLOCK_ERASE" /\ chip[unit].wel => chip' = [chip EXCEPT ![unit] = Job("erase")]
  BY <1>1 DEF _pio_raw_cmd, Obeyed
<1>6. frame.kind = "PROGRAM_LOAD" => program_load
  BY DEF Send, _pio_raw_cmd, select_die, program_load, read_cache, nsc_wait_spi_nand_oip_ready,
         check_status, reset_chip, load_uboot, IsNext
<1>7. frame.kind = "PROGRAM_LOAD" =>
         chip' = [chip EXCEPT ![unit] = [chip[unit] EXCEPT !.cache[Plane(frame.x)] =
                     IF frame.cs \in open THEN Junk ELSE frame.d]]
  BY <1>6 DEF program_load, Obeyed
<1>8. frame.kind = "READ" => read_cache
  BY DEF Send, _pio_raw_cmd, select_die, program_load, read_cache, nsc_wait_spi_nand_oip_ready,
         check_status, reset_chip, load_uboot, IsNext
<1>9. frame.kind = "READ" /\ frame.cs \notin open => ret' = chip[unit].cache[Plane(frame.x)]
  BY <1>8 DEF read_cache
<1> QED BY <1>2, <1>3, <1>4, <1>5, <1>7, <1>9

\* The lines, the result, and the dies that do something else.
LEMMA OtherStep ==
    ASSUME TypeInv, Send
    PROVE  /\ frame.kind \notin {"PROGRAM_LOAD", "load_uboot"} => open' = open \ {frame.cs}
           /\ frame.kind = "load_uboot" => open' = open
           /\ frame.kind = "PROGRAM_LOAD" => open' \subseteq open \cup {frame.cs}
           /\ frame.kind \notin {"READ", "status"} => ret' = ret
           /\ frame.kind = "status" => ret' = (IF chip[unit].fail THEN "fail" ELSE "OK")
           /\ frame.kind \in {"wait", "READ", "status", "select", "RDID", "load_uboot"} => chip' = chip
           /\ frame.kind \in StartKinds \ {"RESET"} =>
                /\ chip'[unit].oip = chip[unit].oip /\ chip'[unit].job = chip[unit].job
                /\ chip'[unit].cache = chip[unit].cache
           /\ frame.kind = "RESET" => chip'[unit].job.kind = "reset"
<1>0. todo # <<>>
  BY SendStep
<1>1. unit \in Units /\ chip \in [Units -> Chip] /\ chip[unit] \in Chip
  BY <1>0, UnitIs DEF TypeInv
<1> HIDE DEF unit, frame
<1>2. /\ frame.kind \notin {"PROGRAM_LOAD", "load_uboot"} => open' = open \ {frame.cs}
      /\ frame.kind = "load_uboot" => open' = open
      /\ frame.kind = "PROGRAM_LOAD" => open' \subseteq open \cup {frame.cs}
  BY DEF Send, _pio_raw_cmd, select_die, program_load, read_cache, nsc_wait_spi_nand_oip_ready,
         check_status, reset_chip, load_uboot, IsNext, Toggle
<1>3. /\ frame.kind \notin {"READ", "status"} => ret' = ret
      /\ frame.kind = "status" => ret' = (IF chip[unit].fail THEN "fail" ELSE "OK")
  BY DEF Send, _pio_raw_cmd, select_die, program_load, read_cache, nsc_wait_spi_nand_oip_ready,
         check_status, reset_chip, load_uboot, IsNext
<1>4. frame.kind \in {"wait", "READ", "status", "select", "RDID", "load_uboot"} => chip' = chip
  BY DEF Send, _pio_raw_cmd, select_die, program_load, read_cache, nsc_wait_spi_nand_oip_ready,
         check_status, reset_chip, load_uboot, IsNext, chips
<1>5. frame.kind \in {"UNPROTECT", "ODE_ON", "ODE_OFF"} =>
         /\ chip'[unit].oip = chip[unit].oip /\ chip'[unit].job = chip[unit].job
         /\ chip'[unit].cache = chip[unit].cache
  <2>1. SUFFICES ASSUME frame.kind \in {"UNPROTECT", "ODE_ON", "ODE_OFF"}
                 PROVE  /\ chip'[unit].oip = chip[unit].oip /\ chip'[unit].job = chip[unit].job
                        /\ chip'[unit].cache = chip[unit].cache
    OBVIOUS
  <2>2. _pio_raw_cmd
    BY <2>1 DEF Send, select_die, program_load, read_cache, nsc_wait_spi_nand_oip_ready,
         check_status, reset_chip, load_uboot, IsNext
  <2>3. PICK e : /\ Obeyed(open', e)
                 /\ e = [chip[unit] EXCEPT !.prot = FALSE]
                    \/ e = [chip[unit] EXCEPT !.ode = (frame.kind = "ODE_ON")]
    BY <2>1, <2>2 DEF _pio_raw_cmd
  <2>4. e.oip = chip[unit].oip /\ e.job = chip[unit].job /\ e.cache = chip[unit].cache
    BY <1>1, <2>3 DEF Chip
  <2>5. chip' = chip \/ chip' = [chip EXCEPT ![unit] = e]
    BY <2>3 DEF Obeyed
  <2> QED BY <1>1, <2>4, <2>5
<1>6. frame.kind = "RESET" => chip'[unit].job.kind = "reset"
  <2>1. frame.kind = "RESET" => reset_chip
    BY DEF Send, _pio_raw_cmd, select_die, program_load, read_cache, nsc_wait_spi_nand_oip_ready,
         check_status, reset_chip, load_uboot, IsNext
  <2>2. SUFFICES ASSUME frame.kind = "RESET" PROVE chip'[unit].job.kind = "reset"
    OBVIOUS
  <2>3. PICK kept \in BOOLEAN :
             chip' = [chip EXCEPT ![unit] = [chip[unit] EXCEPT !.oip = TRUE, !.wel = FALSE,
                         !.prot = IF kept THEN @ ELSE TRUE, !.ode = IF kept THEN @ ELSE TRUE,
                         !.job = [kind |-> "reset", row |-> 0]]]
    BY <2>1, <2>2 DEF reset_chip
  <2> DEFINE e == [chip[unit] EXCEPT !.oip = TRUE, !.wel = FALSE,
                         !.prot = IF kept THEN @ ELSE TRUE, !.ode = IF kept THEN @ ELSE TRUE,
                         !.job = [kind |-> "reset", row |-> 0]]
  <2>4. e.job = [kind |-> "reset", row |-> 0]
    BY <1>1 DEF Chip
  <2>5. chip'[unit] = e
    BY <1>1, <2>3
  <2> HIDE DEF e
  <2> QED BY <2>4, <2>5
<1> QED BY <1>2, <1>3, <1>4, <1>5, <1>6 DEF StartKinds

\* Where a page is on its die, and the pages that a job changes.
LEMMA Pages ==
    ASSUME NEW a \in 0 .. NumPages - 1
    PROVE  /\ Abstract(a) \in Units /\ RowOf(a) \in Rows /\ RowOf(a) = a % PagesPerDie
           /\ Plane(PlaneBit(a)) = BlockPlane(RowOf(a))
           /\ CsOf(a) = Abstract(a)[1]
           /\ Stacked => s2d_die(a) = Abstract(a)[2]
<1>1. /\ CsOf(a) \in Cs /\ RowOf(a) \in Rows /\ RowOf(a) = a % PagesPerDie
      /\ Abstract(a) = <<CsOf(a), IF Stacked THEN s2d_die(a) ELSE 0>>
      /\ (Stacked => s2d_die(a) \in Dies) /\ 0 \in Dies
      /\ PlaneBit(a) = (RowOf(a) \div PagesPerBlock) % 2
  BY Address, SpiFacts
<1>2. Abstract(a) \in Units /\ CsOf(a) = Abstract(a)[1] /\ (Stacked => s2d_die(a) = Abstract(a)[2])
  BY <1>1 DEF Units
<1> QED BY <1>1, <1>2 DEF BlockPlane

LEMMA SamePage ==
    ASSUME NEW a \in 0 .. NumPages - 1, NEW b \in 0 .. NumPages - 1
    PROVE  Abstract(b) = Abstract(a) /\ RowOf(b) = RowOf(a) <=> b = a
<1>1. /\ a = PagesPerCs * Abstract(a)[1] + PagesPerDie * Abstract(a)[2] + RowOf(a)
      /\ b = PagesPerCs * Abstract(b)[1] + PagesPerDie * Abstract(b)[2] + RowOf(b)
  BY Address
<1>2. ASSUME Abstract(b) = Abstract(a), RowOf(b) = RowOf(a) PROVE b = a
  BY <1>1, <1>2
<1> QED BY <1>2

LEMMA SameBlock ==
    ASSUME NEW a \in 0 .. NumPages - 1, NEW b \in 0 .. NumPages - 1
    PROVE  Abstract(b) = Abstract(a) /\ RowOf(b) \in Block(RowOf(a))
           <=> b \div PagesPerBlock = a \div PagesPerBlock
<1> DEFINE q(y) == NumDies * Abstract(y)[1] + Abstract(y)[2]
           x(y) == RowOf(y) \div PagesPerBlock
           n == BlocksPerDie
<1>1. NumDies \in {1, 2} /\ n \in Nat \ {0} /\ PagesPerCs = PagesPerDie * NumDies
      /\ PagesPerDie \in Nat \ {0} /\ a \in Nat /\ b \in Nat /\ (NumDies = 1 <=> ~Stacked)
  <2>1. PagesPerDie \in Nat \ {0} /\ Cs \in {{0}, {0, 1}} /\ NumDies \in {1, 2}
    BY SpiFacts DEF NumDies
  <2>2. NumPages \in Nat
    BY <2>1 DEF NumPages, PagesPerCs
  <2> QED BY <2>1, <2>2, SpiFacts DEF NumDies, PagesPerCs
<1>2. ASSUME NEW y \in 0 .. NumPages - 1
      PROVE  /\ Abstract(y)[1] \in {0, 1} /\ Abstract(y)[2] \in {0, 1}
             /\ Abstract(y)[2] < NumDies /\ Abstract(y) = <<Abstract(y)[1], Abstract(y)[2]>>
             /\ q(y) \in Nat /\ RowOf(y) \in Rows /\ x(y) \in 0 .. n - 1
             /\ y \div PagesPerBlock = n * q(y) + x(y)
  <2>1. Abstract(y) \in Units /\ RowOf(y) \in Rows
    BY Pages
  <2>2. Abstract(y) = <<Abstract(y)[1], Abstract(y)[2]>> /\ Abstract(y)[1] \in Cs /\ Abstract(y)[2] \in Dies
    BY <2>1, PairIs
  <2>3. Abstract(y)[1] \in {0, 1} /\ Abstract(y)[2] \in {0, 1} /\ Abstract(y)[2] < NumDies
    BY <1>1, <2>2, SpiFacts
  <2>4. q(y) \in Nat
    BY <1>1, <2>3
  <2>5. y = PagesPerCs * Abstract(y)[1] + PagesPerDie * Abstract(y)[2] + RowOf(y)
    BY Address
  <2> DEFINE c == Abstract(y)[1]
             d == Abstract(y)[2]
             D == PagesPerDie
             m == NumDies
             r == RowOf(y)
  <2>6. y = D * q(y) + r
    <3>0. r \in Nat
      BY <2>1 DEF Rows
    <3>1. y = (D * m) * c + D * d + r
      BY <1>1, <2>5
    <3>2. q(y) = m * c + d
      OBVIOUS
    <3>3. c \in {0, 1} /\ d \in {0, 1} /\ m \in {1, 2} /\ D \in Nat
      BY <1>1, <2>3
    <3> HIDE DEF c, d, D, m, r, q
    <3>4. (D * m) * c = D * (m * c) /\ D * (m * c + d) = D * (m * c) + D * d
      BY <3>3
    <3> QED BY <3>1, <3>2, <3>4
  <2>7. y \in Nat
    BY <1>1
  <2>8. y \div PagesPerBlock = n * q(y) + x(y)
    <3> HIDE DEF q
    <3> QED BY <2>1, <2>4, <2>6, <2>7, DieOffset
  <2>9. x(y) \in 0 .. n - 1
    BY <2>1, RowBlock
  <2> QED BY <2>1, <2>2, <2>3, <2>4, <2>8, <2>9
<1>3. RowOf(b) \in Block(RowOf(a)) <=> x(b) = x(a)
  BY <1>2 DEF Block
<1>4. ASSUME Abstract(b) = Abstract(a), x(b) = x(a) PROVE b \div PagesPerBlock = a \div PagesPerBlock
  <2>1. q(b) = q(a)
    BY <1>4
  <2> QED BY <1>2, <1>4, <2>1
<1>5. ASSUME b \div PagesPerBlock = a \div PagesPerBlock PROVE Abstract(b) = Abstract(a) /\ x(b) = x(a)
  <2> DEFINE w == a \div PagesPerBlock
  <2>1. w = n * q(a) + x(a) /\ w = n * q(b) + x(b)
    BY <1>2, <1>5
  <2>2. q(a) \in Nat /\ q(b) \in Nat /\ x(a) \in 0 .. n - 1 /\ x(b) \in 0 .. n - 1 /\ w \in Nat
    BY <1>1, <1>2, SpiFacts
  <2> DEFINE qa == q(a)
             xa == x(a)
             qb == q(b)
             xb == x(b)
  <2>a. /\ qa \in Nat /\ qb \in Nat /\ xa \in 0 .. n - 1 /\ xb \in 0 .. n - 1
        /\ w = n * qa + xa /\ w = n * qb + xb /\ n \in Nat \ {0} /\ w \in Nat
    BY <1>1, <2>1, <2>2
  <2> HIDE DEF q, x, n, w, qa, xa, qb, xb
  <2>3. w \div n = qa /\ w % n = xa
    BY <2>a, Division
  <2>4. w \div n = qb /\ w % n = xb
    BY <2>a, Division
  <2>5. q(a) = q(b) /\ x(a) = x(b)
    BY <2>3, <2>4 DEF qa, xa, qb, xb
  <2>6. Abstract(b)[1] = Abstract(a)[1] /\ Abstract(b)[2] = Abstract(a)[2]
    <3>1. /\ Abstract(a)[1] \in {0, 1} /\ Abstract(a)[2] \in {0, 1} /\ Abstract(a)[2] < NumDies
          /\ Abstract(b)[1] \in {0, 1} /\ Abstract(b)[2] \in {0, 1} /\ Abstract(b)[2] < NumDies
      BY <1>2
    <3>2. NumDies * Abstract(a)[1] + Abstract(a)[2] = NumDies * Abstract(b)[1] + Abstract(b)[2]
      BY <2>5 DEF q
    <3> QED BY <1>1, <3>1, <3>2
  <2>7. Abstract(a) = <<Abstract(a)[1], Abstract(a)[2]>> /\ Abstract(b) = <<Abstract(b)[1], Abstract(b)[2]>>
    BY <1>2
  <2> QED BY <2>5, <2>6, <2>7
<1> QED BY <1>3, <1>4, <1>5

\* The frame that is next in an operation, by the number of frames that are left.
LEMMA RunFrame ==
    ASSUME TypeInv, RunInv, pc = "run"
    PROVE  /\ op \in PF!Ops /\ op.a \in 0 .. NumPages - 1 /\ op.kind \in {"read", "write", "erase"}
           /\ todo # <<>> /\ Len(todo) \in Nat \ {0} /\ Len(todo) <= BodyLen(op) + 1
           /\ BodyLen(op) \in {3, 4, 5} /\ (op.kind = "read" => BodyLen(op) = 3)
           /\ (op.kind = "write" => BodyLen(op) = 5) /\ (op.kind = "erase" => BodyLen(op) = 4)
           /\ frame.cs = OpUnit(op)[1] /\ frame.cs = CsOf(op.a)
           /\ OpUnit(op) \in Units /\ OpUnit(op) = <<OpUnit(op)[1], OpUnit(op)[2]>>
           /\ Len(todo) <= BodyLen(op) => unit = OpUnit(op) /\ frame.kind # "select"
           /\ Len(todo) > BodyLen(op) => frame.kind = "select" /\ frame.x = OpUnit(op)[2]
           /\ Len(todo) = 1 => frame.kind = IF op.kind = "read" THEN "READ" ELSE "status"
           /\ Len(todo) = 1 /\ op.kind = "read" => Plane(frame.x) = OpPlane(op)
           /\ Len(todo) = 2 => frame.kind = "wait"
           /\ Len(todo) = 3 => /\ frame.x = RowOf(op.a)
                               /\ op.kind = "read" => frame.kind = "PAGE_DATA_READ"
                               /\ op.kind = "write" => frame.kind = "PROGRAM_EXECUTE"
                               /\ op.kind = "erase" => frame.kind = "BLOCK_ERASE"
           /\ Len(todo) = 4 /\ op.kind = "write" =>
                frame.kind = "PROGRAM_LOAD" /\ Plane(frame.x) = OpPlane(op) /\ frame.d = op.d
           /\ Len(todo) = BodyLen(op) /\ op.kind # "read" => frame.kind = "WRITE_ENABLE"
<1> DEFINE L == Len(todo)
           c == CsOf(op.a)
<1>1. op \in PF!Ops /\ todo \in Seq(FrameSet) /\ todo # <<>>
  BY DEF TypeInv
<1>2. op.a \in 0 .. NumPages - 1 /\ op.kind \in {"read", "write", "erase"}
  BY <1>1, OpTyped
<1>3. L \in Nat \ {0} /\ frame = todo[1]
  BY <1>1, TailIs DEF frame
<1>4. /\ BodyLen(op) \in {3, 4, 5} /\ (op.kind = "read" => BodyLen(op) = 3)
      /\ (op.kind = "write" => BodyLen(op) = 5) /\ (op.kind = "erase" => BodyLen(op) = 4)
  BY <1>2 DEF BodyLen
<1>5. Len(Frames(op)) = BodyLen(op) + (IF Stacked THEN 1 ELSE 0)
  BY <1>1, OpFrames
<1>6. L <= BodyLen(op) + 1 /\ (L > BodyLen(op) => Stacked /\ L = BodyLen(op) + 1)
  BY <1>3, <1>4, <1>5 DEF RunInv
<1>7. frame = FromEnd(op, L)
  <2>1. 1 \in 1 .. L /\ L - 1 + 1 = L
    BY <1>3
  <2>2. todo[1] = FromEnd(op, L - 1 + 1)
    BY <2>1 DEF RunInv
  <2> QED BY <1>3, <2>1, <2>2
<1>8. /\ Abstract(op.a) \in Units /\ RowOf(op.a) \in Rows
      /\ Plane(PlaneBit(op.a)) = BlockPlane(RowOf(op.a)) /\ c = Abstract(op.a)[1]
      /\ Stacked => s2d_die(op.a) = Abstract(op.a)[2]
  BY <1>2, Pages
<1>9. Abstract(op.a) = <<Abstract(op.a)[1], Abstract(op.a)[2]>>
  BY <1>8, PairIs
<1>10. /\ FromEnd(op, 2) = Short("wait", c)
       /\ op.kind = "read" =>
            /\ FromEnd(op, 1) = Frame("READ", c, PlaneBit(op.a), Blank)
            /\ FromEnd(op, 3) = Frame("PAGE_DATA_READ", c, RowOf(op.a), Blank)
       /\ op.kind = "write" =>
            /\ FromEnd(op, 1) = Short("status", c)
            /\ FromEnd(op, 3) = Frame("PROGRAM_EXECUTE", c, RowOf(op.a), Blank)
            /\ FromEnd(op, 4) = Frame("PROGRAM_LOAD", c, PlaneBit(op.a), op.d)
            /\ FromEnd(op, 5) = Short("WRITE_ENABLE", c)
       /\ op.kind = "erase" =>
            /\ FromEnd(op, 1) = Short("status", c)
            /\ FromEnd(op, 3) = Frame("BLOCK_ERASE", c, RowOf(op.a), Blank)
            /\ FromEnd(op, 4) = Short("WRITE_ENABLE", c)
       /\ Stacked => FromEnd(op, BodyLen(op) + 1) = Frame("select", c, s2d_die(op.a), Blank)
  BY <1>1, OpFrames
<1> HIDE DEF c, L, frame
<1>11. CASE L > BodyLen(op)
  <2>1. Stacked /\ L = BodyLen(op) + 1
    BY <1>6, <1>11
  <2>2. frame.kind = "select" /\ frame.x = Abstract(op.a)[2] /\ frame.cs = c
    BY <1>7, <1>8, <1>10, <2>1, ShortIs
  <2>3. L \notin {1, 2, 3} /\ ~(L = 4 /\ op.kind = "write") /\ L # BodyLen(op)
        /\ ~(L <= BodyLen(op))
    BY <1>4, <2>1
  <2> QED BY <1>1, <1>2, <1>3, <1>4, <1>6, <1>8, <1>9, <2>2, <2>3 DEF L, c, OpUnit
<1>12. CASE ~(L > BodyLen(op))
  <2>1. L \in {1, 2, 3} \/ (L = 4 /\ op.kind \in {"write", "erase"}) \/ (L = 5 /\ op.kind = "write")
    BY <1>2, <1>3, <1>4, <1>12
  <2>2. frame.cs = c
    BY <1>2, <1>7, <1>10, <2>1, ShortIs
  <2>3. /\ L = 1 => frame.kind = IF op.kind = "read" THEN "READ" ELSE "status"
        /\ L = 1 /\ op.kind = "read" => Plane(frame.x) = OpPlane(op)
        /\ L = 2 => frame.kind = "wait"
    <3>1. L = 1 => frame.kind = IF op.kind = "read" THEN "READ" ELSE "status"
      BY <1>2, <1>7, <1>10, ShortIs
    <3>2. L = 1 /\ op.kind = "read" => frame.x = PlaneBit(op.a)
      BY <1>7, <1>10, ShortIs
    <3>3. L = 2 => frame.kind = "wait"
      BY <1>7, <1>10, ShortIs
    <3> QED BY <1>8, <3>1, <3>2, <3>3 DEF OpPlane
  <2>4. L = 3 => /\ frame.x = RowOf(op.a)
                 /\ op.kind = "read" => frame.kind = "PAGE_DATA_READ"
                 /\ op.kind = "write" => frame.kind = "PROGRAM_EXECUTE"
                 /\ op.kind = "erase" => frame.kind = "BLOCK_ERASE"
    BY <1>2, <1>7, <1>10, ShortIs
  <2>5. /\ L = 4 /\ op.kind = "write" =>
             frame.kind = "PROGRAM_LOAD" /\ Plane(frame.x) = OpPlane(op) /\ frame.d = op.d
        /\ L = BodyLen(op) /\ op.kind # "read" => frame.kind = "WRITE_ENABLE"
    BY <1>2, <1>4, <1>7, <1>8, <1>10, ShortIs DEF OpPlane
  <2>6. frame.kind # "select"
    BY <1>2, <1>4, <2>1, <2>3, <2>4, <2>5
  <2>7. L <= BodyLen(op)
    BY <1>3, <1>4, <1>12
  <2>8. unit = OpUnit(op)
    BY <1>8, <1>9, <2>2, <2>7 DEF unit, OpUnit, RunInv, L
  <2> QED BY <1>1, <1>2, <1>3, <1>4, <1>6, <1>8, <1>9, <1>12, <2>2, <2>3, <2>4, <2>5, <2>6, <2>7, <2>8
      DEF L, c, OpUnit
<1> QED BY <1>11, <1>12

LEMMA InitFlashInv == Init => FlashInv
<1> SUFFICES ASSUME Init PROVE FlashInv
  OBVIOUS
<1>1. pc = "boot" /\ open = {} /\ todo = Boot /\ \A u \in Units : ~chip[u].oip
  BY PoweredOnTyped DEF Init
<1> QED BY <1>1, BootStartKinds DEF FlashInv, RunInv, OpenInv, JobInv, BootInv

\* A frame of an operation.
LEMMA RunStep ==
    ASSUME TypeInv, BusyInv, FlashInv, Send, pc = "run", Len(todo) # 1
    PROVE  /\ pc' = "run" /\ op' = op /\ Len(todo') = Len(todo) - 1
           /\ RunInv' /\ OpenInv' /\ JobInv'
           /\ Len(todo) = 3 => chip'[OpUnit(op)].oip
           /\ Len(todo) = 2 => chip' = chip /\ ~chip[OpUnit(op)].oip
<1> DEFINE L == Len(todo)
           w == OpUnit(op)
<1>1. /\ op \in PF!Ops /\ op.kind \in {"read", "write", "erase"} /\ op.a \in 0 .. NumPages - 1
      /\ todo # <<>> /\ L \in Nat \ {0} /\ L <= BodyLen(op) + 1
      /\ BodyLen(op) \in {3, 4, 5} /\ (op.kind = "read" => BodyLen(op) = 3)
      /\ (op.kind = "write" => BodyLen(op) = 5) /\ (op.kind = "erase" => BodyLen(op) = 4)
      /\ frame.cs = w[1] /\ frame.cs = CsOf(op.a) /\ w \in Units
  BY RunFrame DEF FlashInv
<1>2. /\ L <= BodyLen(op) => unit = w /\ frame.kind # "select"
      /\ L > BodyLen(op) => frame.kind = "select" /\ frame.x = w[2]
      /\ L = 2 => frame.kind = "wait"
      /\ L = 3 => /\ frame.x = RowOf(op.a)
                  /\ op.kind = "read" => frame.kind = "PAGE_DATA_READ"
                  /\ op.kind = "write" => frame.kind = "PROGRAM_EXECUTE"
                  /\ op.kind = "erase" => frame.kind = "BLOCK_ERASE"
      /\ L = 4 /\ op.kind = "write" =>
           frame.kind = "PROGRAM_LOAD" /\ Plane(frame.x) = OpPlane(op) /\ frame.d = op.d
      /\ L = BodyLen(op) /\ op.kind # "read" => frame.kind = "WRITE_ENABLE"
  BY RunFrame DEF FlashInv
<1>3. /\ Advance /\ chip' \in [Units -> Chip]
      /\ \A v \in Units : v # unit => chip'[v] = chip[v]
      /\ DieStep(frame, chip[unit], chip'[unit])
      /\ frame.kind = "select" => sel' = [sel EXCEPT ![frame.cs] = frame.x] /\ chip' = chip
      /\ frame.kind # "select" => sel' = sel
  BY SendStep
<1>4. unit \in Units /\ chip[unit] \in Chip /\ frame.cs \in Cs /\ chip \in [Units -> Chip]
      /\ sel \in [Cs -> Dies]
  BY <1>1, UnitIs DEF TypeInv
<1>5. /\ pc' = "run" /\ op' = op /\ todo' = Tail(todo) /\ Len(todo') = L - 1
      /\ \A j \in 1 .. L - 1 : todo'[j] = todo[j + 1]
  <2>1. pc' = pc /\ op' = op /\ todo' = Tail(todo)
    BY <1>3 DEF Advance
  <2> QED BY <1>1, <2>1, TailIs DEF TypeInv
<1>a. Len(todo') = L - 1 /\ L \in Nat \ {0, 1}
  BY <1>1, <1>5
<1>b. L > BodyLen(op) \/ L = BodyLen(op) \/ L = 2 \/ L = 3 \/ (L = 4 /\ op.kind = "write")
  BY <1>1, <1>a, SMTT(30)
<1>6. L >= 3 => \A v \in Units : ~chip[v].oip
  BY <1>1 DEF FlashInv, JobInv
<1>7. L = 2 => ~chip[unit].oip
  BY <1>2, <1>3 DEF DieStep
<1>8. ~chip[unit].oip
  BY <1>4, <1>6, <1>7, <1>a
<1> HIDE DEF unit, frame, w, L
<1>9. RunInv'
  <2>1. Len(todo') <= Len(Frames(op))
    BY <1>1, <1>5, OpFrames DEF FlashInv, RunInv, L
  <2>2. ASSUME NEW j \in 1 .. Len(todo') PROVE todo'[j] = FromEnd(op, Len(todo') - j + 1)
    <3>1. j + 1 \in 1 .. L /\ L - (j + 1) + 1 = Len(todo') - j + 1 /\ todo'[j] = todo[j + 1]
      BY <1>1, <1>5
    <3>2. todo[j + 1] = FromEnd(op, L - (j + 1) + 1)
      BY <3>1 DEF FlashInv, RunInv, L
    <3> QED BY <3>1, <3>2
  <2>3. Len(todo') <= BodyLen(op) => sel'[w[1]] = w[2]
    <3>1. CASE L > BodyLen(op)
      BY <1>1, <1>2, <1>3, <1>4, <3>1
    <3>2. CASE ~(L > BodyLen(op))
      <4>1. L <= BodyLen(op) /\ sel' = sel
        BY <1>1, <1>2, <1>3, <3>2
      <4> QED BY <4>1 DEF FlashInv, RunInv, L, w
    <3> QED BY <3>1, <3>2
  <2>4. op.kind # "read" /\ Len(todo') \in 3 .. BodyLen(op) - 1 => chip'[w].wel
    <3>1. SUFFICES ASSUME op.kind # "read", L - 1 \in 3 .. BodyLen(op) - 1 PROVE chip'[w].wel
      BY <1>5
    <3>2. CASE L = BodyLen(op)
      <4>1. chip' = [chip EXCEPT ![unit] = [chip[unit] EXCEPT !.wel = TRUE]]
        BY <1>2, <1>8, <3>1, <3>2, ReadyStep
      <4>2. unit = w
        BY <1>1, <1>2, <3>2
      <4>3. [chip[unit] EXCEPT !.wel = TRUE].wel = TRUE
        BY <1>4 DEF Chip
      <4> QED BY <1>4, <4>1, <4>2, <4>3
    <3>3. CASE L # BodyLen(op)
      <4>1. L = 4 /\ op.kind = "write" /\ L <= BodyLen(op)
        BY <1>1, <3>1, <3>3
      <4>2. chip[w].wel
        BY <1>1, <4>1 DEF FlashInv, RunInv, L, w
      <4> DEFINE x == IF frame.cs \in open THEN Junk ELSE frame.d
                 e == [chip[unit] EXCEPT !.cache[Plane(frame.x)] = x]
      <4>3. chip' = [chip EXCEPT ![unit] = e] /\ unit = w
        BY <1>2, <1>8, <4>1, ReadyStep
      <4> HIDE DEF x
      <4>4. e.wel = chip[unit].wel
        BY <1>4 DEF Chip
      <4> HIDE DEF e
      <4> QED BY <1>4, <4>2, <4>3, <4>4
    <3> QED BY <3>2, <3>3
  <2>5. op.kind = "write" /\ Len(todo') = 3 => chip'[w].cache[OpPlane(op)] = op.d
    <3>0. Len(todo') = 3 => L = 4
      <4> DEFINE M == Len(todo')
      <4>1. M = L - 1 /\ L \in Nat \ {0, 1}
        BY <1>a
      <4> HIDE DEF M
      <4>2. M = 3 => L = 4
        BY <4>1
      <4> QED BY <4>2 DEF M
    <3>1. SUFFICES ASSUME op.kind = "write", L = 4 PROVE chip'[w].cache[OpPlane(op)] = op.d
      BY <3>0
    <3>2. unit = w /\ frame.kind = "PROGRAM_LOAD" /\ Plane(frame.x) = OpPlane(op) /\ frame.d = op.d
      BY <1>1, <1>2, <3>1
    <3>3. frame.cs \notin open
      BY <3>1 DEF FlashInv, OpenInv, L
    <3> DEFINE x == IF frame.cs \in open THEN Junk ELSE frame.d
               e == [chip[unit] EXCEPT !.cache[Plane(frame.x)] = x]
    <3>4. chip' = [chip EXCEPT ![unit] = e]
      BY <1>8, <3>2, ReadyStep
    <3>5. x = op.d
      BY <3>2, <3>3
    <3>6. OpPlane(op) \in Planes
      BY <1>1, Pages, PlaneOk DEF OpPlane
    <3> HIDE DEF x
    <3>7. e.cache[OpPlane(op)] = x
      BY <1>4, <3>2, <3>6 DEF Chip
    <3> HIDE DEF e
    <3> QED BY <1>4, <3>2, <3>4, <3>5, <3>7
  <2> QED BY <1>5, <2>1, <2>2, <2>3, <2>4, <2>5 DEF RunInv, w
<1>10. OpenInv'
  <2>1. frame.kind # "load_uboot"
    <3>2. L = BodyLen(op) /\ op.kind = "read" => L = 3
      BY <1>1
    <3> QED BY <1>1, <1>2, <1>b, <3>2
  <2>2. CASE frame.kind = "PROGRAM_LOAD"
    <3>1. L = 4 /\ op.kind = "write"
      <4>2. L = BodyLen(op) /\ op.kind = "read" => L = 3
        BY <1>1
      <4> QED BY <1>1, <1>2, <1>b, <2>2, <4>2
    <3>2. open = {}
      BY <3>1 DEF FlashInv, OpenInv, L
    <3>3. open' \subseteq {frame.cs}
      BY <2>2, <3>2, OtherStep
    <3> QED BY <1>1, <1>5, <3>1, <3>3 DEF OpenInv
  <2>3. CASE frame.kind # "PROGRAM_LOAD"
    <3>1. open' = open \ {frame.cs}
      BY <2>1, <2>3, OtherStep
    <3>2. \A c \in open : c = frame.cs
      BY <1>1 DEF FlashInv, OpenInv
    <3> QED BY <3>1, <3>2 DEF OpenInv
  <2> QED BY <2>2, <2>3
<1>11. JobInv'
  <2>1. ASSUME NEW v \in Units, chip'[v].oip
        PROVE  /\ op \in PF!Ops /\ v = w /\ chip'[v].job = JobOf(op)
               /\ op.kind = "write" => chip'[v].cache[OpPlane(op)] = op.d
               /\ Len(todo') <= 2
    <3>1. CASE L = 3
      <4>1. unit = w /\ L <= BodyLen(op)
        BY <1>1, <1>2, <3>1
      <4>2. v = unit
        BY <1>3, <1>6, <2>1, <3>1
      <4> DEFINE k == JobOf(op).kind
                 e == [chip[unit] EXCEPT !.oip = TRUE, !.job = [kind |-> k, row |-> frame.x]]
      <4>3. op.kind # "read" => chip[unit].wel
        BY <1>1, <3>1, <4>1 DEF FlashInv, RunInv, L, w
      <4>4. chip' = [chip EXCEPT ![unit] = Job(k)]
        BY <1>1, <1>2, <1>8, <3>1, <4>3, ReadyStep DEF JobOf
      <4>5. Job(k) = e
        BY DEF Job
      <4>6. JobOf(op) = [kind |-> k, row |-> frame.x]
        BY <1>2, <3>1 DEF JobOf
      <4> HIDE DEF k
      <4>7. e.job = [kind |-> k, row |-> frame.x] /\ e.cache = chip[unit].cache
        BY <1>4 DEF Chip
      <4> HIDE DEF e
      <4>8. chip'[v] = e
        BY <1>4, <4>2, <4>4, <4>5
      <4>9. op.kind = "write" => chip[unit].cache[OpPlane(op)] = op.d
        BY <3>1, <4>1 DEF FlashInv, RunInv, L, w
      <4>10. Len(todo') <= 2
        BY <1>a, <3>1
      <4> QED BY <1>1, <4>1, <4>2, <4>6, <4>7, <4>8, <4>9, <4>10
    <3>2. CASE L = 2
      <4>1. chip' = chip
        BY <1>2, <3>2, OtherStep
      <4>2. unit = w
        BY <1>1, <1>2, <3>2
      <4>3. v = w
        BY <2>1, <4>1 DEF FlashInv, JobInv, w
      <4> QED BY <1>8, <2>1, <4>1, <4>2, <4>3
    <3>3. CASE L \notin {2, 3}
      <4>1. L > BodyLen(op) \/ (L = BodyLen(op) /\ op.kind # "read") \/ (L = 4 /\ op.kind = "write")
        BY <1>1, <1>b, <3>3
      <4>2. L >= 3 /\ frame.kind \notin Jobs
        BY <1>1, <1>2, <3>3, <4>1 DEF Jobs
      <4>3. ~chip[v].oip
        BY <1>6, <4>2
      <4> QED BY <1>3, <2>1, <4>2, <4>3 DEF DieStep
    <3> QED BY <3>1, <3>2, <3>3
  <2> QED BY <1>5, <2>1 DEF JobInv, w
<1>12. L = 3 => chip'[w].oip
  <2>1. SUFFICES ASSUME L = 3 PROVE chip'[w].oip
    OBVIOUS
  <2>2. unit = w /\ L <= BodyLen(op)
    BY <1>1, <1>2, <2>1
  <2>3. op.kind # "read" => chip[unit].wel
    BY <1>1, <2>1, <2>2 DEF FlashInv, RunInv, L, w
  <2> DEFINE k == JobOf(op).kind
             e == [chip[unit] EXCEPT !.oip = TRUE, !.job = [kind |-> k, row |-> frame.x]]
  <2>4. chip' = [chip EXCEPT ![unit] = Job(k)]
    BY <1>1, <1>2, <1>8, <2>1, <2>3, ReadyStep DEF JobOf
  <2>5. Job(k) = e
    BY DEF Job
  <2> HIDE DEF k
  <2>6. e.oip
    BY <1>4 DEF Chip
  <2> HIDE DEF e
  <2> QED BY <1>4, <2>2, <2>4, <2>5, <2>6
<1>13. L = 2 => chip' = chip /\ ~chip[w].oip
  <2>1. SUFFICES ASSUME L = 2 PROVE chip' = chip /\ ~chip[w].oip
    OBVIOUS
  <2>2. unit = w
    BY <1>1, <1>2, <2>1
  <2> QED BY <1>2, <1>8, <2>1, <2>2, OtherStep
<1> QED BY <1>5, <1>9, <1>10, <1>11, <1>12, <1>13 DEF L, w

LEMMA StepFlashInv ==
    TypeInv /\ BusyInv /\ FlashInv /\ [Next]_vars /\ TypeInv' /\ BusyInv' => FlashInv'
<1> SUFFICES ASSUME TypeInv, BusyInv, FlashInv, [Next]_vars, TypeInv', BusyInv' PROVE FlashInv'
  OBVIOUS
<1> USE DEF FlashInv
<1>0. TypeInv /\ BusyInv /\ FlashInv
  OBVIOUS
<1>1. CASE UNCHANGED vars
  BY <1>1 DEF vars, chips, RunInv, OpenInv, JobInv, BootInv
<1>2. ASSUME NEW o \in PF!Ops, Start(o) PROVE FlashInv'
  <2>1. /\ todo = <<>> /\ todo' = Frames(o) /\ chip' = chip /\ sel' = sel /\ open' = open
        /\ op' = o /\ pc' = "run" /\ pc = "idle"
    BY <1>2 DEF Start, TypeInv, chips
  <2>2. \A u \in Units : ~chip[u].oip
    BY <2>1, NothingMet DEF BusyInv
  <2>3. open = {}
    BY <2>1 DEF OpenInv
  <2>4. Len(Frames(o)) = BodyLen(o) + (IF Stacked THEN 1 ELSE 0) /\ BodyLen(o) \in {3, 4, 5}
    BY OpFrames DEF BodyLen
  <2>5. \A j \in 1 .. Len(Frames(o)) : Frames(o)[j] = FromEnd(o, Len(Frames(o)) - j + 1)
    <3> DEFINE N == Len(Frames(o))
    <3>1. N \in Nat
      BY <2>4
    <3>2. \A j \in 1 .. N : N - (N - j + 1) + 1 = j
      BY <3>1
    <3> QED BY <3>2 DEF FromEnd
  <2>6. Len(Frames(o)) <= BodyLen(o) => sel[OpUnit(o)[1]] = OpUnit(o)[2]
    <3>1. SUFFICES ASSUME Len(Frames(o)) <= BodyLen(o) PROVE sel[OpUnit(o)[1]] = OpUnit(o)[2]
      OBVIOUS
    <3>2. ~Stacked
      BY <2>4, <3>1
    <3>3. Dies = {0}
      BY <3>2, SpiFacts
    <3>4. OpUnit(o) \in Units
      BY OpTyped, Pages DEF OpUnit
    <3>5. OpUnit(o)[1] \in Cs /\ OpUnit(o)[2] \in Dies
      BY <3>4, PairIs
    <3> QED BY <3>3, <3>5 DEF TypeInv
  <2>7. ~(Len(Frames(o)) \in 3 .. BodyLen(o) - 1) /\ ~(o.kind = "write" /\ Len(Frames(o)) = 3)
    BY <2>4 DEF BodyLen
  <2>8. RunInv'
    BY <2>1, <2>4, <2>5, <2>6, <2>7 DEF RunInv
  <2> QED BY <2>1, <2>2, <2>3, <2>8 DEF OpenInv, JobInv, BootInv
<1>3. CASE Send
  <2>1. /\ todo # <<>> /\ todo' = Tail(todo) /\ Advance
        /\ \A v \in Units : v # unit => chip'[v] = chip[v]
        /\ DieStep(frame, chip[unit], chip'[unit])
    BY <1>3, SendStep
  <2>2. pc \in {"boot", "run"} /\ todo \in Seq(FrameSet)
    BY <2>1 DEF TypeInv
  <2>3. CASE Len(todo) = 1
    <3>1. pc' = "idle" /\ todo' = <<>>
      BY <2>1, <2>2, <2>3, TailIs DEF Advance
    <3>2. \A v \in Units : ~chip'[v].oip
      BY <3>1, NothingMet DEF BusyInv
    <3>3. open' = {}
      <4>1. CASE pc = "boot"
        <5>1. open = {}
          BY <4>1 DEF OpenInv
        <5>2. frame.kind \in StartKinds
          <6>1. frame = todo[1] /\ 1 \in 1 .. Len(todo)
            BY <2>1, <2>2, TailIs DEF frame
          <6> QED BY <4>1, <6>1 DEF BootInv
        <5> QED BY <1>3, <5>1, <5>2, OtherStep DEF StartKinds
      <4>2. CASE pc = "run"
        <5>1. open = {}
          BY <2>3 DEF OpenInv
        <5>2. frame.kind \in {"READ", "status"}
          BY <2>3, <4>2, RunFrame
        <5> QED BY <1>3, <5>1, <5>2, OtherStep
      <4> QED BY <2>2, <4>1, <4>2
    <3> QED BY <3>1, <3>2, <3>3 DEF RunInv, OpenInv, JobInv, BootInv
  <2>4. CASE Len(todo) # 1 /\ pc = "run"
    BY <1>0, <1>3, <2>4, RunStep DEF BootInv
  <2>5. CASE Len(todo) # 1 /\ pc = "boot"
    <3>1. pc' = "boot" /\ op' = op /\ todo' = Tail(todo)
      BY <2>1, <2>5 DEF Advance
    <3>2. /\ frame = todo[1] /\ 1 \in 1 .. Len(todo) /\ Len(Tail(todo)) = Len(todo) - 1
          /\ \A k \in 1 .. Len(todo) - 1 : Tail(todo)[k] = todo[k + 1]
          /\ Len(todo) \in Nat
      BY <2>1, <2>2, TailIs DEF frame
    <3>3. frame.kind \in StartKinds
      BY <2>5, <3>2 DEF BootInv
    <3>4. BootInv'
      <4>1. ASSUME NEW n \in 1 .. Len(Tail(todo)) PROVE Tail(todo)[n].kind \in StartKinds
        <5>1. n + 1 \in 1 .. Len(todo) /\ Tail(todo)[n] = todo[n + 1]
          BY <3>2
        <5> QED BY <2>5, <5>1 DEF BootInv
      <4> QED BY <3>1, <4>1 DEF BootInv
    <3>5. open = {} /\ open' = {}
      <4>1. open = {}
        BY <2>5 DEF OpenInv
      <4> QED BY <1>3, <3>3, <4>1, OtherStep DEF StartKinds
    <3>6. JobInv'
      <4>1. ASSUME NEW v \in Units, chip'[v].oip
            PROVE  \/ chip'[v].job.kind = "reset"
                   \/ /\ op \in PF!Ops /\ v = OpUnit(op) /\ chip'[v].job = JobOf(op)
                      /\ op.kind = "write" => chip'[v].cache[OpPlane(op)] = op.d
        <5>1. CASE v = unit /\ frame.kind = "RESET"
          BY <1>3, <5>1, OtherStep
        <5>2. CASE ~(v = unit /\ frame.kind = "RESET")
          <6>1. chip'[v].oip = chip[v].oip /\ chip'[v].job = chip[v].job /\ chip'[v].cache = chip[v].cache
            BY <1>3, <2>1, <3>3, <5>2, OtherStep
          <6> QED BY <2>5, <4>1, <6>1 DEF JobInv
        <5> QED BY <5>1, <5>2
      <4> QED BY <3>1, <4>1 DEF JobInv
    <3> QED BY <3>1, <3>4, <3>5, <3>6 DEF RunInv, OpenInv
  <2> QED BY <2>2, <2>3, <2>4, <2>5
<1>4. ASSUME NEW u \in Units, Finish(u) PROVE FlashInv'
  <2>1. /\ \A v \in Units : v # u => chip'[v] = chip[v]
        /\ ~chip'[u].oip /\ UNCHANGED <<sel, open, pc, op, todo, ret>>
    BY <1>4, FinishStep
  <2>2. chip[u].oip
    BY <1>4 DEF Finish
  <2>3. pc = "run" => Len(todo) <= 2 /\ Len(todo) \in Nat
    BY <2>2, TailIs DEF JobInv, TypeInv
  <2>4. RunInv'
    BY <2>1, <2>3, SMTT(30) DEF RunInv
  <2>5. JobInv'
    BY <2>1 DEF JobInv
  <2> QED BY <2>1, <2>4, <2>5 DEF OpenInv, BootInv
<1>5. CASE CpuReset
  <2>1. /\ todo' = Boot /\ chip' = chip /\ sel' = sel /\ open' = {} /\ pc' = "boot" /\ op' = op
    BY <1>5 DEF CpuReset, chips
  <2>2. JobInv'
    BY <2>1 DEF JobInv
  <2> QED BY <2>1, <2>2, BootStartKinds DEF RunInv, OpenInv, BootInv
<1>6. CASE PowerFails
  <2>1. todo' = Boot /\ open' = {} /\ pc' = "boot" /\ \A u \in Units : ~chip'[u].oip
    BY <1>6, PoweredOnTyped DEF PowerFails
  <2> QED BY <2>1, BootStartKinds DEF RunInv, OpenInv, JobInv, BootInv
<1>7. CASE other_maker
  <2>1. /\ pc = "boot" /\ UNCHANGED <<chip, sel, pc, op>>
        /\ open' \subseteq open /\ (todo' = todo \/ todo' = Boot)
    BY <1>7, OtherMaker
  <2>2. JobInv' /\ RunInv' /\ OpenInv'
    BY <2>1 DEF JobInv, RunInv, OpenInv
  <2> QED BY <2>1, <2>2, BootStartKinds DEF BootInv
<1> QED BY <1>1, <1>2, <1>3, <1>4, <1>5, <1>6, <1>7 DEF Next

AllInv == TypeInv /\ BusyInv /\ ProtInv /\ FlashInv

LEMMA FlashInvariant == Spec => []AllInv
<1>1. Init => AllInv
  BY InitTypeInv, InitBusyInv, InitProtInv, InitFlashInv DEF AllInv
<1>2. AllInv /\ [Next]_vars => AllInv'
  <2> SUFFICES ASSUME AllInv, [Next]_vars PROVE AllInv'
    OBVIOUS
  <2>1. TypeInv' /\ BusyInv' /\ ProtInv'
    BY StepTypeInv, StepBusyInv, StepProtInv DEF AllInv
  <2>2. FlashInv'
    BY <2>1, StepFlashInv DEF AllInv
  <2> QED BY <2>1, <2>2 DEF AllInv
<1> QED BY <1>1, <1>2, PTL DEF Spec

\* The abstract state, once the invariants are known.
WorkBar == Len(todo) >= 3 \/ chip[OpUnit(op)].oip

BarRight ==
    /\ pc # "run" => CtlBar = pc
    /\ pc = "run" => CtlBar = IF WorkBar THEN "busy" ELSE "done"
    /\ CtlBar # "done" => ResBar = "none"
    /\ CtlBar = "done" => ResBar = IF op.kind = "read" THEN chip[OpUnit(op)].cache[OpPlane(op)]
                                   ELSE IF chip[OpUnit(op)].fail THEN "fail" ELSE "OK"

LEMMA BarIs == AllInv => BarRight
<1> SUFFICES ASSUME TypeInv, RunInv
             PROVE  BarRight
  BY DEF AllInv, FlashInv
<1>1. pc # "run" => CtlBar = pc
  BY DEF CtlBar
<1>2. ASSUME pc = "run" PROVE Working <=> WorkBar
  <2> DEFINE L == Len(todo)
  <2>1. op \in PF!Ops /\ L \in Nat /\ op.kind \in {"read", "write", "erase"}
    BY <1>2, RunFrame
  <2>2. /\ FromEnd(op, 2).kind = "wait"
        /\ FromEnd(op, 1).kind \in {"READ", "status"}
        /\ FromEnd(op, 3).kind \in {"PAGE_DATA_READ", "PROGRAM_EXECUTE", "BLOCK_ERASE"}
    <3>1. /\ FromEnd(op, 2) = Short("wait", CsOf(op.a))
          /\ op.kind = "read" =>
               /\ FromEnd(op, 1) = Frame("READ", CsOf(op.a), PlaneBit(op.a), Blank)
               /\ FromEnd(op, 3) = Frame("PAGE_DATA_READ", CsOf(op.a), RowOf(op.a), Blank)
          /\ op.kind = "write" =>
               /\ FromEnd(op, 1) = Short("status", CsOf(op.a))
               /\ FromEnd(op, 3) = Frame("PROGRAM_EXECUTE", CsOf(op.a), RowOf(op.a), Blank)
          /\ op.kind = "erase" =>
               /\ FromEnd(op, 1) = Short("status", CsOf(op.a))
               /\ FromEnd(op, 3) = Frame("BLOCK_ERASE", CsOf(op.a), RowOf(op.a), Blank)
      BY <2>1, OpFrames
    <3> QED BY <2>1, <3>1, ShortIs
  <2>3. \A j \in 1 .. L : todo[j] = FromEnd(op, L - j + 1)
    BY <1>2 DEF RunInv
  <2>4. ASSUME L >= 3
        PROVE \E n \in 1 .. L : todo[n].kind \in {"PAGE_DATA_READ", "PROGRAM_EXECUTE", "BLOCK_ERASE"}
    <3>1. L - 2 \in 1 .. L /\ L - (L - 2) + 1 = 3
      BY <2>1, <2>4
    <3> QED BY <2>2, <2>3, <3>1
  <2>5. ASSUME ~(L >= 3), NEW n \in 1 .. L
        PROVE todo[n].kind \notin {"PAGE_DATA_READ", "PROGRAM_EXECUTE", "BLOCK_ERASE"}
    <3>1. L - n + 1 = 1 \/ L - n + 1 = 2
      BY <2>1, <2>5
    <3> QED BY <2>2, <2>3, <3>1
  <2> QED BY <2>4, <2>5 DEF Working, WorkBar, OpUnit
<1>3. pc = "run" => CtlBar = IF WorkBar THEN "busy" ELSE "done"
  BY <1>2 DEF CtlBar
<1>4. CtlBar # "done" => ResBar = "none"
  BY DEF ResBar
<1>5. ASSUME CtlBar = "done"
      PROVE  ResBar = IF op.kind = "read" THEN chip[OpUnit(op)].cache[OpPlane(op)]
                      ELSE IF chip[OpUnit(op)].fail THEN "fail" ELSE "OK"
  <2>1. pc = "run"
    BY <1>1, <1>5 DEF TypeInv
  <2>2. RowOf(op.a) = op.a % PagesPerDie
    BY <2>1, RunFrame, Pages
  <2> QED BY <1>5, <2>2 DEF ResBar, OpUnit, OpPlane
<1> QED BY <1>1, <1>3, <1>4, <1>5 DEF BarRight

LEMMA BarIsNext == AllInv' => BarRight'
BY BarIs, PTL

LEMMA MemIs ==
    /\ \A a \in 0 .. NumPages - 1 : MemBar[a] = array[Abstract(a)][RowOf(a)]
    /\ \A a \in 0 .. NumPages - 1 : MemBar'[a] = array'[Abstract(a)][RowOf(a)]
    /\ array' = array => MemBar' = MemBar
<1>1. \A a \in 0 .. NumPages - 1 : RowOf(a) = a % PagesPerDie
  BY Pages
<1> QED BY <1>1 DEF MemBar

\* A die that gets new contents in the rows S gives the pages T new contents.
LEMMA MemPut ==
    ASSUME TypeInv, NEW u \in Units, NEW S, NEW T, NEW x \in Contents, Put(u, S, x),
           \A b \in 0 .. NumPages - 1 : (Abstract(b) = u /\ RowOf(b) \in S) <=> b \in T
    PROVE  PF!Put(T, x)
<1>1. /\ \A v \in Units : v # u => array'[v] = array[v]
      /\ \A r \in Rows : array'[u][r] = IF r \in S THEN x ELSE array[u][r]
  BY PutTyped DEF TypeInv
<1>2. ASSUME NEW b \in 0 .. NumPages - 1
      PROVE  array'[Abstract(b)][b % PagesPerDie] = IF b \in T THEN x ELSE MemBar[b]
  <2>1. Abstract(b) \in Units /\ RowOf(b) \in Rows /\ RowOf(b) = b % PagesPerDie
    BY Pages
  <2>2. MemBar[b] = array[Abstract(b)][RowOf(b)]
    BY MemIs
  <2>3. CASE Abstract(b) = u
    BY <1>1, <2>1, <2>2, <2>3
  <2>4. CASE Abstract(b) # u
    BY <1>1, <2>1, <2>2, <2>4
  <2> QED BY <2>3, <2>4
<1>3. MemBar' = [b \in 0 .. NumPages - 1 |-> array'[Abstract(b)][b % PagesPerDie]]
  BY DEF MemBar
<1>4. MemBar' = [b \in 0 .. NumPages - 1 |-> IF b \in T THEN x ELSE MemBar[b]]
  BY <1>2, <1>3
<1> QED BY <1>4 DEF PF!Put, PF!Addrs

\* The rows that the job of an operation changes are those of the pages it touches.
LEMMA JobTouches ==
    ASSUME NEW o \in PF!Ops
    PROVE  /\ \A b \in 0 .. NumPages - 1 :
                 (Abstract(b) = OpUnit(o) /\ RowOf(b) \in JobRows(JobOf(o))) <=> b \in PF!Touched(o)
           /\ o.kind = "read" => JobRows(JobOf(o)) = {}
           /\ o.kind = "write" => JobRows(JobOf(o)) = {RowOf(o.a)} /\ PF!Touched(o) = {o.a}
           /\ o.kind = "erase" => JobRows(JobOf(o)) = Block(RowOf(o.a))
           /\ OpUnit(o) \in Units /\ OpUnit(o) = Abstract(o.a) /\ o.a \in 0 .. NumPages - 1
<1>1. o.kind \in {"read", "write", "erase"} /\ o.a \in 0 .. NumPages - 1
  BY OpTyped
<1>2. OpUnit(o) \in Units /\ OpUnit(o) = Abstract(o.a)
  BY <1>1, Pages DEF OpUnit
<1>3. CASE o.kind = "read"
  <2>1. JobRows(JobOf(o)) = {} /\ PF!Touched(o) = {}
    BY <1>3 DEF JobRows, JobOf, PF!Touched
  <2> QED BY <1>1, <1>2, <1>3, <2>1
<1>4. CASE o.kind = "write"
  <2>1. JobRows(JobOf(o)) = {RowOf(o.a)} /\ PF!Touched(o) = {o.a}
    BY <1>4 DEF JobRows, JobOf, PF!Touched
  <2>2. \A b \in 0 .. NumPages - 1 : (Abstract(b) = Abstract(o.a) /\ RowOf(b) = RowOf(o.a)) <=> b = o.a
    BY <1>1, SamePage
  <2> QED BY <1>1, <1>2, <1>4, <2>1, <2>2
<1>5. CASE o.kind = "erase"
  <2>1. JobRows(JobOf(o)) = Block(RowOf(o.a))
        /\ PF!Touched(o) = {b \in 0 .. NumPages - 1 : b \div PagesPerBlock = o.a \div PagesPerBlock}
    BY <1>5 DEF JobRows, JobOf, PF!Touched, PF!Addrs
  <2>2. \A b \in 0 .. NumPages - 1 : (Abstract(b) = Abstract(o.a) /\ RowOf(b) \in Block(RowOf(o.a)))
                                     <=> b \div PagesPerBlock = o.a \div PagesPerBlock
    BY <1>1, SameBlock
  <2> QED BY <1>1, <1>2, <1>5, <2>1, <2>2
<1> QED BY <1>1, <1>3, <1>4, <1>5

LEMMA AllParts == AllInv => /\ TypeInv /\ BusyInv /\ ProtInv /\ FlashInv /\ RunInv /\ OpenInv /\ JobInv /\ BootInv
                            /\ BarRight /\ pc \in {"boot", "idle", "run"}
BY BarIs DEF AllInv, FlashInv, TypeInv

\* A step that the abstract state does not see.
LEMMA Stutters ==
    ASSUME MemBar' = MemBar, CtlBar' = CtlBar, op' = op, ResBar' = ResBar, ret' = ret
    PROVE  UNCHANGED PF!vars
BY DEF PF!vars

LEMMA StartIsCall ==
    ASSUME AllInv, AllInv', NEW o \in PF!Ops, Start(o)
    PROVE  PF!Call(o)
<1>1. /\ pc = "idle" /\ pc' = "run" /\ op' = o /\ todo' = Frames(o) /\ array' = array /\ ret' = ret
  BY DEF Start, chips
<1>2. CtlBar = "idle" /\ ResBar = "none"
  BY <1>1, AllParts DEF BarRight
<1>3. Len(todo') >= 3
  <2>1. Len(Frames(o)) = BodyLen(o) + (IF Stacked THEN 1 ELSE 0) /\ BodyLen(o) \in {3, 4, 5}
    BY OpFrames DEF BodyLen
  <2> QED BY <1>1, <2>1
<1>4. CtlBar' = "busy" /\ ResBar' = "none"
  BY <1>1, <1>3, BarIsNext DEF BarRight, WorkBar
<1>5. MemBar' = MemBar
  BY <1>1, MemIs
<1> QED BY <1>1, <1>2, <1>4, <1>5 DEF PF!Call

\* What becomes of the pages when a die with the job of an operation is stopped.
LEMMA StoppedPages ==
    ASSUME AllInv, NEW u \in Units, Put(u, JobRows(chip[u].job), Junk)
    PROVE  MemBar' = MemBar \/ PF!Put(PF!Touched(op), Junk)
<1>1. TypeInv /\ JobInv /\ chip[u] \in Chip /\ (chip[u].oip <=> chip[u].job # NoJob)
  BY AllParts DEF TypeInv
<1>2. Junk \in Contents
  BY SpiFacts
<1>3. CASE chip[u].oip /\ op \in PF!Ops /\ u = OpUnit(op) /\ chip[u].job = JobOf(op)
  <2>1. \A b \in 0 .. NumPages - 1 :
           (Abstract(b) = u /\ RowOf(b) \in JobRows(chip[u].job)) <=> b \in PF!Touched(op)
    BY <1>3, JobTouches
  <2> QED BY <1>1, <1>2, <2>1, MemPut
<1>4. CASE JobRows(chip[u].job) = {}
  <2>1. \A b \in 0 .. NumPages - 1 :
           (Abstract(b) = u /\ RowOf(b) \in JobRows(chip[u].job)) <=> b \in {}
    BY <1>4
  <2>2. PF!Put({}, Junk)
    BY <1>1, <1>2, <2>1, MemPut
  <2>3. MemBar' = [a \in 0 .. NumPages - 1 |-> MemBar[a]]
    BY <2>2 DEF PF!Put, PF!Addrs
  <2> QED BY <2>3 DEF MemBar
<1>5. chip[u].job = NoJob \/ chip[u].job.kind = "reset" => JobRows(chip[u].job) = {}
  BY DEF JobRows, NoJob
<1> QED BY <1>1, <1>3, <1>4, <1>5 DEF JobInv

\* A frame of a start.
LEMMA BootFrame ==
    ASSUME AllInv, AllInv', Send, pc = "boot"
    PROVE  PF!Up \/ PF!Settle \/ UNCHANGED PF!vars
<1>0. TypeInv /\ BusyInv /\ BootInv
  BY AllParts
<1>1. /\ todo # <<>> /\ Advance
      /\ frame.kind # "RESET" => array' = array
      /\ frame.kind = "RESET" => Put(unit, JobRows(chip[unit].job), Junk)
  BY <1>0, SendStep
<1>2. frame = todo[1] /\ 1 \in 1 .. Len(todo) /\ Len(todo) \in Nat \ {0}
  BY <1>0, <1>1, TailIs DEF frame, TypeInv
<1>3. frame.kind \in StartKinds
  BY <1>0, <1>2 DEF BootInv
<1>4. ret' = ret
  BY <1>0, <1>3, OtherStep DEF StartKinds
<1>5. CtlBar = "boot" /\ ResBar = "none"
  BY AllParts DEF BarRight
<1>6. CASE Len(todo) = 1
  <2>1. pc' = "idle" /\ op' = PF!NoOp
    BY <1>1, <1>6 DEF Advance, PF!NoOp
  <2>2. CtlBar' = "idle" /\ ResBar' = "none"
    BY <2>1, BarIsNext DEF BarRight
  <2>3. frame.kind # "RESET"
    <3>1. frame.kind \in Jobs => 1 < Len(todo)
      BY <1>0, <1>2 DEF BusyInv, WaitsAfterJob
    <3> QED BY <1>6, <3>1 DEF Jobs
  <2>4. MemBar' = MemBar
    BY <1>1, <2>3, MemIs
  <2> QED BY <1>4, <1>5, <2>1, <2>2, <2>4 DEF PF!Up
<1>7. CASE Len(todo) # 1
  <2>1. pc' = "boot" /\ op' = op
    BY <1>1, <1>7 DEF Advance
  <2>2. CtlBar' = "boot" /\ ResBar' = "none"
    BY <2>1, BarIsNext DEF BarRight
  <2>3. MemBar' = MemBar \/ PF!Put(PF!Touched(op), Junk)
    <3>1. CASE frame.kind # "RESET"
      BY <1>1, <3>1, MemIs
    <3>2. CASE frame.kind = "RESET"
      <4>1. unit \in Units
        BY <1>0, <1>1, UnitIs
      <4> HIDE DEF unit, frame
      <4> QED BY <1>1, <3>2, <4>1, StoppedPages
    <3> QED BY <3>1, <3>2
  <2>4. CASE MemBar' = MemBar
    BY <1>4, <1>5, <2>1, <2>2, <2>4, Stutters
  <2>5. CASE PF!Put(PF!Touched(op), Junk)
    BY <1>4, <1>5, <2>1, <2>2, <2>5 DEF PF!Settle
  <2> QED BY <2>3, <2>4, <2>5
<1> QED BY <1>6, <1>7

\* A frame of an operation: the last one returns its result.
LEMMA OperationFrame ==
    ASSUME AllInv, AllInv', Send, pc = "run"
    PROVE  PF!Return \/ UNCHANGED PF!vars
<1> DEFINE L == Len(todo)
           w == OpUnit(op)
<1>0. TypeInv /\ BusyInv /\ RunInv /\ FlashInv /\ OpenInv
  BY AllParts
<1>1. /\ todo # <<>> /\ Advance
      /\ frame.kind # "RESET" => array' = array
  BY <1>0, SendStep
<1>2. /\ L \in Nat \ {0} /\ L <= BodyLen(op) + 1 /\ BodyLen(op) \in {3, 4, 5}
      /\ op.kind \in {"read", "write", "erase"}
      /\ (op.kind = "read" => BodyLen(op) = 3)
      /\ (op.kind = "write" => BodyLen(op) = 5) /\ (op.kind = "erase" => BodyLen(op) = 4)
      /\ L <= BodyLen(op) => unit = w
      /\ L > BodyLen(op) => frame.kind = "select"
      /\ L = 1 => frame.kind = IF op.kind = "read" THEN "READ" ELSE "status"
      /\ L = 1 /\ op.kind = "read" => Plane(frame.x) = OpPlane(op)
      /\ L = 2 => frame.kind = "wait"
      /\ L = 3 => frame.kind \in {"PAGE_DATA_READ", "PROGRAM_EXECUTE", "BLOCK_ERASE"}
      /\ L = 4 /\ op.kind = "write" => frame.kind = "PROGRAM_LOAD"
      /\ L = BodyLen(op) /\ op.kind # "read" => frame.kind = "WRITE_ENABLE"
  BY <1>0, RunFrame
<1>3. BarRight /\ BarRight'
  BY AllParts, BarIsNext
<1>a. /\ L > BodyLen(op) \/ L = 1 \/ L = 2 \/ L = 3 \/ (L = 4 /\ op.kind = "write")
         \/ (L = BodyLen(op) /\ op.kind # "read")
      /\ L \in Nat \ {0} /\ (L # 1 /\ L # 2 => L >= 3) /\ (L >= 3 => L = 3 \/ L - 1 >= 3)
  <2>1. /\ L \in Nat \ {0} /\ L <= BodyLen(op) + 1 /\ BodyLen(op) \in {3, 4, 5}
        /\ op.kind \in {"read", "write", "erase"}
        /\ (op.kind = "read" => BodyLen(op) = 3)
        /\ (op.kind = "write" => BodyLen(op) = 5) /\ (op.kind = "erase" => BodyLen(op) = 4)
    BY <1>2
  <2> HIDE DEF L
  <2> QED BY <2>1
<1>4. frame.kind # "RESET" /\ (L # 1 => frame.kind \notin {"READ", "status"})
  <2> HIDE DEF L, frame
  <2> QED BY <1>2, <1>a
<1>5. MemBar' = MemBar
  BY <1>1, <1>4, MemIs
<1>6. CASE L = 1
  <2>1. unit = w /\ frame.kind \in {"READ", "status"}
    BY <1>2, <1>6
  <2>2. ~chip[w].oip
    <3>1. ChipReadyForFrame
      BY <1>0, ReadyForFrame
    <3> HIDE DEF unit, frame
    <3> QED BY <1>1, <2>1, <3>1 DEF ChipReadyForFrame
  <2>3. CtlBar = "done"
    BY <1>3, <1>6, <2>2 DEF BarRight, WorkBar
  <2>4. pc' = "idle" /\ op' = PF!NoOp
    BY <1>1, <1>6 DEF Advance, PF!NoOp
  <2>5. CtlBar' = "idle" /\ ResBar' = "none"
    BY <1>3, <2>4 DEF BarRight
  <2>6. ret' = ResBar
    <3>1. CASE op.kind = "read"
      <4>1. frame.cs \notin open /\ frame.kind = "READ"
        BY <1>0, <1>2, <1>6, <3>1 DEF OpenInv
      <4>2. ~chip[unit].oip
        BY <2>1, <2>2
      <4>3. ret' = chip[unit].cache[Plane(frame.x)]
        BY <1>0, <4>1, <4>2, ReadyStep
      <4> QED BY <1>2, <1>3, <1>6, <2>1, <2>3, <3>1, <4>3 DEF BarRight
    <3>2. CASE op.kind # "read"
      <4>1. ret' = IF chip[unit].fail THEN "fail" ELSE "OK"
        BY <1>0, <1>2, <1>6, <3>2, OtherStep
      <4> QED BY <1>3, <2>1, <2>3, <3>2, <4>1 DEF BarRight
    <3> QED BY <3>1, <3>2
  <2> QED BY <1>5, <2>3, <2>4, <2>5, <2>6 DEF PF!Return
<1>7. CASE L # 1
  <2>1. /\ pc' = "run" /\ op' = op /\ Len(todo') = L - 1
        /\ L = 3 => chip'[w].oip
        /\ L = 2 => chip' = chip /\ ~chip[w].oip
    BY <1>0, <1>7, RunStep
  <2>2. ret' = ret
    BY <1>0, <1>4, <1>7, OtherStep
  <2>3. CASE L >= 3
    <3>1. WorkBar /\ WorkBar'
      <4>1. L = 3 \/ L - 1 >= 3
        BY <1>a, <2>3
      <4> QED BY <2>1, <2>3, <4>1 DEF WorkBar
    <3>2. CtlBar = "busy" /\ CtlBar' = "busy" /\ ResBar = "none" /\ ResBar' = "none"
      BY <1>3, <2>1, <3>1 DEF BarRight
    <3> QED BY <1>5, <2>1, <2>2, <3>2, Stutters
  <2>4. CASE L = 2
    <3>1. ~WorkBar /\ ~WorkBar'
      BY <2>1, <2>4 DEF WorkBar
    <3>2. CtlBar = "done" /\ CtlBar' = "done"
      BY <1>3, <2>1, <3>1 DEF BarRight
    <3>3. ResBar' = ResBar
      BY <1>3, <2>1, <2>4, <3>2 DEF BarRight
    <3> QED BY <1>5, <2>1, <2>2, <3>2, <3>3, Stutters
  <2> HIDE DEF L
  <2> QED BY <1>a, <1>7, <2>3, <2>4
<1> QED BY <1>6, <1>7

\* The result that a die holds for operation o.
ResultIn(c, o) ==
    IF o.kind = "read" THEN c.cache[OpPlane(o)] ELSE IF c.fail THEN "fail" ELSE "OK"

\* A die finishes the job of an operation: the operation takes effect.
LEMMA JobTakesEffect ==
    ASSUME TypeInv, NEW u \in Units, Finish(u),
           op \in PF!Ops, u = OpUnit(op), chip[u].job = JobOf(op),
           op.kind = "write" => chip[u].cache[OpPlane(op)] = op.d
    PROVE  \/ op.kind # "read" /\ chip[u].prot /\ array' = array
           \/ PF!Effect(ResultIn(chip'[u], op)) /\ ResultIn(chip'[u], op) \in PF!Results
<1> DEFINE c == chip[u]
           j == c.job
           p == BlockPlane(j.row)
           done(fail) == [c EXCEPT !.oip = FALSE, !.wel = FALSE, !.fail = fail, !.job = NoJob]
           got == [c EXCEPT !.oip = FALSE, !.cache[p] = array[u][j.row], !.job = NoJob]
<1>1. /\ op.kind \in {"read", "write", "erase"} /\ op.a \in 0 .. NumPages - 1
      /\ op.kind = "write" => op.d \in Contents
  BY OpTyped
<1>2. /\ j.row = RowOf(op.a) /\ p = OpPlane(op)
      /\ op.kind = "read" => j.kind = "read"
      /\ op.kind = "write" => j.kind = "program"
      /\ op.kind = "erase" => j.kind = "erase"
  BY <1>1 DEF JobOf, OpPlane
<1>3. chip \in [Units -> Chip] /\ c \in Chip /\ array \in [Units -> [Rows -> Contents]]
  BY DEF TypeInv
<1>4. RowOf(op.a) \in Rows /\ p \in Planes /\ array[u][RowOf(op.a)] \in Contents
  BY <1>1, <1>2, <1>3, Pages, PlaneOk
<1>5. MemBar[op.a] = array[u][RowOf(op.a)]
  BY <1>1, MemIs DEF OpUnit
<1>6. \/ /\ op.kind = "read" /\ chip' = [chip EXCEPT ![u] = got] /\ array' = array
      \/ /\ op.kind = "write"
         /\ Put(u, {j.row}, IF array[u][j.row] = Blank THEN c.cache[p] ELSE Junk)
         /\ chip' = [chip EXCEPT ![u] = done(FALSE)]
      \/ /\ op.kind = "erase" /\ Put(u, Block(j.row), Blank)
         /\ chip' = [chip EXCEPT ![u] = done(FALSE)]
      \/ /\ op.kind # "read" /\ Put(u, JobRows(j), Junk)
         /\ chip' = [chip EXCEPT ![u] = done(TRUE)]
      \/ op.kind # "read" /\ chip[u].prot /\ array' = array
  BY <1>1, <1>2 DEF Finish
<1>7. /\ got.cache[p] = array[u][RowOf(op.a)]
      /\ done(FALSE).fail = FALSE /\ done(TRUE).fail = TRUE
  BY <1>2, <1>3, <1>4 DEF Chip
<1>8. /\ \A b \in 0 .. NumPages - 1 :
           (Abstract(b) = u /\ RowOf(b) \in JobRows(j)) <=> b \in PF!Touched(op)
      /\ op.kind = "write" => JobRows(j) = {j.row} /\ PF!Touched(op) = {op.a}
      /\ op.kind = "erase" => JobRows(j) = Block(j.row)
  BY <1>2, JobTouches
<1>9. Blank \in Contents /\ Junk \in Contents
  BY SpiFacts
<1>10. CASE op.kind = "read" /\ chip' = [chip EXCEPT ![u] = got] /\ array' = array
  <2>1. chip'[u] = got /\ MemBar' = MemBar
    BY <1>3, <1>10, MemIs
  <2>2. ResultIn(chip'[u], op) = MemBar[op.a]
    <3> HIDE DEF got, p
    <3> QED BY <1>2, <1>5, <1>7, <1>10, <2>1 DEF ResultIn
  <2>3. ResultIn(chip'[u], op) \in PF!Results
    BY <1>4, <1>5, <2>2 DEF PF!Results, Contents
  <2> QED BY <1>10, <2>1, <2>2, <2>3 DEF PF!Effect
<1>11. CASE /\ op.kind = "write"
            /\ Put(u, {j.row}, IF array[u][j.row] = Blank THEN c.cache[p] ELSE Junk)
            /\ chip' = [chip EXCEPT ![u] = done(FALSE)]
  <2> DEFINE x == IF array[u][j.row] = Blank THEN c.cache[p] ELSE Junk
  <2>1. x = (IF MemBar[op.a] = Blank THEN op.d ELSE Junk) /\ x \in Contents
    BY <1>1, <1>2, <1>5, <1>9, <1>11
  <2>2. chip'[u] = done(FALSE)
    BY <1>3, <1>11
  <2>3. ResultIn(chip'[u], op) = "OK"
    <3> HIDE DEF done
    <3> QED BY <1>7, <1>11, <2>2 DEF ResultIn
  <2>4. \A b \in 0 .. NumPages - 1 : (Abstract(b) = u /\ RowOf(b) \in {j.row}) <=> b \in {op.a}
    BY <1>8, <1>11
  <2>5. Put(u, {j.row}, x)
    BY <1>11
  <2>6. PF!Put({op.a}, x)
    <3> HIDE DEF x, j, c
    <3> QED BY <2>1, <2>4, <2>5, MemPut
  <2>7. PF!Put({op.a}, IF MemBar[op.a] = Blank THEN op.d ELSE Junk)
    <3> HIDE DEF x
    <3> QED BY <2>1, <2>6
  <2> QED BY <1>11, <2>3, <2>7 DEF PF!Effect, PF!Results
<1>12. CASE /\ op.kind = "erase" /\ Put(u, Block(j.row), Blank)
            /\ chip' = [chip EXCEPT ![u] = done(FALSE)]
  <2>2. chip'[u] = done(FALSE)
    BY <1>3, <1>12
  <2>3. ResultIn(chip'[u], op) = "OK"
    <3> HIDE DEF done
    <3> QED BY <1>7, <1>12, <2>2 DEF ResultIn
  <2>4. Put(u, JobRows(j), Blank)
    BY <1>8, <1>12
  <2>5. PF!Put(PF!Touched(op), Blank)
    <3> HIDE DEF j, c
    <3> QED BY <1>8, <1>9, <2>4, MemPut
  <2> QED BY <1>12, <2>3, <2>5 DEF PF!Effect, PF!Results
<1>13. CASE /\ op.kind # "read" /\ Put(u, JobRows(j), Junk)
            /\ chip' = [chip EXCEPT ![u] = done(TRUE)]
  <2>2. chip'[u] = done(TRUE)
    BY <1>3, <1>13
  <2>3. ResultIn(chip'[u], op) = "fail"
    <3> HIDE DEF done
    <3> QED BY <1>7, <1>13, <2>2 DEF ResultIn
  <2>5. PF!Put(PF!Touched(op), Junk)
    <3> HIDE DEF j, c
    <3> QED BY <1>8, <1>9, <1>13, MemPut
  <2> QED BY <1>1, <1>13, <2>3, <2>5 DEF PF!Effect, PF!Results
<1> HIDE DEF j, c, p, done, got
<1> QED BY <1>6, <1>10, <1>11, <1>12, <1>13

\* No frame of an operation ends the protection of a die, so none is protected
\* while an operation runs.
LEMMA NoneProtected == AllInv /\ pc = "run" => \A u \in Units : ~chip[u].prot
<1> SUFFICES ASSUME AllInv, pc = "run", NEW u \in Units, chip[u].prot PROVE FALSE
  OBVIOUS
<1>1. TypeInv /\ RunInv /\ ProtInv
  BY AllParts
<1>2. PICK n \in 1 .. Len(todo) : todo[n].kind = "UNPROTECT"
  BY <1>1 DEF ProtInv, Reaches, Unprotect
<1>3. op \in PF!Ops /\ Len(todo) \in Nat
  BY <1>1, RunFrame
<1> DEFINE L == Len(todo)
           N == Len(Frames(op))
           k == N - (L - n + 1) + 1
<1>4. L <= N /\ L \in Nat /\ n \in 1 .. L
  BY <1>1, <1>3 DEF RunInv
<1>5. N \in Nat
  BY <1>3, OpFrames DEF BodyLen
<1>6. todo[n] = Frames(op)[k]
  BY <1>1, <1>4 DEF RunInv, FromEnd
<1>7. k \in 1 .. N
  <2> HIDE DEF L, N
  <2> QED BY <1>4, <1>5
<1>8. Frames(op)[k].kind \notin Unprotect
  <2> HIDE DEF k
  <2> QED BY <1>3, <1>7, OpKinds
<1> QED BY <1>2, <1>6, <1>8 DEF Unprotect

\* A die finishes what it does.
LEMMA FinishIsDo ==
    ASSUME AllInv, AllInv', NEW u \in Units, Finish(u)
    PROVE  PF!Do \/ PF!Settle \/ UNCHANGED PF!vars
<1>1. TypeInv /\ BusyInv /\ JobInv /\ pc \in {"boot", "idle", "run"}
  BY AllParts
<1>2. /\ ~chip'[u].oip /\ UNCHANGED <<sel, open, pc, op, todo, ret>> /\ chip[u].oip
  BY <1>1, FinishStep DEF Finish
<1>3. BarRight /\ BarRight'
  BY AllParts, BarIsNext
<1>4. pc # "idle"
  BY <1>1, <1>2, NothingMet DEF BusyInv, TypeInv
<1>5. CASE pc = "run"
  <2>1. /\ op \in PF!Ops /\ u = OpUnit(op) /\ chip[u].job = JobOf(op)
        /\ op.kind = "write" => chip[u].cache[OpPlane(op)] = op.d
        /\ Len(todo) <= 2
    BY <1>1, <1>2, <1>5 DEF JobInv
  <2>2. ~chip[u].prot
    BY <1>5, NoneProtected
  <2>3. PF!Effect(ResultIn(chip'[u], op)) /\ ResultIn(chip'[u], op) \in PF!Results
    BY <1>1, <2>1, <2>2, JobTakesEffect
  <2>4. CtlBar = "busy"
    BY <1>2, <1>3, <1>5, <2>1 DEF BarRight, WorkBar
  <2>5. CtlBar' = "done"
    <3>1. Len(todo) \in Nat
      BY <1>1 DEF TypeInv
    <3>2. ~(Len(todo) >= 3)
      BY <2>1, <3>1
    <3>3. ~WorkBar'
      BY <1>2, <2>1, <3>2 DEF WorkBar
    <3> QED BY <1>2, <1>3, <1>5, <3>3 DEF BarRight
  <2>6. ResBar' = ResultIn(chip'[u], op)
    BY <1>2, <1>3, <2>1, <2>5 DEF BarRight, ResultIn
  <2> HIDE DEF ResultIn
  <2> QED BY <1>2, <2>3, <2>4, <2>5, <2>6 DEF PF!Do
<1>6. CASE pc = "boot"
  <2>1. CtlBar = "boot" /\ CtlBar' = "boot" /\ ResBar = "none" /\ ResBar' = "none"
    BY <1>2, <1>3, <1>6 DEF BarRight
  <2>2. CASE chip[u].job.kind = "reset"
    <3>1. array' = array
      BY <2>2 DEF Finish
    <3> QED BY <1>2, <2>1, <3>1, MemIs, Stutters
  <2>3. CASE chip[u].job.kind # "reset"
    <3>1. /\ op \in PF!Ops /\ u = OpUnit(op) /\ chip[u].job = JobOf(op)
          /\ op.kind = "write" => chip[u].cache[OpPlane(op)] = op.d
      BY <1>1, <1>2, <2>3 DEF JobInv
    <3>2. CASE array' = array
      BY <1>2, <2>1, <3>2, MemIs, Stutters
    <3>3. CASE PF!Effect(ResultIn(chip'[u], op)) /\ ResultIn(chip'[u], op) \in PF!Results
      BY <1>2, <2>1, <3>3 DEF PF!Settle
    <3> QED BY <1>1, <3>1, <3>2, <3>3, JobTakesEffect
  <2> QED BY <2>2, <2>3
<1> QED BY <1>1, <1>4, <1>5, <1>6

LEMMA ResetIsRestart ==
    ASSUME AllInv, AllInv', CpuReset
    PROVE  PF!Restart
<1>1. pc' = "boot" /\ array' = array /\ UNCHANGED <<op, ret>>
  BY DEF CpuReset, chips
<1>2. CtlBar' = "boot" /\ ResBar' = "none"
  BY <1>1, BarIsNext DEF BarRight
<1>3. MemBar' = MemBar
  BY <1>1, MemIs
<1> QED BY <1>1, <1>2, <1>3 DEF PF!Restart

LEMMA PowerIsRestart ==
    ASSUME AllInv, AllInv', PowerFails
    PROVE  PF!Restart
<1>1. /\ pc' = "boot" /\ UNCHANGED <<op, ret>>
      /\ array' = [u \in Units |-> [r \in Rows |->
            IF chip[u].oip /\ r \in JobRows(chip[u].job) THEN Junk ELSE array[u][r]]]
  BY DEF PowerFails
<1>2. CtlBar' = "boot" /\ ResBar' = "none"
  BY <1>1, BarIsNext DEF BarRight
<1> DEFINE w == OpUnit(op)
           mine == op \in PF!Ops /\ chip[w].oip /\ chip[w].job = JobOf(op)
           T == IF mine THEN PF!Touched(op) ELSE {}
<1>3. TypeInv /\ JobInv
  BY AllParts
<1>4. ASSUME NEW b \in 0 .. NumPages - 1
      PROVE  array'[Abstract(b)][b % PagesPerDie] = IF b \in T THEN Junk ELSE MemBar[b]
  <2> DEFINE u == Abstract(b)
             r == RowOf(b)
  <2>1. u \in Units /\ r \in Rows /\ r = b % PagesPerDie /\ MemBar[b] = array[u][r]
    BY Pages, MemIs
  <2>2. chip[u].oip /\ r \in JobRows(chip[u].job) <=> b \in T
    <3>1. CASE mine
      <4>1. (u = w /\ r \in JobRows(JobOf(op))) <=> b \in T
        BY <3>1, JobTouches
      <4>2. ASSUME u # w PROVE ~(chip[u].oip /\ r \in JobRows(chip[u].job))
        <5>1. chip[u].oip => chip[u].job.kind = "reset"
          BY <1>3, <2>1, <4>2 DEF JobInv
        <5> QED BY <5>1 DEF JobRows
      <4> QED BY <3>1, <4>1, <4>2
    <3>2. CASE ~mine
      <4>1. chip[u].oip => chip[u].job.kind = "reset"
        BY <1>3, <2>1, <3>2 DEF JobInv
      <4> QED BY <3>2, <4>1 DEF JobRows
    <3> QED BY <3>1, <3>2
  <2> HIDE DEF u, r, T
  <2>3. array'[u][r] = IF b \in T THEN Junk ELSE array[u][r]
    BY <1>1, <2>1, <2>2
  <2> QED BY <2>1, <2>3 DEF u
<1>5. MemBar' = [b \in 0 .. NumPages - 1 |-> array'[Abstract(b)][b % PagesPerDie]]
  BY DEF MemBar
<1>6. MemBar' = [b \in 0 .. NumPages - 1 |-> IF b \in T THEN Junk ELSE MemBar[b]]
  <2> HIDE DEF T
  <2> QED BY <1>4, <1>5
<1>7. MemBar' = MemBar \/ PF!Put(PF!Touched(op), Junk)
  <2>1. CASE mine
    BY <1>6, <2>1 DEF PF!Put, PF!Addrs
  <2>2. CASE ~mine
    <3>1. MemBar' = [b \in 0 .. NumPages - 1 |-> MemBar[b]]
      BY <1>6, <2>2
    <3> QED BY <3>1 DEF MemBar
  <2> QED BY <2>1, <2>2
<1> QED BY <1>1, <1>2, <1>7 DEF PF!Restart

LEMMA InitIsInit == Init => PF!Init
<1> SUFFICES ASSUME Init PROVE PF!Init
  OBVIOUS
<1>1. AllInv
  BY InitTypeInv, InitBusyInv, InitProtInv, InitFlashInv DEF AllInv
<1>2. /\ pc = "boot" /\ op = PF!NoOp /\ ret = "none"
      /\ array = [u \in Units |-> [r \in Rows |-> Blank]]
  BY DEF Init, PF!NoOp
<1>3. CtlBar = "boot" /\ ResBar = "none"
  BY <1>1, <1>2, AllParts DEF BarRight
<1>4. ASSUME NEW b \in 0 .. NumPages - 1 PROVE array[Abstract(b)][b % PagesPerDie] = Blank
  <2>1. Abstract(b) \in Units /\ b % PagesPerDie \in Rows
    BY Pages
  <2> QED BY <1>2, <2>1
<1>5. MemBar = [b \in 0 .. NumPages - 1 |-> Blank]
  BY <1>4 DEF MemBar
<1> QED BY <1>2, <1>3, <1>5 DEF PF!Init, PF!Addrs

LEMMA StepIsStep == AllInv /\ AllInv' /\ [Next]_vars => [PF!Next]_(PF!vars)
<1> SUFFICES ASSUME AllInv, AllInv', [Next]_vars PROVE PF!Next \/ UNCHANGED PF!vars
  OBVIOUS
<1>1. CASE UNCHANGED vars
  <2>1. array' = array /\ chip' = chip /\ pc' = pc /\ op' = op /\ todo' = todo /\ ret' = ret
    BY <1>1 DEF vars, chips
  <2>2. MemBar' = MemBar /\ CtlBar' = CtlBar /\ ResBar' = ResBar
    <3>1. MemBar' = MemBar
      BY <2>1, MemIs
    <3>2. CtlBar' = CtlBar
      BY <2>1 DEF CtlBar, Working
    <3>3. ResBar' = ResBar
      BY <2>1, <3>2 DEF ResBar
    <3> QED BY <3>1, <3>2, <3>3
  <2> QED BY <2>1, <2>2, Stutters
<1>2. ASSUME NEW o \in PF!Ops, Start(o) PROVE PF!Next
  BY <1>2, StartIsCall DEF PF!Next
<1>3. CASE Send
  <2>1. pc \in {"boot", "run"}
    <3>1. TypeInv /\ todo # <<>>
      BY <1>3, AllParts, SendStep
    <3> QED BY <3>1 DEF TypeInv
  <2>2. pc = "boot" => PF!Up \/ PF!Settle \/ UNCHANGED PF!vars
    BY <1>3, BootFrame
  <2>3. pc = "run" => PF!Return \/ UNCHANGED PF!vars
    BY <1>3, OperationFrame
  <2> QED BY <2>1, <2>2, <2>3 DEF PF!Next
<1>4. ASSUME NEW u \in Units, Finish(u) PROVE PF!Next \/ UNCHANGED PF!vars
  <2>1. PF!Do \/ PF!Settle \/ UNCHANGED PF!vars
    BY <1>4, FinishIsDo
  <2> QED BY <2>1 DEF PF!Next
<1>5. CASE CpuReset
  BY <1>5, ResetIsRestart DEF PF!Next
<1>6. CASE PowerFails
  BY <1>6, PowerIsRestart DEF PF!Next
<1>7. CASE other_maker
  <2>1. pc = "boot" /\ UNCHANGED <<array, pc, op, ret>>
    BY <1>7, OtherMaker
  <2>2. CtlBar = "boot" /\ ResBar = "none"
    BY <2>1, AllParts DEF BarRight
  <2>3. CtlBar' = "boot" /\ ResBar' = "none"
    BY <2>1, BarIsNext DEF BarRight
  <2>4. MemBar' = MemBar
    BY <2>1, MemIs
  <2> QED BY <2>1, <2>2, <2>3, <2>4, Stutters
<1> QED BY <1>1, <1>2, <1>3, <1>4, <1>5, <1>6, <1>7 DEF Next

\* The driver and its chips implement PageFlash, for every geometry, number of chip
\* selects and dies: snaf_page_read, snaf_page_write and nsc_block_erase read or
\* change the pages of their address and no others and give back the contents or
\* the status of the chip, and a reset of the processor or a power failure at any
\* frame leaves all other pages alone.
THEOREM DriverImplementsPageFlash == Spec => ImplementsPageFlash
<1>1. Spec => PF!Init
  BY InitIsInit, PTL DEF Spec
<1>2. Spec => [][PF!Next]_(PF!vars)
  BY FlashInvariant, StepIsStep, PTL DEF Spec
<1> QED BY <1>1, <1>2, PTL DEF ImplementsPageFlash, PF!Spec
=============================================================================
