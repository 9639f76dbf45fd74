--------------------------- MODULE DualImageProofs ---------------------------
(***************************************************************************)
(* Proofs about dual-image boot and the upgrade commands, for every set of *)
(* versions and uploads and any number of upgrades and power failures.     *)
(***************************************************************************)
EXTENDS DualImage, SequenceTheorems, TLAPS

-----------------------------------------------------------------------------
(* The invariants.                                                         *)

\* What the scripts rely on: the environment in RAM and the stored one agree on
\* the image that is active and on the trial and, until Linux commits, on the
\* committed image; versions and checksums differ only where upvmimg removed
\* them in RAM.
NoVers == [s \in Slots |-> {}]
NoCrcs == [s \in Slots |-> <<>>]
EnvInv ==
    /\ env.active = saved.active
    /\ env.try = saved.try
    /\ pc # "linux" => env.commit = saved.commit
    /\ env.ver = saved.ver \/ env.ver = NoVers
    /\ env.crc = saved.crc \/ env.crc = NoCrcs

\* A list of steps in which every erase is followed by the write of the same
\* partition, and every write but the first step follows the erase of its
\* partition.
Steps == [op : {"erase", "write", "ver", "crc", "remove"}, part : Parts, slot : Slots]
Paired(t) ==
    /\ t \in Seq(Steps)
    /\ \A i \in 1 .. Len(t) :
          /\ t[i].op = "erase" =>
                i + 1 \in 1 .. Len(t) /\ t[i + 1] = Step("write", t[i].part, t[i].slot)
          /\ t[i].op = "write" /\ i > 1 => t[i - 1].op = "erase"

\* While a command that began with two whole images and has not failed runs, no
\* partition is incomplete but the one that is to be written next.
NextWrites(p, s) == todo # <<>> /\ todo[1] = Step("write", p, s)
WholeInv ==
    both /\ clean =>
        /\ \E s \in Slots : Whole(s)
        /\ pc = "upgrade" =>
              \A s \in Slots, p \in Parts : flash[s][p] \in Versions \/ NextWrites(p, s)

\* What upimgtar may record as the versions of the two images.
Records == {[s \in Slots |-> t] : t \in Text}

\* What upimgtar has not installed or recorded yet is still among its steps.
Pending(op) == \E i \in 1 .. Len(todo) : todo[i].op = op
TarInv ==
    pc = "upgrade" /\ img.format = "tar" =>
        /\ \A i \in 1 .. Len(todo) : todo[i].op # "remove"
        /\ clean =>
              /\ \A s \in Slots, p \in Parts :
                    \/ flash[s][p] = img.v
                    \/ \E i \in 1 .. Len(todo) : todo[i] = Step("write", p, s)
              /\ Pending("ver") \/ (env.ver \in Records /\ saved.ver = env.ver)
              /\ Pending("crc") \/ (env.crc = [s \in Slots |-> Archive(img)] /\ saved.crc = env.crc)

\* The text of the archive's version is in the buffer, and behind it only what is
\* left of longer ones that were copied there before.
VerInv ==
    /\ fwu_ver \subseteq seen
    /\ pc = "upgrade" /\ img.format = "tar" /\ img.ver =>
          /\ img.v \in fwu_ver
          /\ \A w \in fwu_ver : w = img.v \/ VerLen[w] > VerLen[img.v]

StepsInv ==
    /\ Paired(todo)
    /\ pc = "upgrade" => img \in Uploads

DualInv ==
    /\ TypeOK
    /\ EnvInv
    /\ StepsInv
    /\ WholeInv
    /\ TarInv
    /\ VerInv
    /\ ActiveIsRunning
    /\ TrialIsNotRepeated

-----------------------------------------------------------------------------
(* Types.                                                                  *)

\* Facts about an upload that the provers need separately.
LEMMA UploadFacts ==
    ASSUME NEW u \in Uploads
    PROVE  /\ u.v \in Versions
           /\ u.ver \in BOOLEAN
           /\ Archive(u) \in Crcs
           /\ Archive(u) # <<>>
           /\ u.parts \in SUBSET Parts
           /\ u.big \in SUBSET Parts
<1>1. /\ u.v \in Versions /\ u.ver \in BOOLEAN
      /\ u.parts \in SUBSET Parts /\ u.big \in SUBSET Parts
  BY DualImageAssumption
<1> QED BY <1>1 DEF Archive, Crcs

\* What is recorded for a version that is complete, and what may be recorded of
\* the buffer.
LEMMA RecordTypes ==
    /\ \A v \in Versions : {v} \in Vers /\ Complete(v) \in Crcs
    /\ {} \in Vers /\ <<>> \in Crcs
    /\ fwu_ver \subseteq Versions => \A t \in Text : t \in Vers
<1>1. \A v \in Versions : Complete(v) \in Crcs
  BY DEF Complete, Crcs
<1> QED BY <1>1 DEF Vers, Crcs, Text

LEMMA InitType == Init => TypeOK
<1> SUFFICES ASSUME Init PROVE TypeOK
  OBVIOUS
<1>1. PICK v \in Good, c \in Slots :
        /\ flash = [s \in Slots |-> [p \in Parts |-> v]]
        /\ saved = [active |-> 0, commit |-> c, try |-> 2,
                    ver |-> [s \in Slots |-> {v}], crc |-> [s \in Slots |-> Complete(v)]]
  BY DEF Init
<1>2. v \in Versions /\ {v} \in Vers /\ Complete(v) \in Crcs
  BY DualImageAssumption, RecordTypes
<1>3. saved \in Env
  BY <1>1, <1>2 DEF Env, Slots
<1>4. flash \in [Slots -> [Parts -> Contents]]
  BY <1>1, <1>2 DEF Contents
<1>5. run \in Slots /\ {both, clean} \subseteq BOOLEAN
  BY DEF Init, Slots
<1>6. tar \in [parts : SUBSET Parts, big : SUBSET Parts]
  BY DEF Init, NoTar
<1>7. installs \in 0 .. MaxInstalls /\ crashes \in 0 .. MaxCrashes
  BY DualImageAssumption DEF Init
<1> QED BY <1>3, <1>4, <1>5, <1>6, <1>7 DEF Init, TypeOK

\* Assignments to the variables of an environment.
LEMMA EnvTypes ==
    ASSUME NEW e \in Env, NEW s \in Slots
    PROVE  /\ [e EXCEPT !.try = 2] \in Env
           /\ [e EXCEPT !.try = s] \in Env
           /\ [e EXCEPT !.active = s] \in Env
           /\ [e EXCEPT !.commit = s] \in Env
           /\ \A v \in Vers : [e EXCEPT !.ver[s] = v] \in Env
           /\ \A v \in Crcs : [e EXCEPT !.crc[s] = v] \in Env
<1>1. s \in 0 .. 2 /\ 2 \in 0 .. 2
  BY DEF Slots
<1>2. \A v \in Vers : [e.ver EXCEPT ![s] = v] \in [Slots -> Vers]
  BY DEF Env
<1>3. \A v \in Crcs : [e.crc EXCEPT ![s] = v] \in [Slots -> Crcs]
  BY DEF Env
<1> QED BY <1>1, <1>2, <1>3 DEF Env

\* bootcmd keeps the environments typed.
LEMMA BootcmdType ==
    ASSUME TypeOK, boot_by_commit \/ boot_by_tryactive
    PROVE  env' \in Env /\ saved' \in Env /\ run' \in Slots /\ wdt' \in BOOLEAN
<1>1. CASE boot_by_commit
  BY <1>1 DEF TypeOK, boot_by_commit, Env, Slots
<1>2. CASE boot_by_tryactive
  <2>1. PICK s \in Slots :
          env' = [[env EXCEPT !.try = 2] EXCEPT !.active = s] /\ run' = s
    BY <1>2 DEF boot_by_tryactive, Slots
  <2>2. env \in Env
    BY DEF TypeOK
  <2>3. [env EXCEPT !.try = 2] \in Env
    BY <2>1, <2>2, EnvTypes
  <2>4. env' \in Env
    BY <2>1, <2>3, EnvTypes
  <2>5. saved' = env' /\ wdt' = TRUE
    BY <1>2 DEF boot_by_tryactive
  <2> QED BY <2>1, <2>4, <2>5
<1> QED BY <1>1, <1>2

\* A step of an upgrade keeps what it changes typed.
LEMMA UpgradeType ==
    ASSUME TypeOK, upgrade
    PROVE  /\ flash' \in [Slots -> [Parts -> Contents]]
           /\ saved' \in Env
           /\ env' \in Env
           /\ clean' \in BOOLEAN
<1> DEFINE step == Head(todo)
           big  == IF img.format = "tar" THEN tar.big ELSE img.big
           fits == step.part \notin big /\ <<step.part, step.slot>> \in fl
           Put(c, ok) == /\ flash' = [flash EXCEPT ![step.slot][step.part] = c]
                         /\ todo' = Tail(todo)
                         /\ clean' = (clean /\ ok)
                         /\ UNCHANGED <<saved, env>>
<1>1. ASSUME NEW c \in Contents, NEW ok \in BOOLEAN, Put(c, ok)
      PROVE  /\ flash' \in [Slots -> [Parts -> Contents]]
             /\ saved' \in Env /\ env' \in Env /\ clean' \in BOOLEAN
  BY <1>1 DEF TypeOK
<1>2. CASE step.op = "erase" /\ ~fits /\ clean' = FALSE /\ UNCHANGED <<flash, saved, env>>
  BY <1>2 DEF TypeOK
<1>3. CASE step.op = "erase" /\ fits /\ Put(Blank, TRUE)
  BY <1>1, <1>3 DEF Contents
<1>4. CASE step.op = "write" /\ step.part \in img.parts /\ Put(img.v, TRUE)
  <2>1. img \in Uploads
    BY <1>4 DEF TypeOK, NoImg
  <2> QED BY <1>1, <1>4, <2>1, UploadFacts DEF Contents
<1>5. CASE Put(Part, FALSE)
  BY <1>1, <1>5 DEF Contents
<1>6. CASE Put(Blank, FALSE)
  BY <1>1, <1>6 DEF Contents
<1>7. CASE store(step) /\ UNCHANGED clean
  <2>1. Archive(img) \in Crcs
    BY UploadFacts DEF TypeOK, upgrade
  <2>2. \A t \in Text : t \in Vers
    BY RecordTypes DEF TypeOK
  <2>3. env \in Env
    BY DEF TypeOK
  <2>4. env' \in Env
    <3>1. CASE \E t \in Text : env' = [env EXCEPT !.ver = [s \in Slots |-> t]]
      BY <2>2, <2>3, <3>1 DEF Env
    <3>2. CASE env' = [env EXCEPT !.crc = [s \in Slots |-> Archive(img)]]
      BY <2>1, <2>3, <3>2 DEF Env
    <3> QED BY <1>7, <3>1, <3>2 DEF store
  <2> QED BY <1>7, <2>4 DEF store, TypeOK
<1>8. CASE env' = [env EXCEPT !.ver = NoVers, !.crc = NoCrcs] /\ UNCHANGED <<flash, saved, clean>>
  BY <1>8, RecordTypes DEF TypeOK, Env, NoVers, NoCrcs
<1> QED BY <1>2, <1>3, <1>4, <1>5, <1>6, <1>7, <1>8 DEF upgrade, NoVers, NoCrcs

LEMMA StepType == TypeOK /\ [Next]_vars => TypeOK'
<1> SUFFICES ASSUME TypeOK, [Next]_vars PROVE TypeOK'
  OBVIOUS
<1>1. CASE bootcmd
  BY <1>1, BootcmdType DEF bootcmd, TypeOK, history, globals
<1>2. CASE bootm
  BY <1>2 DEF bootm, TypeOK, history, globals
<1>3. ASSUME NEW u \in Uploads, StartUpgrade(u) PROVE TypeOK'
  <2>1. tar' \in [parts : SUBSET Parts, big : SUBSET Parts]
    BY <1>3, UploadFacts DEF StartUpgrade, scan_img_tar, TypeOK, globals
  <2>4. fwu_ver' \subseteq Versions /\ seen' \subseteq Versions
    BY <1>3, UploadFacts DEF StartUpgrade, scan_img_tar, TypeOK, globals, strncpy
  <2>2. installs' \in 0 .. MaxInstalls
    BY <1>3, DualImageAssumption DEF StartUpgrade, TypeOK
  <2>3. both' \in BOOLEAN
    BY <1>3 DEF StartUpgrade
  <2> QED BY <1>3, <2>1, <2>2, <2>3, <2>4 DEF StartUpgrade, TypeOK
<1>4. CASE upgrade
  BY <1>4, UpgradeType DEF upgrade, TypeOK, globals
<1>5. CASE EndUpgrade
  BY <1>5 DEF EndUpgrade, Done, TypeOK, history, globals
<1>6. CASE Reset /\ crashes' \in 0 .. MaxCrashes
  BY <1>6 DEF Reset, Restart, TypeOK, history, NoTar
<1>7. CASE PowerFails
  BY <1>6, <1>7, DualImageAssumption DEF PowerFails, TypeOK
<1>8. CASE Watchdog \/ OperatorResets
  BY <1>6, <1>8 DEF Watchdog, OperatorResets, TypeOK
<1>9. ASSUME NEW v \in Versions, LinuxInstall(v) PROVE TypeOK'
  <2>1. 1 - run \in Slots
    BY DEF TypeOK, Slots
  <2>2. saved' \in Env
    <3>1. saved' = [[[saved EXCEPT !.try = 1 - run] EXCEPT !.ver[1 - run] = {v}]
                        EXCEPT !.crc[1 - run] = Complete(v)]
      BY <1>9 DEF LinuxInstall
    <3>2. {v} \in Vers /\ Complete(v) \in Crcs
      BY RecordTypes
    <3>3. [saved EXCEPT !.try = 1 - run] \in Env
      BY <2>1, EnvTypes DEF TypeOK
    <3>4. [[saved EXCEPT !.try = 1 - run] EXCEPT !.ver[1 - run] = {v}] \in Env
      BY <2>1, <3>2, <3>3, EnvTypes
    <3> QED BY <2>1, <3>1, <3>2, <3>4, EnvTypes
  <2>3. flash' \in [Slots -> [Parts -> Contents]]
    BY <1>9, <2>1 DEF LinuxInstall, TypeOK, Contents
  <2>4. installs' \in 0 .. MaxInstalls
    BY <1>9, DualImageAssumption DEF LinuxInstall, TypeOK
  <2> QED BY <1>9, <2>2, <2>3, <2>4 DEF LinuxInstall, Restart, TypeOK, history, NoTar
<1>10. CASE LinuxCommit
  <2>1. saved' \in Env
    BY <1>10 DEF LinuxCommit, TypeOK, Env
  <2> QED BY <1>10, <2>1 DEF LinuxCommit, TypeOK, history, globals
<1>11. CASE UNCHANGED vars
  BY <1>11 DEF vars, TypeOK, history, globals
<1> QED BY <1>1, <1>2, <1>3, <1>4, <1>5, <1>7, <1>8, <1>9, <1>10, <1>11 DEF Next

\* The variables of the boot scripts and the upgrade commands keep their types.
THEOREM DualTypeCorrect == Spec => []TypeOK
BY InitType, StepType, PTL DEF Spec

-----------------------------------------------------------------------------
(* The environment.                                                        *)

LEMMA InitEnv == Init => EnvInv /\ ActiveIsRunning /\ TrialIsNotRepeated
BY DEF Init, EnvInv, ActiveIsRunning, TrialIsNotRepeated

\* Both ways of booting leave the environments in agreement, sw_active with the
\* image that is booted, and a trial noted.
LEMMA BootcmdEnv ==
    ASSUME TypeOK, EnvInv, bootcmd
    PROVE  /\ EnvInv'
           /\ saved'.active = run'
           /\ run' # saved'.commit => saved'.try = 2 /\ wdt'
<1>1. env \in Env /\ saved \in Env /\ env.commit = saved.commit /\ pc' = "bootm"
  BY DEF TypeOK, EnvInv, bootcmd
<1>2. CASE boot_by_commit
  <2>1. PICK s \in Slots : s = env.commit /\ env' = [env EXCEPT !.active = s]
                           /\ saved' = (IF env.active # s THEN env' ELSE saved) /\ run' = s
    BY <1>1, <1>2 DEF boot_by_commit, Slots, Env
  <2>2. /\ env'.active = s /\ env'.try = env.try /\ env'.commit = env.commit
        /\ env'.ver = env.ver /\ env'.crc = env.crc
    BY <1>1, <2>1 DEF Env
  <2> QED BY <1>1, <2>1, <2>2 DEF EnvInv
<1>3. CASE boot_by_tryactive
  <2>1. PICK s \in Slots : env' = [env EXCEPT !.try = 2, !.active = s] /\ run' = s
    BY <1>3 DEF boot_by_tryactive, Slots
  <2>2. env'.active = s /\ env'.try = 2
    BY <1>1, <2>1 DEF Env
  <2>3. saved' = env' /\ wdt' = TRUE
    BY <1>3 DEF boot_by_tryactive
  <2> QED BY <2>1, <2>2, <2>3 DEF EnvInv
<1> QED BY <1>2, <1>3 DEF bootcmd

\* The steps of an upgrade change versions and checksums only.
LEMMA UpgradeEnv ==
    ASSUME TypeOK, EnvInv, upgrade
    PROVE  EnvInv'
<1> DEFINE step == Head(todo)
<1>1. env \in Env /\ saved \in Env /\ pc = "upgrade" /\ pc' = "upgrade"
  BY DEF TypeOK, upgrade
<1>2. CASE UNCHANGED <<saved, env>>
  BY <1>1, <1>2 DEF EnvInv
<1>3. CASE store(step)
  <2>1. /\ env'.active = env.active /\ env'.try = env.try /\ env'.commit = env.commit
    BY <1>1, <1>3 DEF store, Env
  <2>2. CASE saved' = env'
    BY <2>2 DEF EnvInv
  <2>3. CASE env' = env /\ saved' = saved
    BY <1>1, <2>3 DEF EnvInv
  <2> QED BY <1>3, <2>2, <2>3 DEF store
<1>4. CASE env' = [env EXCEPT !.ver = NoVers, !.crc = NoCrcs] /\ UNCHANGED saved
  <2>1. /\ env'.active = env.active /\ env'.try = env.try /\ env'.commit = env.commit
        /\ env'.ver = NoVers /\ env'.crc = NoCrcs
    BY <1>1, <1>4 DEF Env
  <2> QED BY <1>1, <1>4, <2>1 DEF EnvInv
<1> QED BY <1>2, <1>3, <1>4 DEF upgrade, NoVers, NoCrcs

LEMMA StepEnv ==
    TypeOK /\ EnvInv /\ ActiveIsRunning /\ TrialIsNotRepeated /\ [Next]_vars
        => EnvInv' /\ ActiveIsRunning' /\ TrialIsNotRepeated'
<1> SUFFICES ASSUME TypeOK, EnvInv, ActiveIsRunning, TrialIsNotRepeated, [Next]_vars
             PROVE  EnvInv' /\ ActiveIsRunning' /\ TrialIsNotRepeated'
  OBVIOUS
<1> USE DEF ActiveIsRunning, TrialIsNotRepeated
<1>1. CASE bootcmd
  BY <1>1, BootcmdEnv
<1>2. CASE bootm
  BY <1>2 DEF bootm, EnvInv
<1>3. ASSUME NEW u \in Uploads, StartUpgrade(u)
      PROVE  EnvInv' /\ ActiveIsRunning' /\ TrialIsNotRepeated'
  BY <1>3 DEF StartUpgrade, EnvInv
<1>4. CASE upgrade
  <2>1. pc' = "upgrade"
    BY <1>4 DEF upgrade
  <2> QED BY <1>4, <2>1, UpgradeEnv
<1>5. CASE EndUpgrade
  BY <1>5 DEF EndUpgrade, Done, EnvInv
<1>6. CASE PowerFails \/ Watchdog \/ OperatorResets
  BY <1>6 DEF PowerFails, Watchdog, OperatorResets, Reset, Restart, EnvInv
<1>7. ASSUME NEW v \in Versions, LinuxInstall(v)
      PROVE  EnvInv' /\ ActiveIsRunning' /\ TrialIsNotRepeated'
  <2>1. env' = saved' /\ pc' = "uboot"
    BY <1>7 DEF LinuxInstall, Restart
  <2> QED BY <2>1 DEF EnvInv
<1>8. CASE LinuxCommit
  <2>1. saved \in Env /\ pc' = "linux" /\ env' = env /\ run' = run
        /\ saved' = [saved EXCEPT !.commit = run]
    BY <1>8 DEF TypeOK, LinuxCommit
  <2>2. /\ saved'.active = saved.active /\ saved'.try = saved.try /\ saved'.commit = run
        /\ saved'.ver = saved.ver /\ saved'.crc = saved.crc
    BY <2>1 DEF Env
  <2> QED BY <1>8, <2>1, <2>2 DEF LinuxCommit, EnvInv
<1>9. CASE UNCHANGED vars
  BY <1>9 DEF vars, EnvInv
<1> QED BY <1>1, <1>2, <1>3, <1>4, <1>5, <1>6, <1>7, <1>8, <1>9 DEF Next

\* The stored sw_active names the image that is started or runs, after any
\* sequence of trials, upgrades, watchdog resets and power failures.
THEOREM ActiveAlwaysRunning == Spec => []ActiveIsRunning
BY InitType, StepType, InitEnv, StepEnv, PTL DEF Spec

\* While an image that is not the committed one is started or runs, the stored
\* environment asks for the committed one and the watchdog is on.
THEOREM TrialNeverRepeated == Spec => []TrialIsNotRepeated
BY InitType, StepType, InitEnv, StepEnv, PTL DEF Spec

-----------------------------------------------------------------------------
(* The steps of a command.                                                 *)

\* A list of steps that can follow any other.
Fresh(t) == Paired(t) /\ (t # <<>> => t[1].op # "write")

LEMMA ReplaceFresh ==
    ASSUME NEW p \in Parts
    PROVE  Fresh(Replace(p))
<1> DEFINE t == Replace(p)
<1>1. /\ t = <<Step("erase", p, 0), Step("write", p, 0), Step("erase", p, 1), Step("write", p, 1)>>
      /\ Len(t) = 4
  BY DEF Replace
<1>2. \A op \in {"erase", "write"}, s \in Slots :
        /\ Step(op, p, s) \in Steps /\ Step(op, p, s).op = op
        /\ Step(op, p, s).part = p /\ Step(op, p, s).slot = s
  BY DEF Step, Steps
<1>3. t \in Seq(Steps)
  BY <1>1, <1>2 DEF Slots
<1>4. /\ t[1] = Step("erase", p, 0) /\ t[2] = Step("write", p, 0)
      /\ t[3] = Step("erase", p, 1) /\ t[4] = Step("write", p, 1)
  BY <1>1
<1>5. 0 \in Slots /\ 1 \in Slots /\ t # <<>>
  BY <1>1 DEF Slots
<1> HIDE DEF t
<1>6. ASSUME NEW i \in 1 .. Len(t)
      PROVE  /\ t[i].op = "erase" =>
                  i + 1 \in 1 .. Len(t) /\ t[i + 1] = Step("write", t[i].part, t[i].slot)
             /\ t[i].op = "write" /\ i > 1 => t[i - 1].op = "erase"
  <2>1. i = 1 \/ i = 2 \/ i = 3 \/ i = 4
    BY <1>1
  <2> QED BY <1>1, <1>2, <1>4, <1>5, <2>1
<1> QED BY <1>2, <1>3, <1>4, <1>5, <1>6 DEF Fresh, Paired, t

LEMMA ConcatFresh ==
    ASSUME NEW a, NEW b, Fresh(a), Fresh(b)
    PROVE  Fresh(a \o b)
<1> DEFINE c == a \o b
<1>1. a \in Seq(Steps) /\ b \in Seq(Steps)
  BY DEF Fresh, Paired
<1>2. /\ c \in Seq(Steps) /\ Len(c) = Len(a) + Len(b) /\ Len(a) \in Nat /\ Len(b) \in Nat
      /\ \A i \in 1 .. Len(a) : c[i] = a[i]
      /\ \A i \in 1 .. Len(b) : c[Len(a) + i] = b[i]
  <2>1. Len(a) \in Nat /\ Len(b) \in Nat
    BY <1>1
  <2>2. /\ c \in Seq(Steps) /\ Len(c) = Len(a) + Len(b)
        /\ \A i \in 1 .. Len(a) + Len(b) : c[i] = IF i <= Len(a) THEN a[i] ELSE b[i - Len(a)]
    BY <1>1, ConcatProperties
  <2>3. ASSUME NEW i \in 1 .. Len(b)
        PROVE  c[Len(a) + i] = b[i]
    <3>1. /\ Len(a) + i \in 1 .. Len(a) + Len(b)
          /\ ~(Len(a) + i <= Len(a)) /\ (Len(a) + i) - Len(a) = i
      BY <2>1
    <3> QED BY <2>2, <3>1
  <2> QED BY <2>1, <2>2, <2>3
<1> HIDE DEF c
<1>3. ASSUME NEW i \in 1 .. Len(c)
      PROVE  /\ c[i].op = "erase" =>
                  i + 1 \in 1 .. Len(c) /\ c[i + 1] = Step("write", c[i].part, c[i].slot)
             /\ c[i].op = "write" /\ i > 1 => c[i - 1].op = "erase"
  <2>1. CASE i <= Len(a)
    <3>1. i \in 1 .. Len(a) /\ c[i] = a[i]
      BY <1>2, <2>1
    <3>2. a[i].op = "erase" => i + 1 \in 1 .. Len(a) /\ c[i + 1] = a[i + 1]
      BY <1>2, <3>1 DEF Fresh, Paired
    <3>3. i > 1 => i - 1 \in 1 .. Len(a) /\ c[i - 1] = a[i - 1]
      <4>1. i > 1 => i - 1 \in 1 .. Len(a)
        BY <1>2, <3>1
      <4> QED BY <1>2, <4>1
    <3> QED BY <1>2, <3>1, <3>2, <3>3 DEF Fresh, Paired
  <2>2. CASE i > Len(a)
    <3> DEFINE j == i - Len(a)
    <3>1. j \in 1 .. Len(b) /\ i = Len(a) + j /\ c[i] = b[j]
      <4>1. j \in 1 .. Len(b) /\ i = Len(a) + j
        BY <1>2, <2>2
      <4> HIDE DEF j
      <4> QED BY <1>2, <4>1
    <3> HIDE DEF j
    <3>2. b[j].op = "erase" => j + 1 \in 1 .. Len(b) /\ i + 1 = Len(a) + (j + 1)
      <4>1. b[j].op = "erase" => j + 1 \in 1 .. Len(b)
        BY <3>1 DEF Fresh, Paired
      <4>2. i + 1 = Len(a) + (j + 1)
        BY <1>2, <3>1
      <4> QED BY <4>1, <4>2
    <3>3. b[j].op = "erase" => c[i + 1] = b[j + 1]
      BY <1>2, <3>2
    <3>4. j > 1 => j - 1 \in 1 .. Len(b) /\ i - 1 = Len(a) + (j - 1)
      BY <1>2, <3>1
    <3>5. j > 1 => c[i - 1] = b[j - 1]
      BY <1>2, <3>4
    <3>6. b[1].op # "write"
      BY <1>2, <3>1 DEF Fresh
    <3>7. b[j].op = "write" => j > 1
      BY <1>2, <3>1, <3>6
    <3>8. c[i].op = "erase" =>
              i + 1 \in 1 .. Len(c) /\ c[i + 1] = Step("write", c[i].part, c[i].slot)
      BY <1>2, <3>1, <3>2, <3>3 DEF Fresh, Paired
    <3>9. c[i].op = "write" /\ i > 1 => c[i - 1].op = "erase"
      BY <3>1, <3>5, <3>7 DEF Fresh, Paired
    <3> QED BY <3>8, <3>9
  <2> QED BY <1>2, <2>1, <2>2
<1>4. c # <<>> => c[1].op # "write"
  <2> SUFFICES ASSUME c # <<>> PROVE c[1].op # "write"
    OBVIOUS
  <2>1. CASE Len(a) > 0
    BY <1>1, <1>2, <2>1 DEF Fresh
  <2>2. CASE Len(a) = 0
    <3>1. Len(b) > 0 /\ c[Len(a) + 1] = b[1] /\ Len(a) + 1 = 1
      BY <1>1, <1>2, <2>2
    <3> QED BY <1>1, <3>1 DEF Fresh
  <2> QED BY <1>2, <2>1, <2>2
<1> QED BY <1>2, <1>3, <1>4 DEF Fresh, Paired, c

\* The last steps of either command.
LEMMA RecordFresh ==
    /\ Fresh(<<>>)
    /\ Fresh(<<Step("remove", "k", 0)>>)
    /\ Fresh(<<Step("ver", "k", 0), Step("crc", "k", 0)>>)
<1>1. \A op \in {"ver", "crc", "remove"} : Step(op, "k", 0) \in Steps /\ Step(op, "k", 0).op = op
  BY DEF Step, Steps, Parts, Slots
<1>2. Fresh(<<>>)
  BY DEF Fresh, Paired
<1>3. Fresh(<<Step("remove", "k", 0)>>)
  BY <1>1 DEF Fresh, Paired
<1>4. Fresh(<<Step("ver", "k", 0), Step("crc", "k", 0)>>)
  BY <1>1 DEF Fresh, Paired
<1> QED BY <1>2, <1>3, <1>4

LEMMA ProgramFresh ==
    ASSUME NEW u
    PROVE  Fresh(Program(u))
<1>1. "k" \in Parts /\ "r" \in Parts
  BY DEF Parts
<1>2. CASE u.format = "tar"
  <2>1. Fresh(Replace("k") \o Replace("r"))
    BY <1>1, ReplaceFresh, ConcatFresh
  <2> QED BY <1>2, <2>1, RecordFresh, ConcatFresh DEF Program
<1>3. CASE u.format # "tar"
  <2> DEFINE a == IF "k" \in u.parts THEN Replace("k") ELSE <<>>
             b == IF "r" \in u.parts THEN Replace("r") ELSE <<>>
  <2>1. Fresh(a) /\ Fresh(b)
    BY <1>1, ReplaceFresh, RecordFresh
  <2>2. Program(u) = (a \o b) \o <<Step("remove", "k", 0)>>
    BY <1>3 DEF Program
  <2> HIDE DEF a, b
  <2>3. Fresh(a \o b)
    BY <2>1, ConcatFresh
  <2> QED BY <2>2, <2>3, RecordFresh, ConcatFresh
<1> QED BY <1>2, <1>3

\* What is left after a step.
LEMMA TailPaired ==
    ASSUME NEW t, Paired(t), t # <<>>
    PROVE  /\ Paired(Tail(t))
           /\ Head(t) = t[1] /\ t[1] \in Steps
           /\ Len(t) \in Nat \ {0} /\ Len(Tail(t)) = Len(t) - 1
           /\ \A i \in 1 .. Len(Tail(t)) : i + 1 \in 1 .. Len(t) /\ Tail(t)[i] = t[i + 1]
           /\ \A i \in 1 .. Len(t) : i = 1 \/ (i - 1 \in 1 .. Len(Tail(t)) /\ Tail(t)[i - 1] = t[i])
<1> DEFINE r == Tail(t)
<1>1. /\ t \in Seq(Steps) /\ r \in Seq(Steps)
      /\ Head(t) = t[1] /\ t[1] \in Steps /\ Len(t) \in Nat \ {0} /\ Len(r) = Len(t) - 1
      /\ \A i \in 1 .. Len(r) : r[i] = t[i + 1]
  BY DEF Paired
<1> HIDE DEF r
<1>2. \A i \in 1 .. Len(r) : i + 1 \in 1 .. Len(t)
  BY <1>1
<1>3. \A i \in 1 .. Len(t) : i = 1 \/ (i - 1 \in 1 .. Len(r) /\ r[i - 1] = t[i])
  <2> TAKE i \in 1 .. Len(t)
  <2>1. i = 1 \/ i - 1 \in 1 .. Len(r)
    BY <1>1
  <2>2. i - 1 \in 1 .. Len(r) => r[i - 1] = t[(i - 1) + 1]
    BY <1>1
  <2> QED BY <2>1, <2>2
<1>4. ASSUME NEW i \in 1 .. Len(r)
      PROVE  /\ r[i].op = "erase" =>
                  i + 1 \in 1 .. Len(r) /\ r[i + 1] = Step("write", r[i].part, r[i].slot)
             /\ r[i].op = "write" /\ i > 1 => r[i - 1].op = "erase"
  <2>1. i + 1 \in 1 .. Len(t) /\ r[i] = t[i + 1]
    BY <1>1, <1>2
  <2>2. r[i].op = "erase" => (i + 1) + 1 \in 1 .. Len(t)
                             /\ t[(i + 1) + 1] = Step("write", r[i].part, r[i].slot)
    BY <2>1 DEF Paired
  <2>3. r[i].op = "erase" => i + 1 \in 1 .. Len(r)
    BY <1>1, <2>2
  <2>4. i > 1 => i - 1 \in 1 .. Len(r) /\ r[i - 1] = t[(i + 1) - 1]
    BY <1>1, <1>3
  <2>5. r[i].op = "write" => t[(i + 1) - 1].op = "erase"
    BY <2>1 DEF Paired
  <2> QED BY <1>1, <2>2, <2>3, <2>4, <2>5
<1> QED BY <1>1, <1>2, <1>3, <1>4 DEF Paired, r

\* upimgtar writes both parts of both images, records version and checksum, and
\* removes nothing.
LEMMA TarProgram ==
    ASSUME NEW u, u.format = "tar"
    PROVE  LET t == Program(u) IN
           /\ \A i \in 1 .. Len(t) : t[i].op # "remove"
           /\ \A s \in Slots, p \in Parts : \E i \in 1 .. Len(t) : t[i] = Step("write", p, s)
           /\ \E i \in 1 .. Len(t) : t[i].op = "ver"
           /\ \E i \in 1 .. Len(t) : t[i].op = "crc"
<1> DEFINE a == Replace("k")
           b == Replace("r")
           c == <<Step("ver", "k", 0), Step("crc", "k", 0)>>
           ab == a \o b
           t == Program(u)
<1>1. a \in Seq(Steps) /\ b \in Seq(Steps) /\ c \in Seq(Steps)
  BY ReplaceFresh, RecordFresh DEF Fresh, Paired, Parts
<1>2. /\ Len(a) = 4 /\ a[1].op = "erase" /\ a[3].op = "erase"
      /\ a[2] = Step("write", "k", 0) /\ a[4] = Step("write", "k", 1)
  BY DEF Replace, Step
<1>3. /\ Len(b) = 4 /\ b[1].op = "erase" /\ b[3].op = "erase"
      /\ b[2] = Step("write", "r", 0) /\ b[4] = Step("write", "r", 1)
  BY DEF Replace, Step
<1>4. Len(c) = 2 /\ c[1].op = "ver" /\ c[2].op = "crc"
  BY DEF Step
<1>5. t = ab \o c
  BY DEF Program
<1> HIDE DEF a, b, c, t
<1>6. /\ ab \in Seq(Steps) /\ Len(ab) = 8
      /\ \A i \in 1 .. 8 : ab[i] = IF i <= 4 THEN a[i] ELSE b[i - 4]
  <2>1. /\ ab \in Seq(Steps) /\ Len(ab) = Len(a) + Len(b)
        /\ \A i \in 1 .. Len(a) + Len(b) : ab[i] = IF i <= Len(a) THEN a[i] ELSE b[i - Len(a)]
    BY <1>1, ConcatProperties
  <2> HIDE DEF ab
  <2> QED BY <1>2, <1>3, <2>1
<1> HIDE DEF ab
<1>7. Len(t) = 10 /\ \A i \in 1 .. 10 : t[i] = IF i <= 8 THEN ab[i] ELSE c[i - 8]
  <2>1. /\ Len(t) = Len(ab) + Len(c)
        /\ \A i \in 1 .. Len(ab) + Len(c) : t[i] = IF i <= Len(ab) THEN ab[i] ELSE c[i - Len(ab)]
    BY <1>1, <1>5, <1>6, ConcatProperties
  <2> QED BY <1>4, <1>6, <2>1
<1>8. \A i \in 1 .. 4 : t[i] = a[i] /\ t[i + 4] = b[i]
  <2> TAKE i \in 1 .. 4
  <2>1. i \in 1 .. 8 /\ i <= 4 /\ i + 4 \in 1 .. 8 /\ ~(i + 4 <= 4) /\ (i + 4) - 4 = i
    OBVIOUS
  <2>2. ab[i] = a[i] /\ ab[i + 4] = b[i]
    BY <1>6, <2>1
  <2>3. i \in 1 .. 10 /\ i <= 8 /\ i + 4 \in 1 .. 10 /\ i + 4 <= 8
    OBVIOUS
  <2> QED BY <1>7, <2>2, <2>3
<1>9. /\ t[1] = a[1] /\ t[2] = a[2] /\ t[3] = a[3] /\ t[4] = a[4]
      /\ t[5] = b[1] /\ t[6] = b[2] /\ t[7] = b[3] /\ t[8] = b[4]
      /\ t[9] = c[1] /\ t[10] = c[2]
  BY <1>7, <1>8
<1>10. Step("write", "k", 0).op = "write" /\ Step("write", "k", 1).op = "write"
       /\ Step("write", "r", 0).op = "write" /\ Step("write", "r", 1).op = "write"
  BY DEF Step
<1>11. \A i \in 1 .. Len(t) : t[i].op # "remove"
  <2> TAKE i \in 1 .. Len(t)
  <2>1. i = 1 \/ i = 2 \/ i = 3 \/ i = 4 \/ i = 5 \/ i = 6 \/ i = 7 \/ i = 8 \/ i = 9 \/ i = 10
    BY <1>7
  <2> QED BY <1>2, <1>3, <1>4, <1>9, <1>10, <2>1
<1>12. ASSUME NEW s \in Slots, NEW p \in Parts
       PROVE  \E i \in 1 .. Len(t) : t[i] = Step("write", p, s)
  <2>1. (s = 0 \/ s = 1) /\ (p = "k" \/ p = "r")
    BY DEF Slots, Parts
  <2>2. 2 \in 1 .. Len(t) /\ 4 \in 1 .. Len(t) /\ 6 \in 1 .. Len(t) /\ 8 \in 1 .. Len(t)
    BY <1>7
  <2> QED BY <1>2, <1>3, <1>9, <2>1, <2>2
<1>13. 9 \in 1 .. Len(t) /\ 10 \in 1 .. Len(t) /\ t[9].op = "ver" /\ t[10].op = "crc"
  BY <1>4, <1>7, <1>9
<1> QED BY <1>11, <1>12, <1>13 DEF t

\* What one step of a command does: it is not clean any more, or the step is an
\* erase, a write or a record that took effect.
LEMMA UpgradeStep ==
    ASSUME TypeOK, StepsInv, upgrade
    PROVE  /\ todo[1] \in Steps /\ img \in Uploads /\ todo # <<>>
           /\ pc = "upgrade" /\ pc' = pc /\ img' = img /\ both' = both
           /\ fwu_ver' = fwu_ver /\ seen' = seen
           /\ Paired(todo')
           /\ \/ /\ clean' = FALSE
                 /\ img.format = "tar" => todo' = Tail(todo) \/ todo' = <<>>
              \/ /\ todo' = Tail(todo) /\ clean' = clean
                 /\ \/ /\ todo[1].op = "erase" /\ saved' = saved /\ env' = env
                       /\ flash' = [flash EXCEPT ![todo[1].slot][todo[1].part] = Blank]
                    \/ /\ todo[1].op = "write" /\ saved' = saved /\ env' = env
                       /\ flash' = [flash EXCEPT ![todo[1].slot][todo[1].part] = img.v]
                    \/ todo[1].op \in {"ver", "crc"} /\ store(todo[1])
                    \/ todo[1].op = "remove" /\ flash' = flash /\ saved' = saved
<1>1. /\ Head(todo) = todo[1] /\ todo[1] \in Steps /\ Paired(Tail(todo)) /\ todo # <<>>
      /\ pc = "upgrade" /\ img \in Uploads
  BY TailPaired DEF upgrade, StepsInv
<1>2. Paired(<<>>) /\ Paired(<<Step("remove", "k", 0)>>)
  BY RecordFresh DEF Fresh
<1>3. clean \in BOOLEAN
  BY DEF TypeOK
<1> DEFINE st  == todo[1]
           big == IF img.format = "tar" THEN tar.big ELSE img.big
           Put(c, ok) == /\ flash' = [flash EXCEPT ![st.slot][st.part] = c]
                         /\ todo' = Tail(todo)
                         /\ clean' = (clean /\ ok)
                         /\ UNCHANGED <<saved, env>>
<1>4. /\ \/ /\ st.op = "erase"
            /\ todo' = IF img.format = "tar" THEN <<>> ELSE <<Step("remove", "k", 0)>>
            /\ clean' = FALSE
         \/ st.op = "erase" /\ Put(Blank, TRUE)
         \/ st.op = "write" /\ Put(img.v, TRUE)
         \/ Put(Part, FALSE)
         \/ Put(Blank, FALSE)
         \/ st.op \in {"ver", "crc"} /\ store(st) /\ todo' = Tail(todo) /\ UNCHANGED clean
         \/ st.op = "remove" /\ todo' = Tail(todo) /\ UNCHANGED <<flash, saved, clean>>
      /\ UNCHANGED <<pc, img, both, fwu_ver, seen>>
  BY <1>1 DEF upgrade, globals
<1> HIDE DEF st
<1> QED BY <1>1, <1>2, <1>3, <1>4 DEF st

-----------------------------------------------------------------------------
(* The images.                                                             *)

\* A partition that is changed, and the others.
LEMMA FlashPut ==
    ASSUME flash \in [Slots -> [Parts -> Contents]], NEW s \in Slots, NEW p \in Parts, NEW c,
           flash' = [flash EXCEPT ![s][p] = c]
    PROVE  /\ flash'[s][p] = c
           /\ \A s2 \in Slots, p2 \in Parts : s2 # s \/ p2 # p => flash'[s2][p2] = flash[s2][p2]
OBVIOUS

\* One incomplete partition leaves the other image whole.
LEMMA OtherWhole ==
    ASSUME NEW s \in Slots, NEW p \in Parts,
           \A s2 \in Slots, p2 \in Parts : s2 # s \/ p2 # p => flash'[s2][p2] \in Versions
    PROVE  (\E s2 \in Slots : Whole(s2))'
<1>1. 1 - s \in Slots /\ 1 - s # s
  BY DEF Slots
<1> QED BY <1>1 DEF Whole

LEMMA InitImages == Init => StepsInv /\ WholeInv /\ TarInv
<1> SUFFICES ASSUME Init PROVE StepsInv /\ WholeInv /\ TarInv
  OBVIOUS
<1>1. Paired(todo) /\ pc = "uboot"
  BY RecordFresh DEF Init, Fresh
<1>2. \E s \in Slots : Whole(s)
  BY DualImageAssumption DEF Init, Whole, Slots
<1> QED BY <1>1, <1>2 DEF StepsInv, WholeInv, TarInv

\* An upgrade step preserves WholeInv.
LEMMA UpgradeWhole ==
    ASSUME TypeOK, StepsInv, WholeInv, upgrade
    PROVE  WholeInv'
<1> DEFINE st == todo[1]
<1>1. /\ st \in Steps /\ st.slot \in Slots /\ st.part \in Parts /\ todo # <<>>
      /\ img.v \in Versions /\ both' = both /\ pc = "upgrade" /\ Paired(todo)
      /\ flash \in [Slots -> [Parts -> Contents]]
  BY UpgradeStep, UploadFacts DEF Steps, StepsInv, TypeOK
<1>2. SUFFICES ASSUME both, clean'
               PROVE  /\ (\E s \in Slots : Whole(s))'
                      /\ \A s \in Slots, p \in Parts :
                            flash'[s][p] \in Versions \/ NextWrites(p, s)'
  BY <1>1 DEF WholeInv
<1>3. /\ todo' = Tail(todo) /\ clean
      /\ \/ st.op = "erase" /\ flash' = [flash EXCEPT ![st.slot][st.part] = Blank]
         \/ st.op = "write" /\ flash' = [flash EXCEPT ![st.slot][st.part] = img.v]
         \/ st.op \in {"ver", "crc", "remove"} /\ flash' = flash
  BY <1>2, UpgradeStep DEF store
<1>4. \A s \in Slots, p \in Parts : flash[s][p] \in Versions \/ (st = Step("write", p, s))
  BY <1>1, <1>2, <1>3 DEF WholeInv, NextWrites
<1>5. \A s \in Slots, p \in Parts : st = Step("write", p, s) =>
          st.op = "write" /\ s = st.slot /\ p = st.part
  BY DEF Step
<1>6. CASE st.op = "erase" /\ flash' = [flash EXCEPT ![st.slot][st.part] = Blank]
  <2>1. \A s \in Slots, p \in Parts : s # st.slot \/ p # st.part => flash'[s][p] \in Versions
    BY <1>1, <1>4, <1>5, <1>6, FlashPut
  <2>2. 1 \in 1 .. Len(todo) /\ Len(todo) \in Nat
    BY <1>1, TailPaired
  <2>3. 2 \in 1 .. Len(todo) /\ todo[2] = Step("write", st.part, st.slot)
    BY <1>1, <1>6, <2>2 DEF Paired
  <2>4. Tail(todo)[1] = todo[2] /\ Tail(todo) # <<>>
    <3>1. Len(Tail(todo)) = Len(todo) - 1 /\ \A i \in 1 .. Len(Tail(todo)) : Tail(todo)[i] = todo[i + 1]
      BY <1>1, TailPaired
    <3>2. 1 \in 1 .. Len(Tail(todo)) /\ 1 + 1 = 2 /\ Len(Tail(todo)) # 0
      BY <2>2, <2>3, <3>1
    <3>3. Tail(todo)[1] = todo[1 + 1]
      BY <3>1, <3>2
    <3>4. Len(<<>>) = 0
      OBVIOUS
    <3> QED BY <3>2, <3>3, <3>4
  <2>5. todo' # <<>> /\ todo'[1] = Step("write", st.part, st.slot)
    BY <1>3, <2>3, <2>4
  <2>6. (\E s \in Slots : Whole(s))'
    BY <1>1, <2>1, OtherWhole
  <2>7. ASSUME NEW s \in Slots, NEW p \in Parts
        PROVE  flash'[s][p] \in Versions \/ NextWrites(p, s)'
    <3>1. CASE s = st.slot /\ p = st.part
      BY <2>5, <3>1 DEF NextWrites, Step
    <3> QED BY <2>1, <3>1
  <2> QED BY <2>6, <2>7
<1>7. CASE st.op = "write" /\ flash' = [flash EXCEPT ![st.slot][st.part] = img.v]
  <2>1. \A s \in Slots, p \in Parts : flash'[s][p] \in Versions
    BY <1>1, <1>4, <1>5, <1>7, FlashPut
  <2> QED BY <2>1 DEF Whole, Slots
<1>8. CASE st.op \in {"ver", "crc", "remove"} /\ flash' = flash
  <2>1. \A s \in Slots, p \in Parts : flash'[s][p] \in Versions
    BY <1>4, <1>5, <1>8
  <2> QED BY <2>1 DEF Whole, Slots
<1> QED BY <1>3, <1>6, <1>7, <1>8

\* An upgrade step preserves TarInv.
LEMMA UpgradeTar ==
    ASSUME TypeOK, EnvInv, StepsInv, TarInv, upgrade
    PROVE  TarInv'
<1> DEFINE st == todo[1]
           C  == [s \in Slots |-> Archive(img)]
           R  == Records
<1>0. Records' = Records /\ \A ver \in Records : \E t \in Text : ver = [s \in Slots |-> t]
  BY UpgradeStep DEF Records, Text
<1>1. /\ st \in Steps /\ st.slot \in Slots /\ st.part \in Parts /\ todo # <<>>
      /\ img' = img /\ img \in Uploads /\ pc = "upgrade" /\ Paired(todo)
      /\ flash \in [Slots -> [Parts -> Contents]] /\ env \in Env /\ saved \in Env
  BY UpgradeStep DEF Steps, StepsInv, TypeOK
<1>2. SUFFICES ASSUME img.format = "tar" PROVE TarInv'
  BY <1>1 DEF TarInv
<1>3. /\ \A i \in 1 .. Len(todo) : todo[i].op # "remove"
      /\ 1 \in 1 .. Len(todo)
      /\ \A i \in 1 .. Len(Tail(todo)) : i + 1 \in 1 .. Len(todo) /\ Tail(todo)[i] = todo[i + 1]
      /\ \A i \in 1 .. Len(todo) :
            i = 1 \/ (i - 1 \in 1 .. Len(Tail(todo)) /\ Tail(todo)[i - 1] = todo[i])
  BY <1>1, <1>2, TailPaired DEF TarInv
<1>4. \A i \in 1 .. Len(todo') : todo'[i].op # "remove"
  <2>1. CASE todo' = Tail(todo)
    BY <1>3, <2>1
  <2>2. CASE todo' = <<>>
    BY <2>2
  <2> QED BY <1>2, <2>1, <2>2, UpgradeStep
<1>5. CASE ~clean'
  BY <1>1, <1>4, <1>5 DEF TarInv
<1>6. CASE clean'
  <2>1. /\ todo' = Tail(todo) /\ clean
        /\ \/ /\ st.op = "erase" /\ flash' = [flash EXCEPT ![st.slot][st.part] = Blank]
              /\ UNCHANGED <<saved, env>>
           \/ /\ st.op = "write" /\ flash' = [flash EXCEPT ![st.slot][st.part] = img.v]
              /\ UNCHANGED <<saved, env>>
           \/ st.op \in {"ver", "crc"} /\ store(st)
    BY <1>3, <1>6, UpgradeStep
  \* A step that is not the first one is still to be done afterwards.
  <2>2. \A i \in 1 .. Len(todo) : i = 1 \/ \E j \in 1 .. Len(todo') : todo'[j] = todo[i]
    BY <1>3, <2>1
  <2>3. /\ \A s \in Slots, p \in Parts :
              flash[s][p] = img.v \/ \E i \in 1 .. Len(todo) : todo[i] = Step("write", p, s)
        /\ (\E i \in 1 .. Len(todo) : todo[i].op = "ver") \/ (env.ver \in R /\ saved.ver = env.ver)
        /\ (\E i \in 1 .. Len(todo) : todo[i].op = "crc") \/ (env.crc = C /\ saved.crc = C)
    BY <1>1, <1>2, <2>1 DEF TarInv, Pending
  <2>4. \A s \in Slots, p \in Parts : st = Step("write", p, s) =>
            st.op = "write" /\ s = st.slot /\ p = st.part
    BY DEF Step
  <2>5. \A s \in Slots, p \in Parts :
            flash'[s][p] = img.v \/ \E i \in 1 .. Len(todo') : todo'[i] = Step("write", p, s)
    <3> TAKE s \in Slots, p \in Parts
    <3>1. CASE st.op = "erase" /\ flash' = [flash EXCEPT ![st.slot][st.part] = Blank]
      <4>1. CASE s = st.slot /\ p = st.part
        <5>1. 2 \in 1 .. Len(todo) /\ todo[2] = Step("write", p, s)
          BY <1>1, <1>3, <3>1, <4>1 DEF Paired
        <5> QED BY <2>2, <5>1
      <4>2. CASE s # st.slot \/ p # st.part
        <5>1. flash'[s][p] = flash[s][p]
          BY <1>1, <3>1, <4>2, FlashPut
        <5> QED BY <2>2, <2>3, <2>4, <3>1, <5>1
      <4> QED BY <4>1, <4>2
    <3>2. CASE st.op = "write" /\ flash' = [flash EXCEPT ![st.slot][st.part] = img.v]
      <4>1. CASE s = st.slot /\ p = st.part
        BY <1>1, <3>2, <4>1, FlashPut
      <4>2. CASE s # st.slot \/ p # st.part
        <5>1. flash'[s][p] = flash[s][p]
          BY <1>1, <3>2, <4>2, FlashPut
        <5> QED BY <2>2, <2>3, <2>4, <4>2, <5>1
      <4> QED BY <4>1, <4>2
    <3>3. CASE st.op \in {"ver", "crc"} /\ store(st)
      <4>1. flash' = flash
        BY <3>3 DEF store
      <4> QED BY <2>2, <2>3, <2>4, <3>3, <4>1
    <3> QED BY <2>1, <3>1, <3>2, <3>3
  <2>6. ASSUME UNCHANGED <<saved, env>>, st.op \in {"erase", "write"}
        PROVE  /\ Pending("ver")' \/ (env'.ver \in R /\ saved'.ver = env'.ver)
               /\ Pending("crc")' \/ (env'.crc = C /\ saved'.crc = C)
    BY <2>2, <2>3, <2>6 DEF Pending
  <2>7. ASSUME st.op \in {"ver", "crc"}, store(st)
        PROVE  /\ Pending("ver")' \/ (env'.ver \in R /\ saved'.ver = env'.ver)
               /\ Pending("crc")' \/ (env'.crc = C /\ saved'.crc = C)
    <3>1. C # NoCrcs
      <4>1. Archive(img) # <<>> /\ 0 \in Slots
        BY <1>1, UploadFacts DEF Slots
      <4>2. C[0] = Archive(img) /\ NoCrcs[0] = <<>>
        BY <4>1 DEF NoCrcs
      <4> QED BY <4>1, <4>2
    <3>2. CASE st.op = "ver"
      <4>1. PICK t \in Text : env' = [env EXCEPT !.ver = [s \in Slots |-> t]]
        BY <2>7, <3>2 DEF store
      <4>2. env'.ver = [s \in Slots |-> t] /\ env'.crc = env.crc
        BY <1>1, <4>1 DEF Env
      <4>3. env'.ver \in R
        BY <4>2 DEF Records
      <4>4. \/ saved' = env'
            \/ saved' = saved /\ env' = env /\ \A s \in Slots : env.ver[s] # {}
        BY <2>7, <3>2 DEF store
      <4>5. saved'.ver = env'.ver
        <5>1. ASSUME \A s \in Slots : env.ver[s] # {} PROVE env.ver # NoVers
          BY <5>1 DEF NoVers, Slots
        <5> QED BY <4>4, <5>1 DEF EnvInv
      <4>6. Pending("crc")' \/ (env.crc = C /\ saved.crc = C)
        BY <2>2, <2>3, <3>2 DEF Pending
      <4> QED BY <4>2, <4>3, <4>4, <4>5, <4>6
    <3>3. CASE st.op = "crc"
      <4>1. env' = [env EXCEPT !.crc = C]
        BY <2>7, <3>3 DEF store
      <4>2. env'.crc = C /\ env'.ver = env.ver
        BY <1>1, <4>1 DEF Env
      <4>3. saved' = env' \/ (saved' = saved /\ env' = env)
        BY <2>7 DEF store
      <4>4. saved'.crc = C
        BY <3>1, <4>2, <4>3 DEF EnvInv
      <4>5. Pending("ver")' \/ (env.ver \in R /\ saved.ver = env.ver)
        BY <2>2, <2>3, <3>3 DEF Pending
      <4>6. saved.ver = env.ver => saved'.ver = env'.ver
        BY <4>3
      <4> QED BY <4>2, <4>4, <4>5, <4>6
    <3> QED BY <2>7, <3>2, <3>3
  <2> QED BY <1>0, <1>1, <1>4, <2>1, <2>5, <2>6, <2>7 DEF TarInv, Archive
<1> QED BY <1>5, <1>6

\* Every step preserves what is known of the images and of the command's steps.
LEMMA StepImages ==
    ASSUME TypeOK, EnvInv, StepsInv, WholeInv, TarInv, [Next]_vars
    PROVE  StepsInv' /\ WholeInv' /\ TarInv'
<1>1. CASE upgrade
  <2>1. Paired(todo') /\ img' \in Uploads
    BY <1>1, UpgradeStep
  <2>2. StepsInv'
    BY <2>1 DEF StepsInv
  <2> QED BY <1>1, <2>2, UpgradeWhole, UpgradeTar
<1>2. ASSUME NEW u \in Uploads, StartUpgrade(u) PROVE StepsInv' /\ WholeInv' /\ TarInv'
  <2>1. /\ todo' = Program(u) /\ img' = u /\ pc' = "upgrade" /\ flash' = flash
        /\ both' = \A s \in Slots : Whole(s)
    BY <1>2 DEF StartUpgrade
  <2>2. Paired(Program(u))
    BY ProgramFresh DEF Fresh
  <2>3. StepsInv'
    BY <2>1, <2>2 DEF StepsInv
  <2>4. WholeInv'
    <3> SUFFICES ASSUME both'
                 PROVE  /\ (\E s \in Slots : Whole(s))'
                        /\ \A s \in Slots, p \in Parts : flash'[s][p] \in Versions
      BY DEF WholeInv
    <3>1. \A s \in Slots, p \in Parts : flash'[s][p] \in Versions
      BY <2>1 DEF Whole
    <3> QED BY <3>1 DEF Whole, Slots
  <2>5. TarInv'
    <3> SUFFICES ASSUME u.format = "tar" PROVE TarInv'
      BY <2>1 DEF TarInv
    <3> DEFINE t == Program(u)
    <3>1. /\ \A i \in 1 .. Len(t) : t[i].op # "remove"
          /\ \A s \in Slots, p \in Parts : \E i \in 1 .. Len(t) : t[i] = Step("write", p, s)
          /\ \E i \in 1 .. Len(t) : t[i].op = "ver"
          /\ \E i \in 1 .. Len(t) : t[i].op = "crc"
      BY TarProgram
    <3>2. todo' = t
      BY <2>1
    <3> HIDE DEF t
    <3>3. Pending("ver")' /\ Pending("crc")'
      BY <3>1, <3>2 DEF Pending
    <3> QED BY <3>1, <3>2, <3>3 DEF TarInv
  <2> QED BY <2>3, <2>4, <2>5
<1>3. ASSUME Reset PROVE StepsInv' /\ WholeInv' /\ TarInv'
  <2>1. Paired(<<>>)
    BY RecordFresh DEF Fresh
  <2>2. pc' = "uboot" /\ todo' = <<>> /\ flash' = flash /\ both' = both /\ clean' = clean
    BY <1>3 DEF Reset, Restart, history
  <2>3. StepsInv' /\ TarInv'
    BY <2>1, <2>2 DEF StepsInv, TarInv
  <2> QED BY <2>2, <2>3 DEF WholeInv, Whole
<1>4. ASSUME NEW v \in Versions, LinuxInstall(v) PROVE StepsInv' /\ WholeInv' /\ TarInv'
  <2>1. /\ pc' = "uboot" /\ todo' = todo /\ run \in Slots
        /\ flash' = [flash EXCEPT ![1 - run] = [p \in Parts |-> v]]
        /\ flash \in [Slots -> [Parts -> Contents]]
    BY <1>4 DEF LinuxInstall, Restart, TypeOK
  <2>2. 1 - run \in Slots
    BY <2>1 DEF Slots
  <2>3. flash'[1 - run] = [p \in Parts |-> v]
    BY <2>1, <2>2
  <2>4. (\E s \in Slots : Whole(s))'
    BY <2>2, <2>3 DEF Whole
  <2> QED BY <2>1, <2>4 DEF StepsInv, WholeInv, TarInv
<1>5. ASSUME UNCHANGED <<flash, todo, history>>, pc' # "upgrade"
      PROVE  StepsInv' /\ WholeInv' /\ TarInv'
  BY <1>5 DEF StepsInv, WholeInv, TarInv, Whole, history
<1>6. CASE bootcmd
  BY <1>5, <1>6 DEF bootcmd
<1>7. CASE bootm
  BY <1>5, <1>7 DEF bootm
<1>8. CASE EndUpgrade
  BY <1>5, <1>8 DEF EndUpgrade
<1>9. CASE LinuxCommit
  BY <1>5, <1>9 DEF LinuxCommit
<1>10. CASE PowerFails \/ Watchdog \/ OperatorResets
  BY <1>3, <1>10 DEF PowerFails, Watchdog, OperatorResets
<1>11. CASE UNCHANGED vars
  <2>1. UNCHANGED <<flash, saved, env, pc, todo, img, both, clean, fwu_ver>>
    BY <1>11 DEF vars, history, globals
  <2> QED BY <2>1 DEF StepsInv, WholeInv, TarInv, Whole, NextWrites, Pending, Records, Text, Archive
<1> QED BY <1>1, <1>2, <1>4, <1>6, <1>7, <1>8, <1>9, <1>10, <1>11 DEF Next

\* The buffer of the version: only a scan, or a restart, changes it.
LEMMA StepVer ==
    ASSUME TypeOK, StepsInv, VerInv, [Next]_vars
    PROVE  VerInv'
<1>1. ASSUME NEW u \in Uploads, StartUpgrade(u) PROVE VerInv'
  <2>1. img' = u /\ pc' = "upgrade" /\ scan_img_tar(u) /\ fwu_ver \subseteq seen
    BY <1>1 DEF StartUpgrade, VerInv
  <2>2. fwu_ver' \subseteq seen'
    BY <2>1 DEF scan_img_tar, strncpy, globals
  <2>3. u.format = "tar" /\ u.ver => fwu_ver' = {u.v} \cup {w \in fwu_ver : VerLen[w] > VerLen[u.v]}
    BY <2>1 DEF scan_img_tar, strncpy
  <2> QED BY <2>1, <2>2, <2>3 DEF VerInv
<1>2. CASE upgrade
  BY <1>2, UpgradeStep DEF VerInv
<1>3. ASSUME fwu_ver' = {} \/ UNCHANGED <<fwu_ver, seen>>, pc' # "upgrade" PROVE VerInv'
  BY <1>3 DEF VerInv
<1>4. CASE bootcmd
  BY <1>3, <1>4 DEF bootcmd, globals
<1>5. CASE bootm
  BY <1>3, <1>5 DEF bootm, globals
<1>6. CASE EndUpgrade
  BY <1>3, <1>6 DEF EndUpgrade, globals
<1>7. CASE PowerFails \/ Watchdog \/ OperatorResets
  BY <1>3, <1>7 DEF PowerFails, Watchdog, OperatorResets, Reset, Restart
<1>8. CASE \E v \in Versions : LinuxInstall(v)
  BY <1>3, <1>8 DEF LinuxInstall, Restart
<1>9. CASE LinuxCommit
  BY <1>3, <1>9 DEF LinuxCommit, globals
<1>10. CASE UNCHANGED vars
  BY <1>10 DEF vars, globals, VerInv
<1> QED BY <1>1, <1>2, <1>4, <1>5, <1>6, <1>7, <1>8, <1>9, <1>10 DEF Next

\* The invariant is inductive.
LEMMA DualInvariant == Spec => []DualInv
<1>1. Init => DualInv
  BY InitType, InitEnv, InitImages DEF DualInv, VerInv, Init
<1>2. DualInv /\ [Next]_vars => DualInv'
  BY StepType, StepEnv, StepImages, StepVer DEF DualInv
<1> QED BY <1>1, <1>2, PTL DEF Spec

\* A power failure during an upgrade never leaves the device without an image:
\* upimgtar and upvmimg, interrupted after any step, leave a complete kernel and
\* root file system in one slot, for any uploads, as long as both were there
\* before and no write failed.
THEOREM UpgradeLeavesAnImage == Spec => []SomeImageWhole
<1>1. DualInv => SomeImageWhole
  BY DEF DualInv, WholeInv, SomeImageWhole
<1> QED BY <1>1, DualInvariant, PTL

\* When upimgtar reports that it is done and nothing failed, both slots hold the
\* uploaded version and the stored environment has its checksum, whatever the
\* commands before it left in the environment and in the global variables of the
\* scans.  The recorded version is the same for both slots; it is that of the
\* archive when the archive brings one that leaves room for a terminator and no
\* archive since the start brought a longer one, for any versions and lengths.
THEOREM DoneIsInstalled == Spec => []DoneMeansInstalled
<1>1. DualInv => DoneMeansInstalled
  <2> SUFFICES ASSUME TypeOK, TarInv, VerInv, StepsInv, Done, img.format = "tar", clean
               PROVE  /\ flash = [s \in Slots |-> [p \in Parts |-> img.v]]
                      /\ saved.crc = [s \in Slots |-> Archive(img)]
                      /\ saved.ver[0] = saved.ver[1]
                      /\ (/\ img.ver
                          /\ VerLen[img.v] < FwuVerSize
                          /\ \A v \in seen : VerLen[v] <= VerLen[img.v])
                         => saved.ver[0] = {img.v}
    BY DEF DualInv, DoneMeansInstalled
  <2>1. pc = "upgrade" /\ \A i \in 1 .. Len(todo) : FALSE
    BY DEF Done
  <2>2. \A s \in Slots, p \in Parts : flash[s][p] = img.v
    BY <2>1 DEF TarInv
  <2>3. flash \in [Slots -> [Parts -> Contents]]
    BY DEF TypeOK
  <2>4. saved.crc = [s \in Slots |-> Archive(img)] /\ saved.ver \in Records
    BY <2>1 DEF TarInv, Pending
  <2>5. PICK t \in Text : saved.ver = [s \in Slots |-> t]
    BY <2>4 DEF Records
  <2>6. saved.ver[0] = t /\ saved.ver[1] = t
    BY <2>5 DEF Slots
  <2>7. ASSUME img.ver, VerLen[img.v] < FwuVerSize, \A v \in seen : VerLen[v] <= VerLen[img.v]
        PROVE  t = {img.v}
    <3>1. /\ img \in Uploads /\ fwu_ver \subseteq seen /\ img.v \in fwu_ver
          /\ \A w \in fwu_ver : w = img.v \/ VerLen[w] > VerLen[img.v]
      BY <2>1, <2>7 DEF VerInv, StepsInv
    <3>2. \A w \in Versions : VerLen[w] \in Nat
      BY DualImageAssumption
    <3>3. fwu_ver \subseteq Versions /\ FwuVerSize \in Nat
      BY DualImageAssumption DEF TypeOK
    <3>4. \A w \in fwu_ver : w = img.v
      <4> TAKE w \in fwu_ver
      <4>1. VerLen[w] <= VerLen[img.v] /\ VerLen[w] \in Nat /\ VerLen[img.v] \in Nat
        BY <2>7, <3>1, <3>2, <3>3
      <4> QED BY <3>1, <4>1
    <3>5. fwu_ver = {img.v}
      BY <3>1, <3>4
    <3>6. VerLen[img.v] # FwuVerSize
      BY <2>7, <3>1, <3>2, <3>3
    <3> QED BY <3>5, <3>6 DEF Text
  <2> QED BY <2>2, <2>3, <2>4, <2>6, <2>7
<1> QED BY <1>1, DualInvariant, PTL
=============================================================================
