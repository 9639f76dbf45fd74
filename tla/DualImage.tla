------------------------------ MODULE DualImage ------------------------------
(***************************************************************************)
(* A device with two images, each a kernel and a root file system in       *)
(* partitions of their own: the boot scripts in U-Boot's environment that  *)
(* choose between them, and the commands upimgtar and upvmimg that replace *)
(* both.                                                                   *)
(*                                                                         *)
(* The partitions are those of the MTD layout, which the environment of    *)
(* this board uses; builds with CONFIG_RTK_USE_ONE_UBI_DEVICE write UBI    *)
(* volumes instead and have scripts of their own.                          *)
(*                                                                         *)
(* The scripts boot the committed image (sw_commit) unless a trial is      *)
(* asked for (sw_tryactive 0 or 1); a trial is noted as done (2) in the    *)
(* stored environment before the kernel starts, and runs under the         *)
(* watchdog.  The environment in RAM is a copy of the stored one and       *)
(* reaches the flash with saveenv only, at once and completely (it is      *)
(* kept twice).  Power may fail between any two steps.                     *)
(*                                                                         *)
(* Linux is external: it is modelled by what the scripts are made for.  It *)
(* installs a new version beside the running one and asks for a trial,     *)
(* commits a trial that works, and serves the watchdog when it works.      *)
(***************************************************************************)
EXTENDS Integers, Sequences

CONSTANTS
    Versions,    \* versions of the software
    Good,        \* those of them that work
    VerLen,      \* how many characters of a version's text fit the buffer
    FwuVerSize,  \* TAR_FWUVER_FILE_SIZE
    Uploads,     \* images given to the upgrade commands
    Layouts,     \* the partitions whose place and size the environment may give
    MaxInstalls, \* bound: upgrades of either kind
    MaxCrashes,  \* bound: power failures
    WriteFaults  \* whether a "nand write" may fail

Slots == {0, 1}
Parts == {"k", "r"}

\* An upload: its version and format, the parts it contains, those that are
\* larger than their partition, and whether it contains the file fwu_ver with the
\* text of the version.
ASSUME DualImageAssumption ==
    /\ Good \subseteq Versions
    /\ FwuVerSize \in Nat \ {0}
    /\ VerLen \in [Versions -> 1 .. FwuVerSize]
    /\ Uploads \subseteq [v : Versions, format : {"tar", "vm"},
                          parts : SUBSET Parts, big : SUBSET Parts, ver : BOOLEAN]
    /\ Layouts \subseteq SUBSET (Parts \X Slots)
    /\ MaxInstalls \in Nat
    /\ MaxCrashes \in Nat
    /\ WriteFaults \in BOOLEAN

Blank == "blank"      \* erased
Part  == "part"       \* not completely written
None  == "none"
Beyond == "beyond"    \* what lies behind the buffer of the version
ASSUME DistinctAssumption == {Blank, Part, None, Beyond} \cap Versions = {}

\* An archive, as its checksum tells it from others.
Archive(u) == <<u.v, u.parts, u.big, u.ver>>
Complete(v) == <<v, Parts, {}, TRUE>>

VARIABLES
    flash,     \* [Slots -> [Parts -> contents]]
    fl,        \* fl_kernel1, fl_kernel1_sz and so on: the partitions that have them
    saved,     \* the stored environment: a version that is not set is {}, a checksum <<>>
    env,       \* the environment in RAM
    pc,        \* "uboot", "upgrade", "bootm", "prompt", "linux"
    run,       \* the image that is booted or runs
    wdt,       \* the watchdog is enabled
    todo,      \* the steps left of the upgrade command
    img,       \* the upload it works on
    tar,       \* kernel_size and rootfs_size: what the scans of tars found, and what is too large
    fwu_ver,   \* the buffer, as the versions whose characters are there, shortest first
    seen,      \* history: the versions whose text was copied there since the start
    both,      \* history: both images were whole when the last upgrade began
    clean,     \* history: none of its steps failed or had nothing to write
    installs,
    crashes

history == <<both, clean>>
globals == <<tar, fwu_ver, seen>>
vars == <<flash, fl, saved, env, pc, run, wdt, todo, img, globals, history, installs, crashes>>

NoImg == [v |-> None, format |-> None, parts |-> {}, big |-> {}, ver |-> FALSE]
NoTar == [parts |-> {}, big |-> {}]

Whole(s) == \A p \in Parts : flash[s][p] \in Versions
Works(s) == flash[s]["k"] \in Good /\ flash[s]["r"] = flash[s]["k"]

Init ==
    /\ \E v \in Good : \E c \in Slots :
          /\ flash = [s \in Slots |-> [p \in Parts |-> v]]
          /\ saved = [active |-> 0, commit |-> c, try |-> 2,
                      ver |-> [s \in Slots |-> {v}], crc |-> [s \in Slots |-> Complete(v)]]
    /\ fl \in Layouts
    /\ env = saved
    /\ pc = "uboot"
    /\ run = 0
    /\ wdt = FALSE
    /\ todo = <<>>
    /\ img = NoImg
    /\ tar = NoTar
    /\ fwu_ver = {}
    /\ seen = {}
    /\ both = TRUE
    /\ clean = TRUE
    /\ installs = 0
    /\ crashes = 0

-----------------------------------------------------------------------------
(* The boot scripts.                                                       *)

\* Mutant: sw_active is not brought up to date.
boot_by_commit_stale ==
    LET s == IF env.commit = 0 THEN 0 ELSE 1 IN
    /\ env.try = 2
    /\ run' = s
    /\ UNCHANGED <<env, saved, wdt>>

\* boot_by_commit with set_act0 and set_act1: saveenv only when sw_active
\* changes.
boot_by_commit ==
    LET s == IF env.commit = 0 THEN 0 ELSE 1 IN
    /\ env.try = 2
    /\ env' = [env EXCEPT !.active = s]
    /\ saved' = IF env.active # s THEN env' ELSE saved
    /\ run' = s
    /\ UNCHANGED wdt

\* Mutant: the trial is started before it is noted in the flash.
boot_by_tryactive_unsaved ==
    LET s == IF env.try = 0 THEN 0 ELSE 1 IN
    /\ env.try # 2
    /\ env' = [env EXCEPT !.try = 2, !.active = s]
    /\ saved' = [saved EXCEPT !.active = s]
    /\ wdt' = TRUE
    /\ run' = s

boot_by_tryactive ==
    LET s == IF env.try = 0 THEN 0 ELSE 1 IN
    /\ env.try # 2
    /\ env' = [env EXCEPT !.try = 2, !.active = s]
    /\ saved' = env'
    /\ wdt' = TRUE
    /\ run' = s

bootcmd ==
    /\ pc = "uboot"
    /\ boot_by_commit \/ boot_by_tryactive
    /\ pc' = "bootm"
    /\ UNCHANGED <<flash, fl, todo, img, globals, history, installs, crashes>>

\* b0, b1: a kernel that is not complete or not found is refused, and the script
\* ends at the prompt.
bootm ==
    /\ pc = "bootm"
    /\ pc' = IF <<"k", run>> \in fl /\ flash[run]["k"] \in Versions THEN "linux" ELSE "prompt"
    /\ UNCHANGED <<flash, fl, saved, env, run, wdt, todo, img, globals, history, installs, crashes>>

-----------------------------------------------------------------------------
(* upimgtar and upvmimg.                                                   *)

Step(op, p, s) == [op |-> op, part |-> p, slot |-> s]

\* Mutant: both copies are erased before one is written.
Replace_both(p) == <<Step("erase", p, 0), Step("erase", p, 1),
                     Step("write", p, 0), Step("write", p, 1)>>

\* "nand erase" and "nand write" of one part in both images.
Replace(p) == <<Step("erase", p, 0), Step("write", p, 0),
                Step("erase", p, 1), Step("write", p, 1)>>

\* upimgtar replaces both parts, whether the tar contains them or not, and
\* stores the version and the checksum with a saveenv each.  upvmimg replaces
\* what the image contains and removes the recorded version and checksum.
Program(u) ==
    IF u.format = "tar"
    THEN Replace("k") \o Replace("r") \o <<Step("ver", "k", 0), Step("crc", "k", 0)>>
    ELSE (IF "k" \in u.parts THEN Replace("k") ELSE <<>>)
         \o (IF "r" \in u.parts THEN Replace("r") ELSE <<>>)
         \o <<Step("remove", "k", 0)>>

\* strncpy over the text that is in the buffer, without a terminator: the end of
\* a longer text stays behind a shorter one.
strncpy(v) == {v} \cup {w \in fwu_ver : VerLen[w] > VerLen[v]}

\* The locations and sizes and the version are global variables that no command
\* resets: a part that this tar does not contain is looked for where an earlier
\* one had it, and a tar without a version gets the earlier one's.
scan_img_tar(u) ==
    \/ u.format # "tar" /\ UNCHANGED globals
    \/ /\ u.format = "tar"
       /\ tar' = [parts |-> tar.parts \cup u.parts, big |-> (tar.big \ u.parts) \cup u.big]
       /\ fwu_ver' = IF u.ver THEN strncpy(u.v) ELSE fwu_ver
       /\ seen' = IF u.ver THEN seen \cup {u.v} ELSE seen

\* From the prompt or, after a multicast upgrade, before bootcmd.
StartUpgrade(u) ==
    /\ pc \in {"uboot", "prompt"}
    /\ installs < MaxInstalls
    /\ installs' = installs + 1
    /\ pc' = "upgrade"
    /\ todo' = Program(u)
    /\ img' = u
    /\ scan_img_tar(u)
    /\ both' = \A s \in Slots : Whole(s)
    /\ clean' = TRUE
    /\ UNCHANGED <<flash, fl, saved, env, run, wdt, crashes>>

\* The text that env_set finds: when the buffer is full nothing ends it, and it
\* may go on in whatever lies behind.
Text == IF \E v \in fwu_ver : VerLen[v] = FwuVerSize
        THEN {fwu_ver, fwu_ver \cup {Beyond}}
        ELSE {fwu_ver}

\* Mutant: the checksum of the second image is not recorded.
store_first(step) ==
    /\ \/ /\ step.op = "ver"
          /\ \E t \in Text : env' = [env EXCEPT !.ver = [s \in Slots |-> t]]
       \/ /\ step.op = "crc"
          /\ env' = [env EXCEPT !.crc[0] = Archive(img)]
    /\ saved' = env'
    /\ UNCHANGED flash

\* save_fwu_version_env and save_images_crc_env: the variables of both images,
\* stored when one of them changed or was not set.  An empty text unsets them.
store(step) ==
    /\ \/ /\ step.op = "ver"
          /\ \E t \in Text : env' = [env EXCEPT !.ver = [s \in Slots |-> t]]
       \/ /\ step.op = "crc"
          /\ env' = [env EXCEPT !.crc = [s \in Slots |-> Archive(img)]]
    /\ saved' = IF env' # env \/ (step.op = "ver" /\ \E s \in Slots : env.ver[s] = {})
                THEN env' ELSE saved
    /\ UNCHANGED flash

\* One step of the command.  The results of "nand erase" and "nand write" are
\* not looked at.  What no tar contained has length 0, so nothing is written;
\* what only an earlier one contained is whatever lies there now.  A part that is
\* too large, or whose partition the environment does not give, ends the command
\* before the partition is erased.
upgrade ==
    /\ pc = "upgrade" /\ todo # <<>>
    /\ LET step == Head(todo)
           big  == IF img.format = "tar" THEN tar.big ELSE img.big
           fits == step.part \notin big /\ <<step.part, step.slot>> \in fl
           Put(c, ok) == /\ flash' = [flash EXCEPT ![step.slot][step.part] = c]
                         /\ todo' = Tail(todo)
                         /\ clean' = (clean /\ ok)
                         /\ UNCHANGED <<saved, env>>
       IN \/ /\ step.op = "erase" /\ ~fits
             /\ todo' = IF img.format = "tar" THEN <<>> ELSE <<Step("remove", "k", 0)>>
             /\ clean' = FALSE
             /\ UNCHANGED <<flash, saved, env>>
          \/ step.op = "erase" /\ fits /\ Put(Blank, TRUE)
          \/ step.op = "write" /\ step.part \in img.parts /\ Put(img.v, TRUE)
          \/ step.op = "write" /\ step.part \in img.parts /\ WriteFaults /\ Put(Part, FALSE)
          \/ step.op = "write" /\ step.part \in tar.parts \ img.parts /\ Put(Part, FALSE)
          \/ step.op = "write" /\ step.part \notin tar.parts \cup img.parts /\ Put(Blank, FALSE)
          \/ step.op \in {"ver", "crc"} /\ store(step) /\ todo' = Tail(todo) /\ UNCHANGED clean
          \/ /\ step.op = "remove"
             /\ env' = [env EXCEPT !.ver = [s \in Slots |-> {}], !.crc = [s \in Slots |-> <<>>]]
             /\ todo' = Tail(todo)
             /\ UNCHANGED <<flash, saved, clean>>
    /\ UNCHANGED <<fl, pc, run, wdt, img, globals, both, installs, crashes>>

\* "Update img.tar Done", "Update vm.img Done".
Done == pc = "upgrade" /\ todo = <<>>
EndUpgrade ==
    /\ Done
    /\ pc' = "uboot"
    /\ UNCHANGED <<flash, fl, saved, env, run, wdt, todo, img, globals, history, installs, crashes>>

-----------------------------------------------------------------------------
(* Resets, and Linux.                                                      *)

\* U-Boot starts with its global variables cleared.
Restart ==
    /\ pc' = "uboot"
    /\ wdt' = FALSE
    /\ img' = NoImg
    /\ tar' = NoTar
    /\ fwu_ver' = {}
    /\ seen' = {}

Reset ==
    /\ Restart
    /\ env' = saved
    /\ todo' = <<>>
    /\ UNCHANGED <<flash, fl, saved, run, history, installs>>

PowerFails == crashes < MaxCrashes /\ Reset /\ crashes' = crashes + 1

\* Mutant: the watchdog does not notice a system that hangs.
Watchdog_uboot == wdt /\ pc = "prompt" /\ Reset /\ UNCHANGED crashes

\* U-Boot does not serve the watchdog, and neither does a system that does not
\* work.
Watchdog ==
    /\ wdt
    /\ pc = "linux" => ~Works(run)
    /\ Reset
    /\ UNCHANGED crashes

\* The operator enters "reset" at the prompt.
OperatorResets == pc = "prompt" /\ Reset /\ UNCHANGED crashes

\* A version is installed in the image that does not run; the device restarts
\* to try it.
LinuxInstall(v) ==
    /\ pc = "linux" /\ Works(run) /\ run = saved.commit
    /\ installs < MaxInstalls
    /\ installs' = installs + 1
    /\ flash' = [flash EXCEPT ![1 - run] = [p \in Parts |-> v]]
    /\ saved' = [saved EXCEPT !.try = 1 - run, !.ver[1 - run] = {v},
                               !.crc[1 - run] = Complete(v)]
    /\ env' = saved'
    /\ Restart
    /\ UNCHANGED <<fl, run, todo, history, crashes>>

LinuxCommit ==
    /\ pc = "linux" /\ Works(run) /\ run # saved.commit
    /\ saved' = [saved EXCEPT !.commit = run]
    /\ wdt' = FALSE
    /\ UNCHANGED <<flash, fl, env, pc, run, todo, img, globals, history, installs, crashes>>

Next ==
    \/ bootcmd
    \/ bootm
    \/ \E u \in Uploads : StartUpgrade(u)
    \/ upgrade
    \/ EndUpgrade
    \/ PowerFails
    \/ Watchdog
    \/ OperatorResets
    \/ \E v \in Versions : LinuxInstall(v)
    \/ LinuxCommit

\* U-Boot goes on, and the watchdog expires.  Power failures, upgrades and what
\* the operator or Linux decide need not happen.
Spec ==
    /\ Init
    /\ [][Next]_vars
    /\ WF_vars(bootcmd)
    /\ WF_vars(bootm)
    /\ WF_vars(upgrade)
    /\ WF_vars(EndUpgrade)
    /\ WF_vars(Watchdog)

-----------------------------------------------------------------------------
(* Properties.                                                             *)

Contents == Versions \cup {Blank, Part}
Vers == SUBSET (Versions \cup {Beyond})
Crcs == {<<>>} \cup (Versions \X (SUBSET Parts) \X (SUBSET Parts) \X BOOLEAN)
Env == [active : Slots, commit : Slots, try : 0 .. 2,
        ver : [Slots -> Vers], crc : [Slots -> Crcs]]

TypeOK ==
    /\ flash \in [Slots -> [Parts -> Contents]]
    /\ saved \in Env
    /\ env \in Env
    /\ pc \in {"uboot", "upgrade", "bootm", "prompt", "linux"}
    /\ run \in Slots
    /\ wdt \in BOOLEAN
    /\ img = NoImg \/ img \in Uploads
    /\ tar \in [parts : SUBSET Parts, big : SUBSET Parts]
    /\ fl \in Layouts
    /\ fwu_ver \subseteq Versions
    /\ seen \subseteq Versions
    /\ todo # <<>> => pc = "upgrade" /\ img \in Uploads
    /\ {both, clean} \subseteq BOOLEAN
    /\ installs \in 0 .. MaxInstalls
    /\ crashes \in 0 .. MaxCrashes

\* sw_active, which Linux and the operator read, names the image that is
\* started or runs, after any sequence of trials, watchdog resets and power
\* failures.
ActiveIsRunning == pc \in {"bootm", "linux"} => saved.active = run

\* An image that does not work is started once by a request: while it runs or
\* hangs, the stored environment asks for the committed image.
TrialIsNotRepeated ==
    pc \in {"bootm", "linux"} /\ run # saved.commit => saved.try = 2 /\ wdt

\* In spite of trials of images that do not work and of power failures, the
\* device ends up running an image that works, unless its images are replaced by
\* an upgrade command.
EndsUpWorking == <>(pc = "upgrade") \/ <>[](pc = "linux" /\ Works(run))

\* upimgtar and upvmimg replace one copy of a part after the other.  So when
\* both images were whole at the beginning and no write failed, then at any
\* moment, and after a power failure at any moment, one of them has a complete
\* kernel and a complete root file system.
SomeImageWhole == both /\ clean => \E s \in Slots : Whole(s)

\* When upimgtar is done and nothing failed, both images are the version uploaded,
\* and the stored environment has its checksum and one and the same version for
\* both.  That is the uploaded one only if the archive says which it is, in fewer
\* characters than the buffer has, and no archive before it had a longer one
\* (scan_img_tar, save_fwu_version_env, save_images_crc_env).
DoneMeansInstalled ==
    Done /\ img.format = "tar" /\ clean =>
        /\ flash = [s \in Slots |-> [p \in Parts |-> img.v]]
        /\ saved.crc = [s \in Slots |-> Archive(img)]
        /\ saved.ver[0] = saved.ver[1]
        /\ (/\ img.ver
            /\ VerLen[img.v] < FwuVerSize
            /\ \A v \in seen : VerLen[v] <= VerLen[img.v])
           => saved.ver[0] = {img.v}
=============================================================================
