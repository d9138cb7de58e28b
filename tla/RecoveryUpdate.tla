-------------------------- MODULE RecoveryUpdate ---------------------------
(***************************************************************************)
(* The installation of an update zip (releasetools.py) from a recovery     *)
(* that may be too old for it: recoverycheck.sh writes a new recovery to   *)
(* the boot partition, leaves a script and a marker in /cache and reboots; *)
(* the new recovery runs the script, which installs the zip again.  Then   *)
(* updater.sh makes the LVM partitions and the system is written.          *)
(*                                                                         *)
(* The power may fail between any two steps.  What is in memory is lost    *)
(* then: where the scripts are, the mounts, which recovery runs (at power  *)
(* on it is the boot partition's), and any file of /cache not yet written  *)
(* back, in whatever order files are.  The last close of a block device    *)
(* writes it back, so that dd and make_ext4fs have when they return; so    *)
(* does a reboot.                                                          *)
(*                                                                         *)
(* Commands fail, too, and most of the scripts' do so unnoticed: no line   *)
(* looks at how dd, reboot, lvm or make_ext4fs ended.                      *)
(***************************************************************************)
EXTENDS Integers

\* A definition whose name ends in _Bug is not part of the model: it is a mistake
\* in the definition that follows it, which one of the properties must notice.

CONSTANT MaxFaults  \* bound: power failures and failing commands

ASSUME RecoveryAssumption == MaxFaults \in Nat

VARIABLES
  boot,     \* the boot partition: the version of its recovery, or "torn"
  cache,    \* the files of /cache as programs see them
  disk,     \* ... and as they are on flash
  mounted,  \* /cache is mounted
  pool,     \* what of the LVM partitions is made
  system,   \* the system partition: "old", "formatted" or "installed"
  running,  \* the version of the recovery that runs, or "off"
  pc,       \* what recovery or a script will do next
  faults,   \* bound: how often something went wrong
  ignored   \* history: dd or reboot failed, and recoverycheck.sh went on

vars == <<boot, cache, disk, mounted, pool, system, running, pc, faults, ignored>>
cacheVars == <<cache, disk, mounted>>
systemVars == <<pool, system>>
faultVars == <<faults, ignored>>

(* Android versions of recoveries; "?" is one that cannot be read.           *)
Old == {"?", "2.3", "4.0", "4.2"}
New == "4.4"
Versions == Old \cup {"4.3", New}

NeedUpgrade_Bug(v) == v \in Versions
NeedUpgrade(v) == v \in Old

\* Whether an empty string is less than 4 is for busybox to say.
NeedFormatCache(v) ==
  CASE v = "2.3" -> {TRUE} [] v = "?" -> BOOLEAN [] OTHER -> {FALSE}

NeedRecoveryPrecommand(v) == v \in {"4.0", "4.2", "4.3"}

(* The files of /cache: how many lines of extendedcommand there are, the     *)
(* marker recoveryupgraded, and .startrecovery; if there is a file system.   *)
Files == [fs : {TRUE}, script : 0..3, marker : BOOLEAN, start : BOOLEAN]
Empty == [fs |-> TRUE, script |-> 0, marker |-> FALSE, start |-> FALSE]
Broken == [fs |-> FALSE, script |-> 0, marker |-> FALSE, start |-> FALSE]

(* The LVM partitions, in the order they are made: the volume group, the     *)
(* system volume, the data volume, and a file system on that.                *)
Parts == {"group", "system", "data", "fs"}
NextPart == [group |-> "system", system |-> "data", data |-> "fs", fs |-> "emmc"]

(* What a part is made on.  The data volume takes all the room that is left. *)
CanMake(p) ==
  /\ p \in {"system", "data"} => "group" \in pool
  /\ p = "system" => "data" \notin pool \/ "system" \in pool
  /\ p = "fs" => "data" \in pool

(* The order of an upgrade, and of the installation proper.                  *)
After_Bug ==
  [upgrade |-> "marker", marker |-> "dd", dd |-> "formatCache",
   formatCache |-> "mount", mount |-> "line1", line1 |-> "line2",
   line2 |-> "line3", line3 |-> "start", start |-> "reboot"]

After ==
  [upgrade |-> "dd", dd |-> "formatCache", formatCache |-> "mount",
   mount |-> "line1", line1 |-> "line2", line2 |-> "line3",
   line3 |-> "marker", marker |-> "start", start |-> "reboot"]

Upgrading == {"dd", "formatCache", "mount", "line1", "line2", "line3", "marker",
              "start", "reboot"}
Installing == {"lvm", "group", "system", "data", "fs", "emmc", "formatSystem", "install"}
PCs == {"idle", "extended", "formatOnly", "formatInstall", "check", "reboot"}
         \cup Upgrading \cup Installing

\* A recovery of some version runs and waits for the user.
Init ==
  /\ running \in Versions
  /\ boot = running
  /\ cache = Empty /\ disk = Empty /\ mounted = TRUE
  /\ pool \in {{}, Parts}
  /\ system = "old"
  /\ pc = "idle"
  /\ faults = 0 /\ ignored = FALSE

\* From one place to the next, while there is power.
Go(p, q) == running # "off" /\ pc = p /\ pc' = q

\* Something goes wrong, and is noticed or makes no difference to recoverycheck.sh ...
Fault == faults < MaxFaults /\ faults' = faults + 1 /\ UNCHANGED ignored

\* ... or is not, and does.
IgnoredFault == faults < MaxFaults /\ faults' = faults + 1 /\ ignored' = TRUE

-----------------------------------------------------------------------------
(* Power, and recovery's own part.                                           *)

(* What a power failure leaves of /cache: each file old or new, or of the    *)
(* script some of its lines; of one that is being formatted, maybe nothing.  *)
Survivors ==
  (IF disk.fs
     THEN {c \in Files : /\ c.script = disk.script \/ c.script <= cache.script
                         /\ c.marker \in {disk.marker, cache.marker}
                         /\ c.start \in {disk.start, cache.start}}
     ELSE {disk})
  \cup (IF pc \in {"formatCache", "formatOnly", "formatInstall"}
          THEN {Empty, Broken} ELSE {})

PowerFails ==
  /\ running # "off" /\ Fault
  /\ running' = "off"
  /\ \E c \in Survivors : cache' = c /\ disk' = c
  /\ boot' \in IF pc = "dd" THEN {boot, "torn", New} ELSE {boot}
  /\ system' \in IF pc = "formatSystem" THEN {system, "formatted"} ELSE {system}
  /\ pc' = "idle"
  /\ UNCHANGED <<mounted, pool>>

\* Recovery boots, mounts /cache, and looks for extendedcommand.
PowerOn ==
  /\ running = "off" /\ boot # "torn"
  /\ running' = boot
  /\ mounted' = disk.fs
  /\ pc' = IF disk.fs /\ disk.script > 0 THEN "extended" ELSE "idle"
  /\ UNCHANGED <<boot, cache, disk, systemVars, faultVars>>

(* run_and_remove_extendedcommand(): the script is removed, then run: "touch *)
(* /tmp/noreboot", "format /cache", "install_zip".                           *)
RunExtendedCommand ==
  /\ \/ Go("extended", "idle") /\ cache.script = 1
     \/ Go("extended", "formatOnly") /\ cache.script = 2
     \/ Go("extended", "formatInstall") /\ cache.script = 3
  /\ cache' = [cache EXCEPT !.script = 0]
  /\ UNCHANGED <<boot, disk, mounted, systemVars, running, faultVars>>

(* The zip's path in the third line is good or not: the correction of it for *)
(* old recoveries loses a slash.                                             *)
FormatCommand ==
  /\ \/ Go("formatOnly", "idle")
     \/ \E q \in {"check", "idle"} : Go("formatInstall", q)
  /\ cache' = Empty /\ disk' = Empty /\ mounted' = TRUE
  /\ UNCHANGED <<boot, systemVars, running, faultVars>>

\* The user has the zip installed, until it is.
UserInstalls ==
  /\ Go("idle", "check")
  /\ system # "installed"
  /\ UNCHANGED <<boot, cacheVars, systemVars, running, faultVars>>

-----------------------------------------------------------------------------
(* recoverycheck.sh.                                                         *)

Marked == mounted /\ cache.marker

\* The marker lets the check be skipped, once.
SkipCheck ==
  /\ Marked
  /\ Go("check", "lvm")
  /\ cache' = [cache EXCEPT !.marker = FALSE]
  /\ UNCHANGED <<boot, disk, mounted, systemVars, running, faultVars>>

\* The version decides; without the new image the installation is given up.
CheckVersion ==
  /\ ~Marked
  /\ \/ /\ ~NeedUpgrade(running)
        /\ Go("check", "lvm")
        /\ UNCHANGED faultVars
     \/ /\ NeedUpgrade(running)
        /\ Go("check", After.upgrade)
        /\ UNCHANGED faultVars
     \/ /\ NeedUpgrade(running)
        /\ Go("check", "idle")
        /\ Fault
  /\ UNCHANGED <<boot, cacheVars, systemVars, running>>

\* The kernel and recovery, to the boot partition.  The script does not look at
\* how dd ends: it goes on though nothing, or a part, was written.
FlashBoot ==
  /\ Go("dd", After.dd)
  /\ \/ boot' = New /\ UNCHANGED faultVars
     \/ boot' \in {boot, "torn"} /\ IgnoredFault
  /\ UNCHANGED <<cacheVars, systemVars, running>>

\* A format that fails leaves the file system that was there, or none.
UpgradeFormatsCache ==
  /\ Go("formatCache", After.formatCache)
  /\ \E format \in NeedFormatCache(running) :
       \/ ~format /\ UNCHANGED <<cacheVars, faultVars>>
       \/ /\ format /\ mounted' = FALSE
          /\ \/ cache' = Empty /\ disk' = Empty /\ UNCHANGED faultVars
             \/ cache' \in {cache, Broken} /\ disk' = cache' /\ Fault
  /\ UNCHANGED <<boot, systemVars, running>>

\* mount /cache, which fails if it is mounted, as it should be, or broken.
MountCache ==
  /\ Go("mount", After.mount)
  /\ \/ mounted' = (mounted \/ disk.fs) /\ UNCHANGED faultVars
     \/ UNCHANGED mounted /\ Fault
  /\ UNCHANGED <<boot, cache, disk, systemVars, running>>

\* A file is written to /cache, if that is mounted, and to memory otherwise.
Write(c) ==
  /\ cache' = IF mounted THEN c ELSE cache
  /\ UNCHANGED <<boot, disk, mounted, systemVars, running, faultVars>>

WriteScript ==
  \/ Go("line1", After.line1) /\ Write([cache EXCEPT !.script = 1])
  \/ Go("line2", After.line2) /\ Write([cache EXCEPT !.script = 2])
  \/ Go("line3", After.line3) /\ Write([cache EXCEPT !.script = 3])

TouchMarker ==
  /\ Go("marker", After.marker)
  /\ Write([cache EXCEPT !.marker = TRUE])

StartRecovery ==
  /\ Go("start", After.start)
  /\ IF NeedRecoveryPrecommand(running)
       THEN Write([cache EXCEPT !.start = TRUE])
       ELSE Write(cache)

\* A reboot that fails lets the script end with exit 0, and the installation
\* goes on under the recovery that was to be replaced.
Reboot ==
  /\ \/ /\ Go("reboot", "idle")
        /\ disk' = cache
        /\ running' = "off"
        /\ UNCHANGED faultVars
     \/ /\ Go("reboot", "lvm")
        /\ IgnoredFault
        /\ UNCHANGED <<disk, running>>
  /\ UNCHANGED <<boot, cache, mounted, systemVars>>

-----------------------------------------------------------------------------
(* updater.sh and the rest of the installation.                              *)

\* The partitions are made unless there is a system volume; the test of its
\* size, with an operator test does not have, never asks for it.  lvremove takes
\* the volumes of the group, if there is one.
CheckPool ==
  /\ \/ Go("lvm", "emmc") /\ "system" \in pool /\ UNCHANGED <<pool, faultVars>>
     \/ /\ Go("lvm", "group") /\ "system" \notin pool
        /\ \/ pool' = pool \cap {"group"} /\ UNCHANGED faultVars
           \/ UNCHANGED pool /\ Fault
  /\ UNCHANGED <<boot, cacheVars, system, running>>

\* vgcreate, lvcreate system, lvcreate data, make_ext4fs data: whatever fails,
\* the script goes on with the next.
MakePool ==
  /\ \E p \in Parts :
       /\ Go(p, NextPart[p])
       /\ \/ pool' = (IF CanMake(p) THEN pool \cup {p} ELSE pool) /\ UNCHANGED faultVars
          \/ UNCHANGED pool /\ Fault
  /\ UNCHANGED <<boot, cacheVars, system, running>>

MountInternalSdcard ==
  /\ \/ Go("emmc", "formatSystem") /\ UNCHANGED faultVars
     \/ Go("emmc", "idle") /\ Fault
  /\ UNCHANGED <<boot, cacheVars, systemVars, running>>

\* The system volume is formatted, if there is one; nobody looks at how.
FormatSystem ==
  /\ Go("formatSystem", "install")
  /\ \/ system' = (IF "system" \in pool THEN "formatted" ELSE system) /\ UNCHANGED faultVars
     \/ UNCHANGED system /\ Fault
  /\ UNCHANGED <<boot, cacheVars, pool, running>>

\* A recovery older than 4.3 may not be able to set the files' labels.
InstallSystem ==
  /\ Go("install", "idle")
  /\ system' \in IF "system" \notin pool THEN {system}
                ELSE {"installed"} \cup (IF running \in Old THEN {"formatted"} ELSE {})
  /\ UNCHANGED <<boot, cacheVars, pool, running, faultVars>>

-----------------------------------------------------------------------------
Scripts ==
  \/ RunExtendedCommand \/ FormatCommand
  \/ SkipCheck \/ CheckVersion \/ FlashBoot \/ UpgradeFormatsCache
  \/ MountCache \/ WriteScript \/ TouchMarker \/ StartRecovery \/ Reboot
  \/ CheckPool \/ MakePool \/ MountInternalSdcard \/ FormatSystem
  \/ InstallSystem

Next == PowerFails \/ PowerOn \/ UserInstalls \/ Scripts

Spec == Init /\ [][Next]_vars

(* Scripts run on, and the user powers on and tries again until it is done.  *)
FairSpec == Spec /\ WF_vars(Scripts) /\ WF_vars(PowerOn) /\ WF_vars(UserInstalls)

-----------------------------------------------------------------------------
\* Every variable has a value the code can give it.
TypeOK ==
  /\ boot \in Versions \cup {"torn"}
  /\ {cache, disk} \subseteq Files \cup {Broken}
  /\ mounted \in BOOLEAN
  /\ pool \subseteq Parts
  /\ system \in {"old", "formatted", "installed"}
  /\ running \in Versions \cup {"off"}
  /\ pc \in PCs
  /\ faults \in 0..MaxFaults
  /\ ignored \in BOOLEAN

\* Unless dd or reboot has failed unnoticed: however files are written back and
\* wherever the power fails, a marker is found only where the recovery to boot is
\* the new one (recoverycheck.sh:114).  After such a failure it is not: nothing
\* keeps the script from writing the marker beside an old recovery.
MarkerHonest == ~ignored /\ (cache.marker \/ disk.marker) => boot = New

\* Unless dd or reboot has failed unnoticed: no recovery older than 4.3 touches
\* the partitions or the system (recoverycheck.sh:7-9).  After such a failure one
\* does, since the script ends with exit 0.
OldTouchesNothing == [][~ignored /\ systemVars' # systemVars => running \notin Old]_vars

\* The installation gets done in the end, and stays done, with the power failing
\* and commands failing a bounded number of times, unless it fails in the dd
\* itself: no leftover of an interrupted attempt, and no marker or script read
\* twice, makes upgrade and reboot follow each other for ever.
InstallFinishes == <>[](system = "installed" \/ boot = "torn")
=============================================================================
