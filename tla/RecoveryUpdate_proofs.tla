----------------------- MODULE RecoveryUpdate_proofs -----------------------
(***************************************************************************)
(* Proofs about RecoveryUpdate, however often the power fails: type        *)
(* correctness and, unless dd or reboot fails unnoticed, that a marker is  *)
(* found only by the recovery it was meant for, and that an old recovery   *)
(* leaves the partitions alone.                                            *)
(***************************************************************************)
EXTENDS RecoveryUpdate, TLAPS

USE RecoveryAssumption DEF Upgrading, Old, New, Versions, NextPart, After,
  PCs, Installing, Go, Fault, IgnoredFault, cacheVars, systemVars, faultVars

\* A file system has files or is none.
LEMMA FilesType ==
  /\ Empty \in Files /\ ~Empty.marker /\ Empty.fs
  /\ Broken \notin Files /\ ~Broken.marker /\ Broken.fs = FALSE
  /\ \A c \in Files : c.fs = TRUE
<1>1. Empty \in Files /\ ~Empty.marker /\ Empty.fs
  BY DEF Files, Empty
<1>2. ~Broken.marker /\ Broken.fs = FALSE
  BY DEF Broken
<1>3. \A c \in Files : c.fs = TRUE
  BY DEF Files
<1>4. QED
  BY <1>1, <1>2, <1>3

\* After a dd that worked, the boot partition has the new recovery ...
Flashed == Upgrading \ {"dd"}
BootFollows == ~ignored /\ pc \in Flashed => boot = New

\* ... and an upgrade is what an old recovery does, before it may install.
OldUpgrades ==
  /\ pc \in Upgrading => running \in Old
  /\ ~ignored /\ pc \in Installing => running \notin Old
  /\ ~ignored /\ running \in Versions /\ running # boot => pc \in Flashed

\* A mounted /cache has a file system, and so has one with a script to run.
CacheLives ==
  /\ cache \in Files <=> disk \in Files
  /\ running # "off" /\ mounted => cache \in Files
  /\ running = "off" => cache = disk
  /\ pc = "extended" => mounted

RecoveryInv == CacheLives /\ TypeOK /\ MarkerHonest /\ BootFollows /\ OldUpgrades

\* The invariant holds when a recovery runs.
LEMMA RecoveryInit == Init => RecoveryInv
<1> SUFFICES ASSUME Init PROVE RecoveryInv
  OBVIOUS
<1>1. TypeOK
  <2>1. pool \in SUBSET Parts
    BY DEF Init
  <2>2. {cache, disk} \subseteq Files \cup {Broken} /\ mounted \in BOOLEAN
    BY FilesType DEF Init
  <2>3. running \in Versions /\ boot = running /\ faults \in 0..MaxFaults
    BY DEF Init
  <2>4. system = "old" /\ pc = "idle" /\ ignored \in BOOLEAN
    BY DEF Init
  <2>5. QED
    BY <2>1, <2>2, <2>3, <2>4 DEF TypeOK
<1>2. CacheLives /\ MarkerHonest
  BY FilesType DEF Init, CacheLives, MarkerHonest
<1>3. BootFollows /\ OldUpgrades
  BY DEF Init, BootFollows, OldUpgrades, Flashed
<1>4. QED
  BY <1>1, <1>2, <1>3 DEF RecoveryInv

\* A power failure leaves of /cache nothing that was not there.
LEMMA SurvivorsType ==
  ASSUME TypeOK, NEW c \in Survivors
  PROVE  /\ c \in Files \cup {Broken}
         /\ c.marker => cache.marker \/ disk.marker
BY FilesType DEF Survivors, TypeOK

\* What writing to a file of /cache does to them.
LEMMA ScriptWrite ==
  ASSUME NEW c \in Files, NEW n \in 0..3, NEW d, d = [c EXCEPT !.script = n]
  PROVE  d \in Files /\ d.marker = c.marker
BY DEF Files

\* The marker comes and goes without the rest ...
LEMMA MarkerWrite ==
  ASSUME NEW c \in Files, NEW b \in BOOLEAN, NEW d, d = [c EXCEPT !.marker = b]
  PROVE  d \in Files /\ d.marker = b
BY DEF Files

\* ... and so does .startrecovery.
LEMMA StartWrite ==
  ASSUME NEW c \in Files, NEW d, d = [c EXCEPT !.start = TRUE]
  PROVE  d \in Files /\ d.marker = c.marker
BY DEF Files

\* A write keeps the invariant of the files, if a new marker is an honest one.
LEMMA WriteFiles ==
  ASSUME RecoveryInv, running # "off", NEW c, Write(c),
         cache \in Files => c \in Files /\ (c.marker /\ ~ignored => cache.marker \/ boot = New)
  PROVE  /\ cache' \in Files \cup {Broken}
         /\ cache' \in Files <=> disk' \in Files
         /\ mounted => cache' \in Files
         /\ cache'.marker /\ ~ignored => cache.marker \/ boot = New
BY FilesType DEF Write, RecoveryInv, CacheLives, TypeOK

\* Every step keeps it.
LEMMA RecoveryStep == RecoveryInv /\ [Next]_vars => RecoveryInv'
<1> SUFFICES ASSUME RecoveryInv, [Next]_vars PROVE RecoveryInv'
  OBVIOUS
<1> USE FilesType DEF RecoveryInv, TypeOK, MarkerHonest, BootFollows, OldUpgrades,
                      Flashed, CacheLives
<1>0. /\ cache \in Files \cup {Broken} /\ disk \in Files \cup {Broken}
      /\ disk.fs \in BOOLEAN /\ (disk.fs => disk \in Files)
  <2>1. CASE disk \in Files
    BY <2>1
  <2>2. CASE disk = Broken
    BY <2>2
  <2>3. QED
    BY <2>1, <2>2
<1>1. CASE PowerFails
  <2>1. PICK c \in Survivors : cache' = c /\ disk' = c
    BY <1>1 DEF PowerFails
  <2>2. c \in Files \cup {Broken} /\ (c.marker /\ ~ignored => boot = New)
    BY <2>1, SurvivorsType
  <2>3. pc = "dd" /\ ~ignored => boot # New
    BY DEF PowerFails
  <2>4. boot' = boot \/ (pc = "dd" /\ boot' \in Versions \cup {"torn"})
    BY <1>1 DEF PowerFails
  <2>5. QED
    BY <1>1, <2>1, <2>2, <2>3, <2>4 DEF PowerFails
<1>2. CASE PowerOn
  BY <1>0, <1>2 DEF PowerOn
<1>3. CASE UserInstalls
  BY <1>3 DEF UserInstalls
<1>4. CASE RunExtendedCommand
  <2>1. cache' = [cache EXCEPT !.script = 0] /\ cache \in Files
    BY <1>4 DEF RunExtendedCommand
  <2>2. cache' \in Files /\ cache'.marker = cache.marker
    BY <2>1, ScriptWrite
  <2>3. QED
    BY <1>4, <2>2 DEF RunExtendedCommand
<1>5. CASE FormatCommand
  BY <1>5 DEF FormatCommand
<1>6. CASE SkipCheck
  <2>1. cache' = [cache EXCEPT !.marker = FALSE] /\ cache \in Files
    BY <1>6 DEF SkipCheck, Marked
  <2>2. cache' \in Files /\ cache'.marker = FALSE
    BY <2>1, MarkerWrite
  <2>3. QED
    BY <1>6, <2>2 DEF SkipCheck, Marked
<1>7. CASE CheckVersion
  BY <1>7 DEF CheckVersion, NeedUpgrade
<1>8. CASE FlashBoot
  <2>1. CASE boot' = New /\ UNCHANGED faultVars
    BY <1>8, <2>1 DEF FlashBoot
  <2>2. CASE boot' \in {boot, "torn"} /\ IgnoredFault
    BY <1>8, <2>2 DEF FlashBoot
  <2>3. QED
    BY <1>8, <2>1, <2>2 DEF FlashBoot
<1>9. CASE UpgradeFormatsCache
  <2>1. CASE UNCHANGED <<cacheVars, faultVars>>
    BY <1>9, <2>1 DEF UpgradeFormatsCache
  <2>2. CASE mounted' = FALSE /\ cache' = Empty /\ disk' = Empty /\ UNCHANGED faultVars
    BY <1>9, <2>2 DEF UpgradeFormatsCache
  <2>3. CASE mounted' = FALSE /\ cache' \in {cache, Broken} /\ disk' = cache' /\ Fault
    <3>1. UNCHANGED <<boot, pool, system, running, ignored>> /\ faults' \in 0..MaxFaults
      BY <1>9, <2>3 DEF UpgradeFormatsCache
    <3>2. running # "off" /\ pc = "formatCache" /\ pc' = "mount"
      BY <1>9 DEF UpgradeFormatsCache
    <3>3. cache' = disk' /\ (cache' = cache \/ cache' = Broken)
      BY <2>3
    <3>4. /\ cache' \in Files \cup {Broken} /\ disk' \in Files \cup {Broken}
          /\ cache' \in Files <=> disk' \in Files
          /\ cache'.marker \/ disk'.marker => cache.marker
      BY <1>0, <3>3
    <3>5. TypeOK'
      BY <2>3, <3>1, <3>2, <3>4
    <3>6. CacheLives'
      BY <2>3, <3>1, <3>2, <3>4
    <3>7. MarkerHonest' /\ BootFollows' /\ OldUpgrades'
      BY <3>1, <3>2, <3>4
    <3>8. QED
      BY <3>5, <3>6, <3>7
  <2>4. QED
    BY <1>9, <2>1, <2>2, <2>3 DEF UpgradeFormatsCache
<1>10. CASE MountCache
  <2>1. mounted' \in BOOLEAN /\ (mounted' => mounted \/ disk \in Files)
    <3>1. CASE mounted' = (mounted \/ disk.fs)
      BY <1>0, <3>1, Zenon
    <3>2. CASE UNCHANGED mounted
      BY <3>2
    <3>3. QED
      BY <1>10, <3>1, <3>2 DEF MountCache
  <2>2. QED
    BY <1>0, <1>10, <2>1 DEF MountCache
<1>11. CASE WriteScript
  <2>1. PICK n \in 1..3 : Write([cache EXCEPT !.script = n])
    BY <1>11 DEF WriteScript
  <2>2. running # "off" /\ pc \in {"line1", "line2", "line3"}
         /\ pc' \in {"line2", "line3", "marker"}
    BY <1>11 DEF WriteScript
  <2>3. PICK c : c = [cache EXCEPT !.script = n]
    OBVIOUS
  <2>4. cache \in Files => c \in Files /\ c.marker = cache.marker
    BY <2>3, ScriptWrite
  <2>5. QED
    BY <2>1, <2>2, <2>3, <2>4, WriteFiles DEF Write
<1>12. CASE TouchMarker
  <2>1. PICK c : c = [cache EXCEPT !.marker = TRUE] /\ Write(c)
    BY <1>12 DEF TouchMarker
  <2>2. cache \in Files => c \in Files
    BY <2>1, MarkerWrite
  <2>3. running # "off" /\ pc = "marker" /\ pc' = "start"
    BY <1>12 DEF TouchMarker
  <2>4. QED
    BY <2>1, <2>2, <2>3, WriteFiles DEF Write
<1>13. CASE StartRecovery
  <2>1. PICK c : c \in {cache, [cache EXCEPT !.start = TRUE]} /\ Write(c)
    BY <1>13 DEF StartRecovery
  <2>2. cache \in Files => c \in Files /\ c.marker = cache.marker
    BY <2>1, StartWrite
  <2>3. running # "off" /\ pc = "start" /\ pc' = "reboot"
    BY <1>13 DEF StartRecovery
  <2>4. QED
    BY <2>1, <2>2, <2>3, WriteFiles DEF Write
<1>14. CASE Reboot
  <2>1. CASE Go("reboot", "idle") /\ disk' = cache /\ running' = "off" /\ UNCHANGED faultVars
    BY <1>14, <2>1 DEF Reboot
  <2>2. CASE Go("reboot", "lvm") /\ IgnoredFault /\ UNCHANGED <<disk, running>>
    BY <1>14, <2>2 DEF Reboot
  <2>3. QED
    BY <1>14, <2>1, <2>2 DEF Reboot
<1>15. CASE CheckPool
  <2>1. pool' \subseteq Parts /\ faults' \in 0..MaxFaults /\ UNCHANGED ignored
    <3>1. pool' = pool \/ pool' = pool \cap {"group"}
      BY <1>15 DEF CheckPool
    <3>2. UNCHANGED faultVars \/ Fault
      BY <1>15 DEF CheckPool
    <3>3. QED
      BY <3>1, <3>2
  <2>2. running # "off" /\ pc = "lvm" /\ pc' \in {"emmc", "group"}
    BY <1>15 DEF CheckPool
  <2>3. UNCHANGED <<boot, cache, disk, mounted, system, running>>
    BY <1>15 DEF CheckPool
  <2>4. QED
    BY <2>1, <2>2, <2>3
<1>16. CASE MakePool
  <2>1. PICK p \in Parts : Go(p, NextPart[p])
    BY <1>16 DEF MakePool
  <2>2. pool' \subseteq Parts /\ faults' \in 0..MaxFaults /\ UNCHANGED ignored
    <3>1. PICK q \in Parts : pool' = pool \/ pool' = pool \cup {q}
      BY <1>16 DEF MakePool
    <3>2. UNCHANGED faultVars \/ Fault
      BY <1>16 DEF MakePool
    <3>3. QED
      BY <3>1, <3>2
  <2>3. running # "off" /\ pc \in Parts /\ pc' \in {"system", "data", "fs", "emmc"}
    BY <2>1 DEF Parts
  <2>4. UNCHANGED <<boot, cache, disk, mounted, system, running>>
    BY <1>16 DEF MakePool
  <2>5. pc' \in Installing /\ pc \in Installing
    BY <2>3 DEF Parts
  <2>6. QED
    BY <2>2, <2>3, <2>4, <2>5
<1>17. CASE MountInternalSdcard
  BY <1>17 DEF MountInternalSdcard
<1>18. CASE FormatSystem
  BY <1>18 DEF FormatSystem
<1>19. CASE InstallSystem
  BY <1>19 DEF InstallSystem
<1>20. CASE UNCHANGED vars
  BY <1>20 DEF vars
<1>21. QED
  BY <1>1, <1>2, <1>3, <1>4, <1>5, <1>6, <1>7, <1>8, <1>9, <1>10, <1>11, <1>12,
     <1>13, <1>14, <1>15, <1>16, <1>17, <1>18, <1>19, <1>20 DEF Next, Scripts

\* The invariant, and so its parts.
LEMMA RecoveryInvariant == Spec => []RecoveryInv
<1>1. QED
  BY RecoveryInit, RecoveryStep, PTL DEF Spec

\* However often the power fails, every variable keeps its type.
THEOREM RecoveryTypeCorrect == Spec => []TypeOK
<1>1. RecoveryInv => TypeOK
  BY DEF RecoveryInv
<1>2. QED
  BY <1>1, RecoveryInvariant, PTL

\* As long as neither dd nor reboot has failed unnoticed, a marker is found, in memory
\* or on flash, only where the recovery to boot is new (recoverycheck.sh:114), whatever
\* a power failure has left of /cache and whatever other commands fail.
THEOREM MarkerHonestHolds == Spec => []MarkerHonest
<1>1. RecoveryInv => MarkerHonest
  BY DEF RecoveryInv
<1>2. QED
  BY <1>1, RecoveryInvariant, PTL

\* As long as neither dd nor reboot has failed unnoticed, no recovery older than 4.3
\* changes the partitions or the system: what lets it skip the upgrade is a marker,
\* and that only a new recovery finds.
THEOREM OldTouchesNothingHolds == Spec => OldTouchesNothing
<1>1. RecoveryInv /\ [Next]_vars => [~ignored /\ systemVars' # systemVars => running \notin Old]_vars
  <2> SUFFICES ASSUME RecoveryInv, Next, ~ignored, systemVars' # systemVars PROVE running \notin Old
    BY DEF vars
  <2> USE DEF RecoveryInv, OldUpgrades
  <2>1. CASE PowerFails
    BY <2>1 DEF PowerFails
  <2>2. CASE CheckPool \/ MakePool
    <3>1. pc = "lvm" \/ pc \in Parts
      BY <2>2 DEF CheckPool, MakePool
    <3>2. pc \in Installing
      BY <3>1 DEF Parts
    <3>3. QED
      BY <3>2
  <2>3. CASE FormatSystem \/ InstallSystem
    BY <2>3 DEF FormatSystem, InstallSystem
  <2>4. CASE PowerOn \/ UserInstalls \/ RunExtendedCommand \/ FormatCommand \/ SkipCheck
    BY <2>4 DEF PowerOn, UserInstalls, RunExtendedCommand, FormatCommand, SkipCheck
  <2>5. CASE CheckVersion \/ FlashBoot \/ UpgradeFormatsCache \/ MountCache \/ Reboot
             \/ MountInternalSdcard
    BY <2>5 DEF CheckVersion, FlashBoot, UpgradeFormatsCache, MountCache, Reboot,
                MountInternalSdcard
  <2>6. CASE WriteScript \/ TouchMarker \/ StartRecovery
    BY <2>6 DEF WriteScript, TouchMarker, StartRecovery, Write
  <2>7. QED
    BY <2>1, <2>2, <2>3, <2>4, <2>5, <2>6 DEF Next, Scripts
<1>2. QED
  BY <1>1, RecoveryInvariant, PTL DEF Spec, OldTouchesNothing
=============================================================================
