----------------------------- MODULE FirstBoot -----------------------------
(***************************************************************************)
(* The first boots of a board: 95-resize of the initrd (init-resize.sh)    *)
(* and resize-helper make the file systems fill their partitions,          *)
(* mount-partitions mounts them and userfs-cleanup-package drops the       *)
(* packages of a user partition that the board lacks.  They run one after  *)
(* the other; what comes between any two steps is a power cut.             *)
(*                                                                         *)
(* A file that a script makes or removes is first changed in memory: its   *)
(* variable is "cached" until the root file system is written back, and a  *)
(* power cut undoes it.                                                    *)
(***************************************************************************)
EXTENDS Naturals, FiniteSets

CONSTANTS MountParts, \* MOUNT_PARTITIONS_LIST: "boot", "vendor", "user", and a vendor's own
          Boards,     \* what the board is, see BoardType
          MaxBoots,   \* bound: the boots
          MaxCuts,    \* bound: those ended by a power cut
          MaxFails    \* bound: the commands that fail

\* Those that 95-resize knows by their label and resize-helper by their path.
Known == {"root", "boot", "vendor", "user"}

\* Where the root file system is; whether the command line names its device, and
\* not its UUID or label; whether there is an initrd, systemd-growfs and findmnt;
\* the partitions that there are besides the root, and whether a NAND's user
\* volume is called userfs, and not user.
BoardType ==
  [root : {"mmc", "nand", "nfs"}, named : BOOLEAN, initrd : BOOLEAN, growfs : BOOLEAN,
   findmnt : BOOLEAN, present : SUBSET MountParts, userfs : BOOLEAN]

ASSUME FirstBootAssumption ==
  /\ "root" \notin MountParts
  /\ Boards \subseteq BoardType
  /\ \A b \in Boards : b.root = "nfs" => b.present = {}
  /\ MaxBoots \in Nat /\ MaxCuts \in Nat /\ MaxFails \in Nat

VARIABLES
  board,
  grown, broken,   \* the file systems that fill their partition; those that e2fsck has to correct
  mark,            \* /etc/.resized: "none", "cached", "disk"
  helper, cleanup, \* are the two services enabled? "on", "cached" (disabled), "off"
  packages,        \* those in /usr/local: "kept", "partly" and "purged"
  pc,              \* what runs, "off" when there is no power
  todo, part,      \* the partitions a loop has still to visit, the one in hand
  mounted,
  boots, cuts, fails,
  worked,          \* History: the boots in which resize-helper went on to resize,
  repaired         \* the file systems that e2fsck corrected

disk    == <<grown, broken, mark, helper, cleanup, packages>>
loop    == <<todo, part>>
history == <<boots, cuts, fails, worked, repaired>>
vars    == <<board, disk, pc, loop, mounted, history>>

Fs == board.present \union {"root"}

\* get_type, in both scripts: findmnt says what the root is, or the command line.
RootKnown == board.root \in {"mmc", "nand"} /\ (board.findmnt \/ board.named)

\* found_devices of mount-partitions.sh: "fs can be not present in partition name".
Mountable == IF RootKnown THEN board.present ELSE {}

Init ==
  /\ board \in Boards
  /\ grown = {} /\ broken = {} /\ mark = "none"
  /\ helper = "on" /\ cleanup = "on" /\ packages = "kept"
  /\ pc = "off" /\ todo = {} /\ part = "root" /\ mounted = {}
  /\ boots = 0 /\ cuts = 0 /\ fails = 0 /\ worked = {} /\ repaired = {}

\* A command that fails: a bad medium, a device that is not there yet.
Fail == fails < MaxFails /\ fails' = fails + 1

-----------------------------------------------------------------------------
(* The initrd: init-resize.sh *)

\* Mutation of PowerOn: mount-partitions.sh does not test that the device exists.
PowerOnBlind ==
  /\ pc = "off"
  /\ boots' = boots + 1
  /\ mounted' = {"root"}
  /\ IF board.initrd /\ board.root = "mmc" /\ mark = "none"
     THEN pc' = "label" /\ todo' = Fs
     ELSE pc' = "mount" /\ todo' = MountParts
  /\ UNCHANGED <<board, disk, part, cuts, fails, worked, repaired>>

\* The root is mounted.  Without a block device that bootparam_root names, or
\* with .resized, there is nothing to do.
PowerOn ==
  /\ pc = "off"
  /\ boots' = boots + 1
  /\ mounted' = {"root"}
  /\ IF board.initrd /\ board.root = "mmc" /\ mark = "none"
     THEN pc' = "label" /\ todo' = Fs
     ELSE pc' = "mount" /\ todo' = Mountable
  /\ UNCHANGED <<board, disk, part, cuts, fails, worked, repaired>>

\* Mutation of Checked: the root file system is checked as the others are.
CheckedAll(p) == p \in Known

\* The labels whose file system is given to e2fsck before resize2fs.
Checked(p) == p \in Known \ {"root"}

\* The label decides.
Label ==
  /\ pc = "label"
  /\ \E p \in todo :
       /\ todo' = todo \ {p} /\ part' = p
       /\ pc' = IF Checked(p) THEN "fsck" ELSE IF p = "root" THEN "resize2fs" ELSE "label"
  /\ UNCHANGED <<board, disk, mounted, history>>

\* e2fsck && resize2fs: "errors corrected" is no success.
Fsck ==
  /\ pc = "fsck"
  /\ broken' = broken \ {part}
  /\ IF part \in broken
     THEN pc' = "label" /\ repaired' = repaired \union {part}
     ELSE pc' = "resize2fs" /\ UNCHANGED repaired
  /\ UNCHANGED <<board, grown, mark, helper, cleanup, packages, loop, mounted, boots, cuts, fails,
                 worked>>

Resize2fs ==
  /\ pc = "resize2fs"
  /\ \/ grown' = grown \union {part} /\ UNCHANGED fails
     \/ Fail /\ UNCHANGED grown
  /\ pc' = "label"
  /\ UNCHANGED <<board, broken, mark, helper, cleanup, packages, loop, mounted, boots, cuts, worked,
                 repaired>>

\* Mutation of Touch: before the loop is through.
TouchFirst ==
  /\ pc = "label"
  /\ mark' = "cached"
  /\ IF todo = {} THEN pc' = "mount" /\ todo' = Mountable ELSE UNCHANGED <<pc, todo>>
  /\ UNCHANGED <<board, grown, broken, helper, cleanup, packages, part, mounted, history>>

\* touch .resized, whatever the loop did.  The initrd hands over to systemd.
Touch ==
  /\ pc = "label" /\ todo = {}
  /\ mark' = "cached"
  /\ pc' = "mount" /\ todo' = Mountable
  /\ UNCHANGED <<board, grown, broken, helper, cleanup, packages, part, mounted, history>>

-----------------------------------------------------------------------------
(* mount-partitions.service, then resize-helper.service *)

\* mount-partitions.sh start: a failure is nobody's business.
Mount ==
  /\ pc = "mount"
  /\ \E p \in todo :
       /\ todo' = todo \ {p}
       /\ \/ mounted' = mounted \union {p} /\ UNCHANGED fails
          \/ p \in broken /\ UNCHANGED <<mounted, fails>>
          \/ Fail /\ UNCHANGED mounted
  /\ UNCHANGED <<board, disk, pc, part, boots, cuts, worked, repaired>>

\* The next service, if it is enabled.
Mounted ==
  /\ pc = "mount" /\ todo = {}
  /\ pc' = IF helper = "on" THEN "disable" ELSE "multi_user"
  /\ UNCHANGED <<board, disk, loop, mounted, history>>

\* "disable service to be sure it will be executed only one time".  The script
\* goes on if it is not disabled.
Disable ==
  /\ pc = "disable"
  /\ \/ helper' = "cached" /\ UNCHANGED fails
     \/ Fail /\ UNCHANGED helper
  /\ pc' = "sync"
  /\ UNCHANGED <<board, grown, broken, mark, cleanup, packages, loop, mounted, boots, cuts, worked,
                 repaired>>

\* What is written back, by sync, by the kernel in its time or by a shutdown.
Written ==
  /\ mark' = IF mark = "cached" THEN "disk" ELSE mark
  /\ helper' = IF helper = "cached" THEN "off" ELSE helper
  /\ cleanup' = IF cleanup = "cached" THEN "off" ELSE cleanup

\* Mutation of Sync: nothing is written.
SyncNothing ==
  /\ pc = "sync"
  /\ pc' = IF board.root = "nfs" \/ mark # "none" THEN "multi_user" ELSE "work"
  /\ UNCHANGED <<board, disk, loop, mounted, history>>

\* Mutation of Sync: no look at .resized.
SyncBlind ==
  /\ pc = "sync"
  /\ Written
  /\ pc' = IF board.root = "nfs" THEN "multi_user" ELSE "work"
  /\ UNCHANGED <<board, grown, broken, packages, loop, mounted, history>>

\* sync; the script ends on an NFS root or if there is .resized.
Sync ==
  /\ pc = "sync"
  /\ Written
  /\ pc' = IF board.root = "nfs" \/ mark # "none" THEN "multi_user" ELSE "work"
  /\ UNCHANGED <<board, grown, broken, packages, loop, mounted, history>>

\* Is mount-partitions.sh stop called?  With systemd-growfs, if /boot is not
\* seen mounted ("force to mount partitions").
Unmounts == board.growfs => ~ (board.findmnt /\ "boot" \in mounted)

\* Mutation of Work: systemd-growfs goes to the root only.
WorkRoot ==
  /\ pc = "work"
  /\ worked' = worked \union {boots}
  /\ mounted' = IF Unmounts THEN {"root"} ELSE mounted
  /\ todo' = IF board.root # "mmc" THEN {} ELSE IF board.growfs THEN {"root"} ELSE mounted
  /\ pc' = "grow"
  /\ UNCHANGED <<board, disk, part, boots, cuts, fails, repaired>>

\* systemd-growfs goes to the four mount points, resize2fs to what was mounted
\* as ext4 when the script began.
Work ==
  /\ pc = "work"
  /\ worked' = worked \union {boots}
  /\ mounted' = IF Unmounts THEN {"root"} ELSE mounted
  /\ todo' = IF board.root # "mmc" THEN {}
             ELSE IF board.growfs THEN mounted' \intersect Known ELSE mounted
  /\ pc' = "grow"
  /\ UNCHANGED <<board, disk, part, boots, cuts, fails, repaired>>

\* resize2fs may refuse what is unmounted and was not checked since.
Grow ==
  /\ pc = "grow"
  /\ \E p \in todo :
       /\ todo' = todo \ {p}
       /\ \/ grown' = grown \union {p} /\ UNCHANGED fails
          \/ p \notin mounted /\ UNCHANGED <<grown, fails>>
          \/ Fail /\ UNCHANGED grown
  /\ UNCHANGED <<board, broken, mark, helper, cleanup, packages, pc, part, mounted, boots, cuts,
                 worked, repaired>>

Grown ==
  /\ pc = "grow" /\ todo = {}
  /\ pc' = "multi_user"
  /\ UNCHANGED <<board, disk, loop, mounted, history>>

-----------------------------------------------------------------------------
(* userfs-cleanup-package.service *)

\* Mutation of MultiUser: the service is disabled before it runs.
MultiUserFirst ==
  /\ pc = "multi_user"
  /\ IF cleanup = "on" THEN pc' = "find" /\ cleanup' = "cached" ELSE pc' = "up" /\ UNCHANGED cleanup
  /\ UNCHANGED <<board, grown, broken, mark, helper, packages, loop, mounted, history>>

\* The service runs, if it is enabled.
MultiUser ==
  /\ pc = "multi_user"
  /\ pc' = IF cleanup = "on" THEN "find" ELSE "up"
  /\ UNCHANGED <<board, disk, loop, mounted, history>>

\* Mutation of Found: the partition has to be mounted.
FoundMounted == RootKnown /\ "user" \in mounted /\ (board.root = "nand" => board.userfs)

\* found_devices of the clean-up looks for userfs only, on a NAND too.  It finds
\* none with "nfs": findmnt has no name for it, and without findmnt the
\* assignment to $_device is no assignment.
Found == RootKnown /\ "user" \in board.present /\ (board.root = "nand" => board.userfs)

\* No user partition: "we need to cleanup apt database".
Find ==
  /\ pc = "find"
  /\ pc' = IF Found THEN "cleaned" ELSE "purge"
  /\ UNCHANGED <<board, disk, loop, mounted, history>>

\* apt-get purge, package after package.
Purge ==
  /\ pc = "purge"
  /\ \/ packages' = "purged" /\ pc' = "cleaned" /\ UNCHANGED fails
     \/ packages = "kept" /\ packages' = "partly" /\ UNCHANGED <<pc, fails>>
     \/ packages = "kept" /\ Fail /\ pc' = "cleaned" /\ UNCHANGED packages
     \* Interrupted once, dpkg may want to be repaired by hand.
     \/ packages = "partly" /\ cuts > 0 /\ pc' = "cleaned" /\ UNCHANGED <<packages, fails>>
  /\ UNCHANGED <<board, grown, broken, mark, helper, cleanup, loop, mounted, boots, cuts, worked,
                 repaired>>

\* ExecStartPost, whatever ExecStart returned.
DisableCleanup ==
  /\ pc = "cleaned"
  /\ cleanup' = "cached"
  /\ pc' = "up"
  /\ UNCHANGED <<board, grown, broken, mark, helper, packages, loop, mounted, history>>

-----------------------------------------------------------------------------
(* The power *)

WriteBack ==
  /\ pc # "off" /\ "cached" \in {mark, helper, cleanup}
  /\ Written
  /\ UNCHANGED <<board, grown, broken, packages, pc, loop, mounted, history>>

\* What is mounted, or resized while it is not, may be in need of e2fsck.
AtRisk ==
  (mounted \union (IF pc = "resize2fs" THEN {part} ELSE {})
           \union (IF pc = "grow" THEN todo ELSE {})) \ {"root"}

PowerCut ==
  /\ pc # "off" /\ cuts < MaxCuts /\ boots < MaxBoots
  /\ cuts' = cuts + 1
  /\ \E b \in SUBSET AtRisk : broken' = broken \union b
  /\ mark' = IF mark = "cached" THEN "none" ELSE mark
  /\ helper' = IF helper = "cached" THEN "on" ELSE helper
  /\ cleanup' = IF cleanup = "cached" THEN "on" ELSE cleanup
  /\ pc' = "off" /\ mounted' = {} /\ todo' = {} /\ part' = "root"
  /\ UNCHANGED <<board, grown, packages, boots, fails, worked, repaired>>

\* A shutdown unmounts, and writes back.
Reboot ==
  /\ pc = "up" /\ boots < MaxBoots
  /\ Written
  /\ pc' = "off" /\ mounted' = {} /\ todo' = {} /\ part' = "root"
  /\ UNCHANGED <<board, grown, broken, packages, history>>

Boot ==
  \/ PowerOn \/ Label \/ Fsck \/ Resize2fs \/ Touch \/ Mount \/ Mounted \/ Disable \/ Sync \/ Work
  \/ Grow \/ Grown \/ MultiUser \/ Find \/ Purge \/ DisableCleanup

Next == Boot \/ WriteBack \/ PowerCut \/ Reboot

\* A board that has power boots.
Spec == Init /\ [][Next]_vars /\ WF_vars(Boot)

-----------------------------------------------------------------------------
(* Properties. *)

Places ==
  {"off", "label", "fsck", "resize2fs", "mount", "disable", "sync", "work", "grow", "multi_user",
   "find", "purge", "cleaned", "up"}

\* Type correctness.
TypeOK ==
  /\ board \in Boards
  /\ grown \subseteq Fs /\ broken \subseteq Fs /\ repaired \subseteq Fs
  /\ mark \in {"none", "cached", "disk"}
  /\ helper \in {"on", "cached", "off"} /\ cleanup \in {"on", "cached", "off"}
  /\ packages \in {"kept", "partly", "purged"}
  /\ pc \in Places
  /\ todo \subseteq Fs /\ part \in Fs /\ mounted \subseteq Fs
  /\ boots \in Nat /\ cuts \in 0 .. MaxCuts /\ fails \in 0 .. MaxFails
  /\ worked \subseteq 1 .. boots

\* resize-helper resizes in one boot at most, whenever the power is cut:
\* "disable service to be sure it will be executed only one time"; and in one
\* more for each time that its disabling failed.
ExecutedOnce == Cardinality(worked) <= 1 + fails

\* e2fsck -y, and the resize2fs after it, never see a mounted file system other
\* than by resize2fs on the root.
OfflineOnly == pc \in {"fsck", "resize2fs"} /\ part \in mounted => pc = "resize2fs" /\ part = "root"

\* .resized keeps every later boot from resizing anything; it is there only when
\* every labelled file system fills its partition, was corrected, which
\* makes 95-resize skip it, or a command failed.
MarkAfterWork ==
  mark # "none" => \A p \in Fs \intersect Known : p \in grown \union repaired \/ fails > 0

\* A board that is left alone is resized by the end of its first boot: by
\* 95-resize, or else by resize-helper; which, of more than the root, is sure
\* only with systemd-growfs and a mounted /boot.
GrownIfLeftAlone ==
  pc \in {"multi_user", "up"} /\ board.root = "mmc" /\ cuts = 0 /\ fails = 0 =>
    IF board.initrd \/ (board.growfs /\ board.findmnt /\ "boot" \in board.present)
    THEN Fs \intersect Known \subseteq grown
    ELSE "root" \in grown

\* A running board whose root's device get_type knows has all its partitions
\* mounted, unless a mount failed or resize-helper, on a board without .resized,
\* unmounted them in this boot: nobody mounts them again before the next.
MountedUnlessHelper ==
  pc = "up" /\ RootKnown =>
    \/ board.present \ broken \subseteq mounted
    \/ fails > 0
    \/ /\ boots \in worked /\ mark = "none"
       /\ board.growfs /\ board.findmnt => "boot" \notin board.present \ broken

\* A NAND's user volume that mount-partitions.sh mounts and the clean-up misses.
ShortName == board.root = "nand" /\ "user" \in board.present /\ ~ board.userfs

\* The packages of /usr/local are purged only if the board has no user partition
\* that mount-partitions.sh would mount, whether it is mounted or not, or has one
\* that the two scripts call by different names; and the clean-up is given up
\* only after it was tried.
PurgedIfAbsent ==
  /\ packages # "kept" => "user" \notin Mountable \/ ShortName
  /\ cleanup # "on" /\ packages = "kept" => fails > 0 \/ "user" \in Mountable

\* With an initrd, power cuts only delay: every labelled file system comes to
\* fill its partition, or was corrected by e2fsck, which skips it for good.
CutsOnlyDelay ==
  \A p \in Known :
    board.root = "mmc" /\ board.initrd /\ p \in Fs ~> p \in grown \union repaired \/ fails > 0

\* However often it is interrupted, the clean-up of a board without a user
\* partition is done in the end, or dpkg gave up half-way.
CleanedInTheEnd ==
  board.root # "nfs" /\ "user" \notin board.present ~>
    packages = "purged" \/ (packages = "partly" /\ cuts > 0 /\ cleanup # "on") \/ fails > 0

\* What the script says of an NFS root: "nfs file system, do nothing".
NfsUntouched == board.root = "nfs" => packages = "kept"
=============================================================================
