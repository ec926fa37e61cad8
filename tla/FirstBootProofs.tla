--------------------------- MODULE FirstBootProofs ---------------------------
(***************************************************************************)
(* What holds of the first boots whatever the board, the partitions and    *)
(* the number of boots, power cuts and failing commands, by one inductive  *)
(* invariant, FirstBootInv.                                                *)
(***************************************************************************)
EXTENDS FirstBoot, FiniteSetTheorems, TLAPS

\* Numbers: a board that runs was booted.
Counted == boots \in Nat /\ (pc # "off" => boots > 0)

\* A resize-helper that will, or may after a power cut, run again has not gone on
\* to resize more often than its disabling failed.
OnceInv ==
  /\ helper # "off" \/ pc \in {"sync", "work"} => Cardinality(worked) <= fails
  /\ pc \in {"sync", "work"} /\ helper = "on" => Cardinality(worked) < fails
  /\ pc = "disable" => helper = "on"
  /\ pc = "work" => helper # "cached"

\* Nothing but the root is mounted while 95-resize runs.
OfflineInv ==
  /\ pc \in {"label", "fsck", "resize2fs"} => mounted = {"root"}
  /\ pc = "fsck" => part # "root"

\* What 95-resize is done with.
Done(p) == p \in grown \union repaired \/ fails > 0

MarkInv ==
  /\ pc = "label" => \A p \in (Fs \intersect Known) \ todo : Done(p)
  /\ pc \in {"fsck", "resize2fs"} =>
       \A p \in (Fs \intersect Known) \ (todo \union {part}) : Done(p)

\* The clean-up was tried, or is not wanted.
Tried == Found \/ packages # "kept" \/ fails > 0

PurgeInv ==
  /\ packages # "kept" \/ pc = "purge" => ~ Found
  /\ cleanup # "on" \/ pc = "cleaned" => Tried

\* What is mounted: all there is, unless a mount failed or resize-helper undid it.
Unmounted ==
  \/ fails > 0
  \/ /\ boots \in worked /\ mark = "none"
     /\ board.growfs /\ board.findmnt => "boot" \notin board.present \ broken

MountInv == RootKnown =>
  /\ pc = "mount" => (board.present \ broken) \ todo \subseteq mounted \/ fails > 0
  /\ pc \in {"disable", "sync", "work"} => board.present \ broken \subseteq mounted \/ fails > 0
  /\ pc = "work" => mark = "none"
  /\ pc \in {"grow", "multi_user", "find", "purge", "cleaned", "up"} =>
       board.present \ broken \subseteq mounted \/ Unmounted

\* With systemd-growfs and a mounted /boot, resize-helper visits all the partitions.
VisitsAll == board.growfs /\ board.findmnt /\ "boot" \in board.present

Outcome ==
  IF board.initrd \/ VisitsAll THEN Fs \intersect Known \subseteq grown ELSE "root" \in grown

\* A board that was left alone so far.
AloneInv == board.root = "mmc" /\ cuts = 0 /\ fails = 0 =>
  /\ broken = {} /\ repaired = {}
  /\ pc \notin {"off", "label", "fsck", "resize2fs"} /\ board.initrd => mark # "none"
  /\ pc = "mount" => "root" \in mounted /\ (RootKnown => Fs \ todo \subseteq mounted)
  /\ pc \in {"disable", "sync", "work"} =>
       "root" \in mounted /\ (RootKnown => Fs \subseteq mounted)
  /\ pc \in {"work", "grow"} => ~ board.initrd
  /\ pc = "grow" =>
       /\ "root" \in mounted \intersect (grown \union todo)
       /\ VisitsAll => Fs \subseteq mounted /\ Fs \intersect Known \subseteq grown \union todo
  /\ pc \in {"multi_user", "find", "purge", "cleaned", "up"} => Outcome
  /\ helper # "on" /\ pc \notin {"sync", "work", "grow"} => Outcome

FirstBootInv ==
  /\ TypeOK /\ Counted /\ OnceInv /\ ExecutedOnce /\ OfflineInv
  /\ MarkInv /\ MarkAfterWork /\ PurgeInv
  /\ MountInv /\ AloneInv

-----------------------------------------------------------------------------
LEMMA FirstBootInvInit == Init => FirstBootInv
<1> SUFFICES ASSUME Init PROVE FirstBootInv
  OBVIOUS
<1>1. TypeOK /\ Counted BY FirstBootAssumption DEF Init, TypeOK, Counted, Places, Fs, BoardType
<1>2. OnceInv /\ ExecutedOnce /\ OfflineInv
  BY FS_EmptySet DEF Init, OnceInv, ExecutedOnce, OfflineInv
<1>3. MarkInv /\ MarkAfterWork BY DEF Init, MarkInv, MarkAfterWork
<1>4. PurgeInv BY DEF Init, PurgeInv
<1>5. MountInv /\ AloneInv BY DEF Init, MountInv, AloneInv
<1> QED BY <1>1, <1>2, <1>3, <1>4, <1>5 DEF FirstBootInv

\* The boots in which resize-helper resizes can be counted.
LEMMA WorkedFinite ==
  ASSUME TypeOK
  PROVE  IsFiniteSet(worked) /\ Cardinality(worked) \in Nat
<1>1. IsFiniteSet(1 .. boots) BY FS_Interval DEF TypeOK
<1>2. IsFiniteSet(worked) BY <1>1, FS_Subset DEF TypeOK
<1> QED BY <1>2, FS_CardinalityType

\* Type correctness, action by action.
LEMMA TypeStep ==
  ASSUME FirstBootInv, [Next]_vars
  PROVE  TypeOK' /\ Counted'
<1> USE DEF FirstBootInv, TypeOK, Counted, Fs
<1>1. CASE PowerOn
  BY <1>1, FirstBootAssumption DEF PowerOn, Mountable, RootKnown,
     Places, BoardType, disk, loop, history
<1>2. CASE Label
  BY <1>2, FirstBootAssumption DEF Label, Checked, Places, BoardType, disk, loop, history
<1>3. CASE Fsck
  BY <1>3, FirstBootAssumption DEF Fsck, Places, BoardType, disk, loop, history
<1>4. CASE Resize2fs
  BY <1>4, FirstBootAssumption DEF Resize2fs, Fail, Places, BoardType, disk, loop, history
<1>5. CASE Touch
  BY <1>5, FirstBootAssumption DEF Touch, Mountable, RootKnown,
     Places, BoardType, disk, loop, history
<1>6. CASE Mount
  BY <1>6, FirstBootAssumption DEF Mount, Fail, Places, BoardType, disk, loop, history
<1>7. CASE Mounted
  BY <1>7, FirstBootAssumption DEF Mounted, Places, BoardType, disk, loop, history
<1>8. CASE Disable
  BY <1>8, FirstBootAssumption DEF Disable, Fail, Places, BoardType, disk, loop, history
<1>9. CASE Sync
  BY <1>9, FirstBootAssumption DEF Sync, Written, Places, BoardType, disk, loop, history
<1>10. CASE Work
  BY <1>10, FirstBootAssumption DEF Work, Unmounts, Places, BoardType, disk, loop, history
<1>11. CASE Grow
  BY <1>11, FirstBootAssumption DEF Grow, Fail, Places, BoardType, disk, loop, history
<1>12. CASE Grown
  BY <1>12, FirstBootAssumption DEF Grown, Places, BoardType, disk, loop, history
<1>13. CASE MultiUser
  BY <1>13, FirstBootAssumption DEF MultiUser, Places, BoardType, disk, loop, history
<1>14. CASE Find
  BY <1>14, FirstBootAssumption DEF Find, Found, Places, BoardType, disk, loop, history
<1>15. CASE Purge
  BY <1>15, FirstBootAssumption DEF Purge, Fail, Places, BoardType, disk, loop, history
<1>16. CASE DisableCleanup
  BY <1>16, FirstBootAssumption DEF DisableCleanup, Places, BoardType, disk, loop, history
<1>17. CASE WriteBack
  BY <1>17, FirstBootAssumption DEF WriteBack, Written, Places, BoardType, disk, loop, history
<1>18. CASE PowerCut
  BY <1>18, FirstBootAssumption DEF PowerCut, AtRisk, Places, BoardType, disk, loop, history
<1>19. CASE Reboot
  BY <1>19, FirstBootAssumption DEF Reboot, Written, Places, BoardType, disk, loop, history
<1>20. CASE UNCHANGED vars
  BY <1>20 DEF vars, Places, BoardType, disk, loop, history
<1> QED BY <1>1, <1>2, <1>3, <1>4, <1>5, <1>6, <1>7, <1>8, <1>9, <1>10, <1>11, <1>12,
      <1>13, <1>14, <1>15, <1>16, <1>17, <1>18, <1>19, <1>20 DEF Next, Boot

\* resize-helper resizes once.
LEMMA OnceStep ==
  ASSUME FirstBootInv, [Next]_vars
  PROVE  OnceInv' /\ ExecutedOnce'
<1> USE DEF FirstBootInv, OnceInv, ExecutedOnce, TypeOK
<1>0. fails \in Nat /\ Cardinality(worked) \in Nat /\ IsFiniteSet(worked)
  BY WorkedFinite
<1> USE <1>0
<1>1. CASE PowerOn
  BY <1>1 DEF PowerOn, Mountable, RootKnown,
     disk, loop, history
<1>2. CASE Label
  BY <1>2 DEF Label, Checked, disk, loop, history
<1>3. CASE Fsck
  BY <1>3 DEF Fsck, disk, loop, history
<1>4. CASE Resize2fs
  BY <1>4 DEF Resize2fs, Fail, disk, loop, history
<1>5. CASE Touch
  BY <1>5 DEF Touch, Mountable, RootKnown,
     disk, loop, history
<1>6. CASE Mount
  BY <1>6 DEF Mount, Fail, disk, loop, history
<1>7. CASE Mounted
  BY <1>7 DEF Mounted, disk, loop, history
<1>8. CASE Disable
  BY <1>8 DEF Disable, Fail, disk, loop, history
<1>9. CASE Sync
  BY <1>9 DEF Sync, Written, disk, loop, history
<1>10. CASE Work
  <2>1. Cardinality(worked') <= Cardinality(worked) + 1 /\ Cardinality(worked') \in Nat
    <3>1. worked' = worked \union {boots} BY <1>10 DEF Work
    <3>2. Cardinality(worked \union {boots})
            = IF boots \in worked THEN Cardinality(worked) ELSE Cardinality(worked) + 1
      BY FS_AddElement
    <3> QED BY <3>1, <3>2
  <2>2. pc = "work" /\ pc' = "grow" /\ UNCHANGED <<helper, fails>>
    BY <1>10 DEF Work, disk
  <2> QED BY <2>1, <2>2
<1>11. CASE Grow
  BY <1>11 DEF Grow, Fail, disk, loop, history
<1>12. CASE Grown
  BY <1>12 DEF Grown, disk, loop, history
<1>13. CASE MultiUser
  BY <1>13 DEF MultiUser, disk, loop, history
<1>14. CASE Find
  BY <1>14 DEF Find, Found, disk, loop, history
<1>15. CASE Purge
  BY <1>15 DEF Purge, Fail, disk, loop, history
<1>16. CASE DisableCleanup
  BY <1>16 DEF DisableCleanup, disk, loop, history
<1>17. CASE WriteBack
  BY <1>17 DEF WriteBack, Written, disk, loop, history
<1>18. CASE PowerCut
  BY <1>18 DEF PowerCut, AtRisk, disk, loop, history
<1>19. CASE Reboot
  BY <1>19 DEF Reboot, Written, disk, loop, history
<1>20. CASE UNCHANGED vars
  BY <1>20 DEF vars, disk, loop, history
<1> QED BY <1>1, <1>2, <1>3, <1>4, <1>5, <1>6, <1>7, <1>8, <1>9, <1>10, <1>11, <1>12,
      <1>13, <1>14, <1>15, <1>16, <1>17, <1>18, <1>19, <1>20 DEF Next, Boot

\* Nothing but the root is mounted while 95-resize runs.
LEMMA OfflineStep ==
  ASSUME FirstBootInv, [Next]_vars
  PROVE  OfflineInv'
<1> USE DEF FirstBootInv, OfflineInv, TypeOK
<1>1. CASE PowerOn
  BY <1>1 DEF PowerOn, Mountable, RootKnown,
     disk, loop, history, Fs
<1>2. CASE Label
  BY <1>2 DEF Label, Checked, disk, loop, history, Fs
<1>3. CASE Fsck
  BY <1>3 DEF Fsck, disk, loop, history, Fs
<1>4. CASE Resize2fs
  BY <1>4 DEF Resize2fs, Fail, disk, loop, history, Fs
<1>5. CASE Touch
  BY <1>5 DEF Touch, Mountable, RootKnown,
     disk, loop, history, Fs
<1>6. CASE Mount
  BY <1>6 DEF Mount, Fail, disk, loop, history, Fs
<1>7. CASE Mounted
  BY <1>7 DEF Mounted, disk, loop, history, Fs
<1>8. CASE Disable
  BY <1>8 DEF Disable, Fail, disk, loop, history, Fs
<1>9. CASE Sync
  BY <1>9 DEF Sync, Written, disk, loop, history, Fs
<1>10. CASE Work
  BY <1>10 DEF Work, Unmounts, disk, loop, history, Fs
<1>11. CASE Grow
  BY <1>11 DEF Grow, Fail, disk, loop, history, Fs
<1>12. CASE Grown
  BY <1>12 DEF Grown, disk, loop, history, Fs
<1>13. CASE MultiUser
  BY <1>13 DEF MultiUser, disk, loop, history, Fs
<1>14. CASE Find
  BY <1>14 DEF Find, Found, disk, loop, history, Fs
<1>15. CASE Purge
  BY <1>15 DEF Purge, Fail, disk, loop, history, Fs
<1>16. CASE DisableCleanup
  BY <1>16 DEF DisableCleanup, disk, loop, history, Fs
<1>17. CASE WriteBack
  BY <1>17 DEF WriteBack, Written, disk, loop, history, Fs
<1>18. CASE PowerCut
  BY <1>18 DEF PowerCut, AtRisk, disk, loop, history, Fs
<1>19. CASE Reboot
  BY <1>19 DEF Reboot, Written, disk, loop, history, Fs
<1>20. CASE UNCHANGED vars
  BY <1>20 DEF vars, disk, loop, history, Fs
<1> QED BY <1>1, <1>2, <1>3, <1>4, <1>5, <1>6, <1>7, <1>8, <1>9, <1>10, <1>11, <1>12,
      <1>13, <1>14, <1>15, <1>16, <1>17, <1>18, <1>19, <1>20 DEF Next, Boot

\* .resized comes after the loop.
LEMMA MarkStep ==
  ASSUME FirstBootInv, [Next]_vars
  PROVE  MarkInv' /\ MarkAfterWork'
<1> USE DEF FirstBootInv, MarkInv, MarkAfterWork, Done, TypeOK, Fs
<1>1. CASE PowerOn
  BY <1>1 DEF PowerOn, Mountable, RootKnown,
     disk, loop, history
<1>2. CASE Label
  BY <1>2 DEF Label, Checked, disk, loop, history
<1>3. CASE Fsck
  BY <1>3 DEF Fsck, disk, loop, history
<1>4. CASE Resize2fs
  BY <1>4 DEF Resize2fs, Fail, disk, loop, history
<1>5. CASE Touch
  BY <1>5 DEF Touch, Mountable, RootKnown,
     disk, loop, history
<1>6. CASE Mount
  BY <1>6 DEF Mount, Fail, disk, loop, history
<1>7. CASE Mounted
  BY <1>7 DEF Mounted, disk, loop, history
<1>8. CASE Disable
  BY <1>8 DEF Disable, Fail, disk, loop, history
<1>9. CASE Sync
  BY <1>9 DEF Sync, Written, disk, loop, history
<1>10. CASE Work
  BY <1>10 DEF Work, Unmounts, disk, loop, history
<1>11. CASE Grow
  BY <1>11 DEF Grow, Fail, disk, loop, history
<1>12. CASE Grown
  BY <1>12 DEF Grown, disk, loop, history
<1>13. CASE MultiUser
  BY <1>13 DEF MultiUser, disk, loop, history
<1>14. CASE Find
  BY <1>14 DEF Find, Found, disk, loop, history
<1>15. CASE Purge
  BY <1>15 DEF Purge, Fail, disk, loop, history
<1>16. CASE DisableCleanup
  BY <1>16 DEF DisableCleanup, disk, loop, history
<1>17. CASE WriteBack
  BY <1>17 DEF WriteBack, Written, disk, loop, history
<1>18. CASE PowerCut
  BY <1>18 DEF PowerCut, AtRisk, disk, loop, history
<1>19. CASE Reboot
  BY <1>19 DEF Reboot, Written, disk, loop, history
<1>20. CASE UNCHANGED vars
  BY <1>20 DEF vars, disk, loop, history
<1> QED BY <1>1, <1>2, <1>3, <1>4, <1>5, <1>6, <1>7, <1>8, <1>9, <1>10, <1>11, <1>12,
      <1>13, <1>14, <1>15, <1>16, <1>17, <1>18, <1>19, <1>20 DEF Next, Boot

\* Packages go only when no user partition is found, and the clean-up is tried.
LEMMA PurgeStep ==
  ASSUME FirstBootInv, [Next]_vars
  PROVE  PurgeInv'
<1> USE DEF FirstBootInv, PurgeInv, Tried, TypeOK, Found, RootKnown
<1>1. CASE PowerOn
  BY <1>1 DEF PowerOn, Mountable, RootKnown,
     disk, loop, history
<1>2. CASE Label
  BY <1>2 DEF Label, Checked, disk, loop, history
<1>3. CASE Fsck
  BY <1>3 DEF Fsck, disk, loop, history
<1>4. CASE Resize2fs
  BY <1>4 DEF Resize2fs, Fail, disk, loop, history
<1>5. CASE Touch
  BY <1>5 DEF Touch, Mountable, RootKnown,
     disk, loop, history
<1>6. CASE Mount
  BY <1>6 DEF Mount, Fail, disk, loop, history
<1>7. CASE Mounted
  BY <1>7 DEF Mounted, disk, loop, history
<1>8. CASE Disable
  BY <1>8 DEF Disable, Fail, disk, loop, history
<1>9. CASE Sync
  BY <1>9 DEF Sync, Written, disk, loop, history
<1>10. CASE Work
  BY <1>10 DEF Work, Unmounts, disk, loop, history
<1>11. CASE Grow
  BY <1>11 DEF Grow, Fail, disk, loop, history
<1>12. CASE Grown
  BY <1>12 DEF Grown, disk, loop, history
<1>13. CASE MultiUser
  BY <1>13 DEF MultiUser, disk, loop, history
<1>14. CASE Find
  BY <1>14 DEF Find, disk, loop, history
<1>15. CASE Purge
  BY <1>15 DEF Purge, Fail, disk, loop, history
<1>16. CASE DisableCleanup
  BY <1>16 DEF DisableCleanup, disk, loop, history
<1>17. CASE WriteBack
  BY <1>17 DEF WriteBack, Written, disk, loop, history
<1>18. CASE PowerCut
  BY <1>18 DEF PowerCut, AtRisk, disk, loop, history
<1>19. CASE Reboot
  BY <1>19 DEF Reboot, Written, disk, loop, history
<1>20. CASE UNCHANGED vars
  BY <1>20 DEF vars, disk, loop, history
<1> QED BY <1>1, <1>2, <1>3, <1>4, <1>5, <1>6, <1>7, <1>8, <1>9, <1>10, <1>11, <1>12,
      <1>13, <1>14, <1>15, <1>16, <1>17, <1>18, <1>19, <1>20 DEF Next, Boot

\* What is mounted stays so, but for resize-helper.
LEMMA MountStep ==
  ASSUME FirstBootInv, [Next]_vars
  PROVE  MountInv'
<1> USE DEF FirstBootInv, MountInv, Unmounted, TypeOK, Fs, RootKnown
<1>1. CASE PowerOn
  BY <1>1 DEF PowerOn, Mountable, RootKnown,
     disk, loop, history
<1>2. CASE Label
  BY <1>2 DEF Label, Checked, disk, loop, history
<1>3. CASE Fsck
  BY <1>3 DEF Fsck, disk, loop, history
<1>4. CASE Resize2fs
  BY <1>4 DEF Resize2fs, Fail, disk, loop, history
<1>5. CASE Touch
  BY <1>5 DEF Touch, Mountable, RootKnown,
     disk, loop, history
<1>6. CASE Mount
  BY <1>6 DEF Mount, Fail, disk, loop, history
<1>7. CASE Mounted
  BY <1>7 DEF Mounted, disk, loop, history
<1>8. CASE Disable
  BY <1>8 DEF Disable, Fail, disk, loop, history
<1>9. CASE Sync
  BY <1>9 DEF Sync, Written, disk, loop, history
<1>10. CASE Work
  BY <1>10 DEF Work, Unmounts, disk, loop, history
<1>11. CASE Grow
  BY <1>11 DEF Grow, Fail, disk, loop, history
<1>12. CASE Grown
  BY <1>12 DEF Grown, disk, loop, history
<1>13. CASE MultiUser
  BY <1>13 DEF MultiUser, disk, loop, history
<1>14. CASE Find
  BY <1>14 DEF Find, Found, disk, loop, history
<1>15. CASE Purge
  BY <1>15 DEF Purge, Fail, disk, loop, history
<1>16. CASE DisableCleanup
  BY <1>16 DEF DisableCleanup, disk, loop, history
<1>17. CASE WriteBack
  BY <1>17 DEF WriteBack, Written, disk, loop, history
<1>18. CASE PowerCut
  BY <1>18 DEF PowerCut, AtRisk, disk, loop, history
<1>19. CASE Reboot
  BY <1>19 DEF Reboot, Written, disk, loop, history
<1>20. CASE UNCHANGED vars
  BY <1>20 DEF vars, disk, loop, history
<1> QED BY <1>1, <1>2, <1>3, <1>4, <1>5, <1>6, <1>7, <1>8, <1>9, <1>10, <1>11, <1>12,
      <1>13, <1>14, <1>15, <1>16, <1>17, <1>18, <1>19, <1>20 DEF Next, Boot

\* A board that is left alone is resized.
LEMMA AloneStep ==
  ASSUME FirstBootInv, [Next]_vars
  PROVE  AloneInv'
<1> USE DEF FirstBootInv, AloneInv, MarkInv, MarkAfterWork, Done, OfflineInv, Outcome,
      VisitsAll, RootKnown, TypeOK, Fs
<1>1. CASE PowerOn
  BY <1>1, FirstBootAssumption DEF PowerOn, Mountable, RootKnown,
     BoardType, Known, disk, loop, history
<1>2. CASE Label
  BY <1>2, FirstBootAssumption DEF Label, Checked, BoardType, Known, disk, loop, history
<1>3. CASE Fsck
  BY <1>3, FirstBootAssumption DEF Fsck, BoardType, Known, disk, loop, history
<1>4. CASE Resize2fs
  BY <1>4, FirstBootAssumption DEF Resize2fs, Fail, BoardType, Known, disk, loop, history
<1>5. CASE Touch
  BY <1>5, FirstBootAssumption DEF Touch, Mountable, RootKnown,
     BoardType, Known, disk, loop, history
<1>6. CASE Mount
  BY <1>6, FirstBootAssumption DEF Mount, Fail, BoardType, Known, disk, loop, history
<1>7. CASE Mounted
  BY <1>7, FirstBootAssumption DEF Mounted, BoardType, Known, disk, loop, history
<1>8. CASE Disable
  BY <1>8, FirstBootAssumption DEF Disable, Fail, BoardType, Known, disk, loop, history
<1>9. CASE Sync
  BY <1>9, FirstBootAssumption DEF Sync, Written, BoardType, Known, disk, loop, history
<1>10. CASE Work
  BY <1>10, FirstBootAssumption DEF Work, Unmounts, BoardType, Known, disk, loop, history
<1>11. CASE Grow
  BY <1>11, FirstBootAssumption DEF Grow, Fail, BoardType, Known, disk, loop, history
<1>12. CASE Grown
  BY <1>12, FirstBootAssumption DEF Grown, BoardType, Known, disk, loop, history
<1>13. CASE MultiUser
  BY <1>13, FirstBootAssumption DEF MultiUser, BoardType, Known, disk, loop, history
<1>14. CASE Find
  BY <1>14, FirstBootAssumption DEF Find, Found, BoardType, Known, disk, loop, history
<1>15. CASE Purge
  BY <1>15, FirstBootAssumption DEF Purge, Fail, BoardType, Known, disk, loop, history
<1>16. CASE DisableCleanup
  BY <1>16, FirstBootAssumption DEF DisableCleanup, BoardType, Known, disk, loop, history
<1>17. CASE WriteBack
  BY <1>17, FirstBootAssumption DEF WriteBack, Written, BoardType, Known, disk, loop, history
<1>18. CASE PowerCut
  BY <1>18, FirstBootAssumption DEF PowerCut, AtRisk, BoardType, Known, disk, loop, history
<1>19. CASE Reboot
  BY <1>19, FirstBootAssumption DEF Reboot, Written, BoardType, Known, disk, loop, history
<1>20. CASE UNCHANGED vars
  BY <1>20 DEF vars, BoardType, Known, disk, loop, history
<1> QED BY <1>1, <1>2, <1>3, <1>4, <1>5, <1>6, <1>7, <1>8, <1>9, <1>10, <1>11, <1>12,
      <1>13, <1>14, <1>15, <1>16, <1>17, <1>18, <1>19, <1>20 DEF Next, Boot

LEMMA FirstBootInvHolds == Spec => []FirstBootInv
<1>1. FirstBootInv /\ [Next]_vars => FirstBootInv'
  BY TypeStep, OnceStep, OfflineStep, MarkStep, PurgeStep, MountStep, AloneStep
  DEF FirstBootInv
<1> QED BY FirstBootInvInit, <1>1, PTL DEF Spec

-----------------------------------------------------------------------------
\* The variables of the scripts keep their types.
THEOREM FirstBootTypeCorrect == Spec => []TypeOK
<1>1. FirstBootInv => TypeOK BY DEF FirstBootInv
<1> QED BY FirstBootInvHolds, <1>1, PTL

\* resize-helper resizes in at most one boot, however many boots and power cuts,
\* and in one more for each time that it could not be disabled: the sync between
\* its disabling and its work is what the proof rests on.
THEOREM HelperExecutedOnce == Spec => []ExecutedOnce
<1>1. FirstBootInv => ExecutedOnce BY DEF FirstBootInv
<1> QED BY FirstBootInvHolds, <1>1, PTL

\* 95-resize checks and resizes off-line only what is not mounted.
THEOREM ResizeOffline == Spec => []OfflineOnly
<1>1. FirstBootInv => OfflineOnly BY DEF FirstBootInv, OfflineInv, OfflineOnly
<1> QED BY FirstBootInvHolds, <1>1, PTL

\* .resized, wherever the power was cut, says that every labelled file system was
\* resized, corrected, or that a command failed.
THEOREM MarkIsTrue == Spec => []MarkAfterWork
<1>1. FirstBootInv => MarkAfterWork BY DEF FirstBootInv
<1> QED BY FirstBootInvHolds, <1>1, PTL

\* Packages are purged only without a user partition that mount-partitions.sh
\* would mount, or with one of a NAND that is not called userfs, and the clean-up
\* is not disabled untried.
THEOREM CleanupIsRight == Spec => []PurgedIfAbsent
<1>1. FirstBootInv => PurgedIfAbsent
  BY DEF FirstBootInv, PurgeInv, Tried, Found, Mountable, ShortName, PurgedIfAbsent
<1> QED BY FirstBootInvHolds, <1>1, PTL

\* What keeps a partition of a running board from being mounted: it is damaged,
\* a mount failed, or resize-helper unmounted it in this boot.
THEOREM MountsExplained == Spec => []MountedUnlessHelper
<1>1. FirstBootInv => MountedUnlessHelper
  BY DEF FirstBootInv, MountInv, Unmounted, MountedUnlessHelper
<1> QED BY FirstBootInvHolds, <1>1, PTL

\* A board that is left alone has its file systems fill their partitions, as far
\* as a script knows them and resize-helper finds them mounted.
THEOREM LeftAloneIsGrown == Spec => []GrownIfLeftAlone
<1>1. FirstBootInv => GrownIfLeftAlone
  BY DEF FirstBootInv, AloneInv, Outcome, VisitsAll, GrownIfLeftAlone
<1> QED BY FirstBootInvHolds, <1>1, PTL
=============================================================================
