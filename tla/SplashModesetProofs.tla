------------------------ MODULE SplashModesetProofs ------------------------
(***************************************************************************)
(* What holds of the screens for any device, any number of connectors and  *)
(* CRTCs and any number of failing calls, by one inductive invariant,      *)
(* ModesetInv.                                                             *)
(***************************************************************************)
EXTENDS SplashModeset, TLAPS

Making     == {"create", "addfb", "map", "err_fb", "err_destroy"}
TakingDown == {"unmap", "rmfb", "destroy"}

\* Which devices are on the list, and in hand, at each place.
Where ==
  /\ pc \in {"card", "open", "resources", "close", "exited", "failed"} => modeset_list = {}
  /\ pc \in Making \union {"connector"} => \A c \in modeset_list : c < i
  /\ pc \in Making => i \in Conns
  /\ pc \in TakingDown => iter \in Conns /\ iter \notin modeset_list
  /\ pc \in {"getcrtc", "setcrtc", "frame"} => todo \subseteq modeset_list
  /\ pc = "setcrtc" /\ drm_open => iter \in modeset_list
  /\ ~ drm_open /\ pc # "crashed" => modeset_list = {}

\* The device being made has a CRTC that no other one has.
Chosen == pc \in Making => crtc[i] \in Allowed(i) /\ crtc[i] \notin Used

ModesetInv == TypeOK /\ Where /\ Chosen /\ CrtcExclusive /\ NothingLost

-----------------------------------------------------------------------------
LEMMA ModesetInvInit == Init => ModesetInv
<1> SUFFICES ASSUME Init PROVE ModesetInv
  OBVIOUS
<1>0. FlagsOK BY DEF Init, FlagsOK
<1>1. TypeOK
  <2>1. PlaceOK BY ModesetAssumption DEF Init, PlaceOK, Places
  <2>2. ListOK BY ModesetAssumption DEF Init, ListOK, Layers
  <2>3. KernelOK BY ModesetAssumption DEF Init, KernelOK
  <2> QED BY <1>0, <2>1, <2>2, <2>3 DEF TypeOK
<1>2. Where /\ Chosen BY DEF Init, Where, Chosen, Making, TakingDown
<1>3. CrtcExclusive BY DEF Init, CrtcExclusive
<1>4. NothingLost BY DEF Init, NothingLost, Holds
<1> QED BY <1>1, <1>2, <1>3, <1>4 DEF ModesetInv

\* Where a connector's encoders come from.
LEMMA BoardConn ==
  ASSUME TypeOK, NEW c \in Conns
  PROVE  Conn(c) \in ConnectorType
BY ModesetAssumption DEF TypeOK, PlaceOK, BoardType, Conn

\* What modeset_find_crtc finds can drive the connector and is in nobody's use.
LEMMA FoundIsFree ==
  ASSUME TypeOK, NEW c \in Conns, NEW got \in SUBSET Asked(c), NEW x \in Crtcs, FindCrtc(c, got, x)
  PROVE  x \in Allowed(c) /\ x \notin Used
<1>1. CASE 0 \in got /\ Current(c) # 0 /\ Current(c) \notin Used
  BY <1>1 DEF FindCrtc, Allowed
<1>2. CASE ~ (0 \in got /\ Current(c) # 0 /\ Current(c) \notin Used)
  <2>1. PICK p \in Free(c, got) : x = p[2]
    BY <1>2 DEF FindCrtc
  <2>2. /\ p \in (got \ {0}) \X Crtcs
        /\ p[2] \in Conn(c).encoders[p[1]].possible /\ p[2] \notin Used
    BY <2>1 DEF Free
  <2>3. p[1] \in DOMAIN Conn(c).encoders
    BY <2>2 DEF Asked
  <2> QED BY <2>1, <2>2, <2>3 DEF Allowed
<1> QED BY <1>1, <1>2

-----------------------------------------------------------------------------
(* Type correctness, by part of the program. *)

Prepare ==
  \/ Start \/ ModesetOpen \/ GetResources \/ Connector \/ CreateDumb \/ AddFB \/ Map \/ ErrFb
  \/ ErrDestroy \/ Prepared

Run ==
  \/ GetCrtc \/ SetCrtc \/ Frame \/ Draw \/ Told \/ Off \/ Unmap \/ CleanupRmFB \/ CleanupDestroy
  \/ Cleaned \/ Close \/ Signal

LEMMA FlagsKept ==
  ASSUME ModesetInv, Next
  PROVE  FlagsOK'
<1> USE DEF ModesetInv, TypeOK, FlagsOK, options, kernel
<1>1. CASE Start BY <1>1 DEF Start
<1>2. CASE ModesetOpen BY <1>2 DEF ModesetOpen
<1>3. CASE GetResources BY <1>3 DEF GetResources
<1>4. CASE Connector BY <1>4 DEF Connector
<1>5. CASE CreateDumb BY <1>5 DEF CreateDumb
<1>6. CASE AddFB BY <1>6 DEF AddFB
<1>7. CASE Map BY <1>7 DEF Map
<1>8. CASE ErrFb BY <1>8 DEF ErrFb
<1>9. CASE ErrDestroy BY <1>9 DEF ErrDestroy
<1>10. CASE Prepared BY <1>10 DEF Prepared
<1>11. CASE GetCrtc BY <1>11 DEF GetCrtc
<1>12. CASE SetCrtc BY <1>12 DEF SetCrtc
<1>13. CASE Frame BY <1>13 DEF Frame
<1>14. CASE Draw BY <1>14 DEF Draw, Die
<1>15. CASE Told BY <1>15 DEF Told
<1>16. CASE Off BY <1>16 DEF Off, Die
<1>17. CASE Unmap BY <1>17 DEF Unmap
<1>18. CASE CleanupRmFB BY <1>18 DEF CleanupRmFB
<1>19. CASE CleanupDestroy BY <1>19 DEF CleanupDestroy
<1>20. CASE Cleaned BY <1>20 DEF Cleaned
<1>21. CASE Close BY <1>21 DEF Close, CloseDrm
<1>22. CASE Signal BY <1>22 DEF Signal, CloseDrm, Die
<1> QED BY <1>1, <1>2, <1>3, <1>4, <1>5, <1>6, <1>7, <1>8, <1>9, <1>10, <1>11, <1>12, <1>13,
           <1>14, <1>15, <1>16, <1>17, <1>18, <1>19, <1>20, <1>21, <1>22 DEF Next, Main

\* A call that succeeds or fails.
LEMMA CallKeepsType ==
  ASSUME TypeOK, Succeeds \/ Fails \/ UNCHANGED fails
  PROVE  fails' \in 0 .. MaxFails
BY ModesetAssumption DEF TypeOK, PlaceOK, Succeeds, Fails

LEMMA RmFBKeepsType ==
  ASSUME TypeOK, NEW c \in Conns, RmFB(c)
  PROVE  fbs' \subseteq Conns /\ scan' \in [Crtcs -> 0 .. NConns]
BY ModesetAssumption DEF TypeOK, KernelOK, RmFB

LEMMA DieKeepsType ==
  ASSUME Die
  PROVE  pc' = "crashed" /\ KernelOK'
BY ModesetAssumption DEF Die, KernelOK

LEMMA PrepareKeepsType ==
  ASSUME ModesetInv, Prepare, FlagsOK'
  PROVE  TypeOK'
<1> USE ModesetAssumption DEF ModesetInv, TypeOK, Places, Layers, Conns, Crtcs, options, devVars,
        kernel, Where, Making
<1>1. CASE Start
  <2>1. PlaceOK' BY <1>1 DEF Start, PlaceOK
  <2>2. ListOK' BY <1>1 DEF Start, PlaceOK, ListOK
  <2>3. KernelOK' BY <1>1 DEF Start, PlaceOK, ListOK, KernelOK
  <2> QED BY <2>1, <2>2, <2>3
<1>2. CASE ModesetOpen
  <2>1. PlaceOK' BY <1>2 DEF ModesetOpen, PlaceOK
  <2>2. ListOK' BY <1>2 DEF ModesetOpen, PlaceOK, ListOK
  <2>3. KernelOK' BY <1>2 DEF ModesetOpen, PlaceOK, ListOK, KernelOK
  <2> QED BY <2>1, <2>2, <2>3
<1>3. CASE GetResources
  <2>0. fails' \in 0 .. MaxFails BY <1>3, CallKeepsType DEF GetResources
  <2>1. PlaceOK' BY <1>3, <2>0 DEF GetResources, PlaceOK
  <2>2. ListOK' BY <1>3, <2>0 DEF GetResources, PlaceOK, ListOK
  <2>3. KernelOK' BY <1>3, <2>0 DEF GetResources, PlaceOK, ListOK, KernelOK
  <2> QED BY <2>1, <2>2, <2>3
<1>4. CASE Connector
  <2>0. /\ i \in Conns /\ pc' \in {"connector", "create"}
        /\ fails' \in 0 .. MaxFails
        /\ i' \in {i, i + 1}
        /\ crtc' = crtc \/ \E x \in Crtcs : crtc' = [crtc EXCEPT ![i] = x]
    BY <1>4 DEF Connector, Succeeds, Fails, Skip, PlaceOK
  <2>1. PlaceOK' BY <1>4, <2>0 DEF Connector, PlaceOK
  <2>2. ListOK'
    <3>1. UNCHANGED <<modeset_list, saved_crtc, todo, shown>> BY <1>4 DEF Connector
    <3>2. crtc' \in [Conns -> 0 .. NCrtcs]
      <4>1. Crtcs \subseteq 0 .. NCrtcs /\ crtc \in [Conns -> 0 .. NCrtcs]
        BY DEF ListOK
      <4> QED BY <2>0, <4>1
    <3> QED BY <3>1, <3>2 DEF ListOK
  <2>3. KernelOK' BY <1>4, <2>0 DEF Connector, PlaceOK, ListOK, KernelOK
  <2> QED BY <2>1, <2>2, <2>3
<1>5. CASE CreateDumb
  <2>0. fails' \in 0 .. MaxFails BY <1>5, CallKeepsType DEF CreateDumb
  <2>1. PlaceOK' BY <1>5, <2>0 DEF CreateDumb, PlaceOK, Skip
  <2>2. ListOK' BY <1>5, <2>0 DEF CreateDumb, PlaceOK, ListOK, Skip
  <2>3. KernelOK' BY <1>5, <2>0 DEF CreateDumb, PlaceOK, ListOK, KernelOK, Skip
  <2> QED BY <2>1, <2>2, <2>3
<1>6. CASE AddFB
  <2>0. fails' \in 0 .. MaxFails BY <1>6, CallKeepsType DEF AddFB
  <2>1. PlaceOK' BY <1>6, <2>0 DEF AddFB, PlaceOK
  <2>2. ListOK' BY <1>6, <2>0 DEF AddFB, PlaceOK, ListOK
  <2>3. KernelOK' BY <1>6, <2>0 DEF AddFB, PlaceOK, ListOK, KernelOK
  <2> QED BY <2>1, <2>2, <2>3
<1>7. CASE Map
  <2>0. fails' \in 0 .. MaxFails BY <1>7, CallKeepsType DEF Map
  <2>1. PlaceOK' BY <1>7, <2>0 DEF Map, PlaceOK, Skip
  <2>2. ListOK' BY <1>7, <2>0 DEF Map, PlaceOK, ListOK, Skip
  <2>3. KernelOK' BY <1>7, <2>0 DEF Map, PlaceOK, ListOK, KernelOK, Skip
  <2> QED BY <2>1, <2>2, <2>3
<1>8. CASE ErrFb
  <2>0. fbs' \subseteq Conns /\ scan' \in [Crtcs -> 0 .. NConns]
    BY <1>8, RmFBKeepsType DEF ErrFb
  <2>1. PlaceOK' BY <1>8, <2>0 DEF ErrFb, PlaceOK
  <2>2. ListOK' BY <1>8, <2>0 DEF ErrFb, PlaceOK, ListOK
  <2>3. KernelOK' BY <1>8, <2>0 DEF ErrFb, PlaceOK, ListOK, KernelOK
  <2> QED BY <2>1, <2>2, <2>3
<1>9. CASE ErrDestroy
  <2>1. PlaceOK' BY <1>9 DEF ErrDestroy, PlaceOK, Skip
  <2>2. ListOK' BY <1>9 DEF ErrDestroy, PlaceOK, ListOK, Skip
  <2>3. KernelOK' BY <1>9 DEF ErrDestroy, PlaceOK, ListOK, KernelOK, Skip
  <2> QED BY <2>1, <2>2, <2>3
<1>10. CASE Prepared
  <2>1. PlaceOK' BY <1>10 DEF Prepared, PlaceOK
  <2>2. ListOK' BY <1>10 DEF Prepared, PlaceOK, ListOK
  <2>3. KernelOK' BY <1>10 DEF Prepared, PlaceOK, ListOK, KernelOK
  <2> QED BY <2>1, <2>2, <2>3
<1> QED BY <1>1, <1>2, <1>3, <1>4, <1>5, <1>6, <1>7, <1>8, <1>9, <1>10 DEF Prepare

LEMMA RunKeepsType ==
  ASSUME ModesetInv, Run, FlagsOK'
  PROVE  TypeOK'
<1> USE ModesetAssumption DEF ModesetInv, TypeOK, Places, Layers, Conns, Crtcs, options, devVars,
        kernel, Where, TakingDown
<1>1. CASE GetCrtc
  <2>0. fails' \in 0 .. MaxFails BY <1>1, CallKeepsType DEF GetCrtc
  <2>1. PlaceOK'
    <3>1. iter' = iter \/ iter' \in Conns BY <1>1 DEF GetCrtc, ListOK
    <3>2. pc' \in Places /\ UNCHANGED <<board, rle, file, i>> BY <1>1 DEF GetCrtc
    <3> QED BY <2>0, <3>1, <3>2 DEF PlaceOK
  <2>2. ListOK' BY <1>1, <2>0 DEF GetCrtc, PlaceOK, ListOK
  <2>3. KernelOK' BY <1>1, <2>0 DEF GetCrtc, PlaceOK, ListOK, KernelOK
  <2> QED BY <2>1, <2>2, <2>3
<1>2. CASE SetCrtc
  <2>0. fails' \in 0 .. MaxFails BY <1>2, CallKeepsType DEF SetCrtc
  <2>1. PlaceOK' BY <1>2, <2>0 DEF SetCrtc, PlaceOK
  <2>2. ListOK' BY <1>2, <2>0 DEF SetCrtc, PlaceOK, ListOK
  <2>3. KernelOK' BY <1>2, <2>0 DEF SetCrtc, PlaceOK, ListOK, KernelOK
  <2> QED BY <2>1, <2>2, <2>3
<1>3. CASE Frame
  <2>1. PlaceOK' BY <1>3 DEF Frame, PlaceOK
  <2>2. ListOK' BY <1>3 DEF Frame, PlaceOK, ListOK
  <2>3. KernelOK' BY <1>3 DEF Frame, PlaceOK, ListOK, KernelOK
  <2> QED BY <2>1, <2>2, <2>3
<1>4. CASE Draw
  <2>1. PlaceOK' BY <1>4 DEF Draw, PlaceOK, Die
  <2>2. ListOK' BY <1>4 DEF Draw, PlaceOK, ListOK, Die
  <2>3. KernelOK'
    <3>1. UNCHANGED kernel \/ Die BY <1>4 DEF Draw
    <3> QED BY <3>1, DieKeepsType DEF KernelOK
  <2> QED BY <2>1, <2>2, <2>3
<1>5. CASE Told
  <2>1. PlaceOK' BY <1>5 DEF Told, PlaceOK
  <2>2. ListOK' BY <1>5 DEF Told, PlaceOK, ListOK
  <2>3. KernelOK' BY <1>5 DEF Told, PlaceOK, ListOK, KernelOK
  <2> QED BY <2>1, <2>2, <2>3
<1>6. CASE Off
  <2>0. fails' \in 0 .. MaxFails BY <1>6, CallKeepsType DEF Off
  <2>1. PlaceOK'
    <3>1. iter' \in Conns BY <1>6 DEF Off, ListOK
    <3>2. pc' \in Places BY <1>6, DieKeepsType DEF Off
    <3>3. UNCHANGED <<board, rle, file, i>> BY <1>6 DEF Off
    <3> QED BY <2>0, <3>1, <3>2, <3>3 DEF PlaceOK
  <2>2. ListOK' BY <1>6, <2>0 DEF Off, PlaceOK, ListOK, Die
  <2>3. KernelOK'
    <3>1. \/ \E c \in Conns : scan' = [scan EXCEPT ![crtc[c]] = 0] /\ UNCHANGED <<buffers, fbs, maps>>
          \/ UNCHANGED <<scan, buffers, fbs, maps>>
          \/ Die
      BY <1>6 DEF Off, ListOK
    <3>2. CASE Die BY <3>2, DieKeepsType
    <3>3. CASE ~ Die
      <4>1. scan' \in [Crtcs -> 0 .. NConns] BY <3>1, <3>3 DEF KernelOK
      <4>2. UNCHANGED <<buffers, fbs, maps>> BY <3>1, <3>3
      <4> QED BY <4>1, <4>2 DEF KernelOK
    <3> QED BY <3>2, <3>3
  <2> QED BY <2>1, <2>2, <2>3
<1>7. CASE Unmap
  <2>1. PlaceOK' BY <1>7 DEF Unmap, PlaceOK
  <2>2. ListOK' BY <1>7 DEF Unmap, PlaceOK, ListOK
  <2>3. KernelOK' BY <1>7 DEF Unmap, PlaceOK, ListOK, KernelOK
  <2> QED BY <2>1, <2>2, <2>3
<1>8. CASE CleanupRmFB
  <2>0. fbs' \subseteq Conns /\ scan' \in [Crtcs -> 0 .. NConns]
    BY <1>8, RmFBKeepsType DEF CleanupRmFB
  <2>1. PlaceOK' BY <1>8, <2>0 DEF CleanupRmFB, PlaceOK
  <2>2. ListOK' BY <1>8, <2>0 DEF CleanupRmFB, PlaceOK, ListOK
  <2>3. KernelOK' BY <1>8, <2>0 DEF CleanupRmFB, PlaceOK, ListOK, KernelOK
  <2> QED BY <2>1, <2>2, <2>3
<1>9. CASE CleanupDestroy
  <2>1. PlaceOK' BY <1>9 DEF CleanupDestroy, PlaceOK
  <2>2. ListOK' BY <1>9 DEF CleanupDestroy, PlaceOK, ListOK
  <2>3. KernelOK' BY <1>9 DEF CleanupDestroy, PlaceOK, ListOK, KernelOK
  <2> QED BY <2>1, <2>2, <2>3
<1>10. CASE Cleaned
  <2>1. PlaceOK' BY <1>10 DEF Cleaned, PlaceOK
  <2>2. ListOK' BY <1>10 DEF Cleaned, PlaceOK, ListOK
  <2>3. KernelOK' BY <1>10 DEF Cleaned, PlaceOK, ListOK, KernelOK
  <2> QED BY <2>1, <2>2, <2>3
<1>11. CASE Close
  <2>1. PlaceOK' BY <1>11 DEF Close, PlaceOK, CloseDrm
  <2>2. ListOK' BY <1>11 DEF Close, PlaceOK, ListOK, CloseDrm
  <2>3. KernelOK' BY <1>11 DEF Close, PlaceOK, ListOK, KernelOK, CloseDrm
  <2> QED BY <2>1, <2>2, <2>3
<1>12. CASE Signal
  <2>1. PlaceOK' BY <1>12 DEF Signal, PlaceOK, CloseDrm, Die
  <2>2. ListOK' BY <1>12 DEF Signal, PlaceOK, ListOK, CloseDrm, Die
  <2>3. KernelOK'
    <3>1. (CloseDrm /\ maps' = maps \ modeset_list) \/ Die BY <1>12 DEF Signal
    <3>2. CASE Die BY <3>2, DieKeepsType
    <3>3. CASE CloseDrm /\ maps' = maps \ modeset_list
      <4>1. scan' \in [Crtcs -> 0 .. NConns] BY <3>3 DEF CloseDrm
      <4>2. buffers' = {} /\ fbs' = {} /\ maps' \subseteq Conns BY <3>3 DEF CloseDrm, KernelOK
      <4> QED BY <4>1, <4>2 DEF KernelOK
    <3> QED BY <3>1, <3>2, <3>3
  <2> QED BY <2>1, <2>2, <2>3
<1> QED BY <1>1, <1>2, <1>3, <1>4, <1>5, <1>6, <1>7, <1>8, <1>9, <1>10, <1>11, <1>12 DEF Run

-----------------------------------------------------------------------------
(* The rest of the invariant, by conjunct. *)

LEMMA WhereKept ==
  ASSUME ModesetInv, TypeOK', Next
  PROVE  Where'
<1> USE DEF ModesetInv, TypeOK, PlaceOK, ListOK, Conns, Where, Making, TakingDown, options, devVars, kernel
<1>1. CASE Start BY <1>1 DEF Start
<1>2. CASE ModesetOpen BY <1>2 DEF ModesetOpen
<1>3. CASE GetResources BY <1>3 DEF GetResources, Succeeds, Fails
<1>4. CASE Connector BY <1>4 DEF Connector, Skip
<1>5. CASE CreateDumb BY <1>5 DEF CreateDumb, Skip, Succeeds, Fails
<1>6. CASE AddFB BY <1>6 DEF AddFB, Succeeds, Fails
<1>7. CASE Map BY <1>7 DEF Map, Skip, Succeeds
<1>8. CASE ErrFb BY <1>8 DEF ErrFb, RmFB
<1>9. CASE ErrDestroy BY <1>9 DEF ErrDestroy, Skip
<1>10. CASE Prepared BY <1>10 DEF Prepared
<1>11. CASE GetCrtc BY <1>11 DEF GetCrtc, Newest, Succeeds, Fails
<1>12. CASE SetCrtc BY <1>12 DEF SetCrtc, Succeeds
<1>13. CASE Frame BY <1>13 DEF Frame, Newest
<1>14. CASE Draw BY <1>14 DEF Draw, Die
<1>15. CASE Told BY <1>15 DEF Told
<1>16. CASE Off
  <2>1. PICK c \in modeset_list :
          /\ modeset_list' = modeset_list \ {c} /\ iter' = c
          /\ \/ pc' = "unmap" /\ UNCHANGED drm_open
             \/ pc' = "crashed"
    BY <1>16 DEF Off, Die
  <2>2. pc = "off" /\ UNCHANGED <<i, todo>> BY <1>16 DEF Off
  <2> QED BY <2>1, <2>2
<1>17. CASE Unmap BY <1>17 DEF Unmap
<1>18. CASE CleanupRmFB BY <1>18 DEF CleanupRmFB, RmFB
<1>19. CASE CleanupDestroy BY <1>19 DEF CleanupDestroy
<1>20. CASE Cleaned BY <1>20 DEF Cleaned
<1>21. CASE Close BY <1>21 DEF Close, CloseDrm
<1>22. CASE Signal BY <1>22 DEF Signal, CloseDrm, Die, Ended
<1> QED BY <1>1, <1>2, <1>3, <1>4, <1>5, <1>6, <1>7, <1>8, <1>9, <1>10, <1>11, <1>12, <1>13,
           <1>14, <1>15, <1>16, <1>17, <1>18, <1>19, <1>20, <1>21, <1>22 DEF Next, Main

\* What an action that neither chooses a CRTC nor touches the list leaves alone.
Quiet ==
  /\ UNCHANGED <<board, modeset_list, crtc>>
  /\ pc' \in Making => pc \in Making /\ i' = i

LEMMA QuietKeeps ==
  ASSUME ModesetInv, Quiet
  PROVE  Chosen' /\ CrtcExclusive'
<1>1. Used' = Used BY DEF Quiet, Used
<1>2. \A c : Allowed(c)' = Allowed(c) BY DEF Quiet, Allowed, Current, Conn
<1> QED BY <1>1, <1>2 DEF ModesetInv, Quiet, Chosen, CrtcExclusive

LEMMA ChosenKept ==
  ASSUME ModesetInv, TypeOK', Next
  PROVE  Chosen' /\ CrtcExclusive'
<1> USE DEF Making, options, devVars, kernel
<1>1. CASE Start
  <2>1. Quiet BY <1>1 DEF Start, Quiet
  <2> QED BY <2>1, QuietKeeps
<1>2. CASE ModesetOpen
  <2>1. Quiet BY <1>2 DEF ModesetOpen, Quiet
  <2> QED BY <2>1, QuietKeeps
<1>3. CASE GetResources
  <2>1. Quiet BY <1>3 DEF GetResources, Quiet
  <2> QED BY <2>1, QuietKeeps
<1>4. CASE Connector
  <2>1. i \in Conns /\ \A c \in modeset_list : c # i
    BY <1>4 DEF Connector, ModesetInv, TypeOK, PlaceOK, ListOK, Where, Conns
  <2>2. UNCHANGED <<board, modeset_list>>
    BY <1>4 DEF Connector
  <2>3. CASE UNCHANGED crtc /\ pc' = "connector"
    <3>1. Quiet BY <2>2, <2>3 DEF Quiet
    <3> QED BY <3>1, QuietKeeps
  <2>4. ASSUME NEW got \in SUBSET Asked(i), NEW x \in Crtcs, FindCrtc(i, got, x),
               crtc' = [crtc EXCEPT ![i] = x], UNCHANGED i
        PROVE  Chosen' /\ CrtcExclusive'
    <3>1. x \in Allowed(i) /\ x \notin Used
      BY <2>1, <2>4, FoundIsFree DEF ModesetInv
    <3>2. crtc'[i] = x /\ \A c \in modeset_list : crtc'[c] = crtc[c]
      BY <2>1, <2>4 DEF ModesetInv, TypeOK, ListOK
    <3>3. Used' = Used
      BY <2>2, <3>2 DEF Used
    <3>4. \A c : Allowed(c)' = Allowed(c)
      BY <2>2 DEF Allowed, Current, Conn
    <3>5. Chosen'
      BY <2>4, <3>1, <3>2, <3>3, <3>4 DEF Chosen
    <3>6. CrtcExclusive'
      BY <2>2, <3>2, <3>4 DEF ModesetInv, CrtcExclusive
    <3> QED BY <3>5, <3>6
  <2> QED BY <1>4, <2>3, <2>4 DEF Connector, Skip
<1>5. CASE CreateDumb
  <2>1. Quiet BY <1>5 DEF CreateDumb, Quiet, Skip
  <2> QED BY <2>1, QuietKeeps
<1>6. CASE AddFB
  <2>1. Quiet BY <1>6 DEF AddFB, Quiet
  <2> QED BY <2>1, QuietKeeps
<1>7. CASE Map
  <2>1. CASE pc' = "err_fb" /\ UNCHANGED <<i, modeset_list, crtc>>
    <3>1. Quiet BY <1>7, <2>1 DEF Map, Quiet
    <3> QED BY <3>1, QuietKeeps
  <2>2. CASE pc' = "connector" /\ modeset_list' = modeset_list \union {i} /\ UNCHANGED crtc
    <3>1. crtc[i] \in Allowed(i) /\ crtc[i] \notin Used
      BY <1>7 DEF Map, ModesetInv, Chosen
    <3>2. \A c : Allowed(c)' = Allowed(c)
      BY <1>7 DEF Map, Allowed, Current, Conn
    <3>3. CrtcExclusive'
      BY <2>2, <3>1, <3>2 DEF ModesetInv, CrtcExclusive, Used
    <3> QED BY <2>2, <3>3 DEF Chosen
  <2> QED BY <1>7, <2>1, <2>2 DEF Map, Skip
<1>8. CASE ErrFb
  <2>1. Quiet BY <1>8 DEF ErrFb, Quiet
  <2> QED BY <2>1, QuietKeeps
<1>9. CASE ErrDestroy
  <2>1. Quiet BY <1>9 DEF ErrDestroy, Quiet, Skip
  <2> QED BY <2>1, QuietKeeps
<1>10. CASE Prepared
  <2>1. Quiet BY <1>10 DEF Prepared, Quiet
  <2> QED BY <2>1, QuietKeeps
<1>11. CASE GetCrtc
  <2>1. Quiet BY <1>11 DEF GetCrtc, Quiet
  <2> QED BY <2>1, QuietKeeps
<1>12. CASE SetCrtc
  <2>1. Quiet BY <1>12 DEF SetCrtc, Quiet
  <2> QED BY <2>1, QuietKeeps
<1>13. CASE Frame
  <2>1. Quiet BY <1>13 DEF Frame, Quiet
  <2> QED BY <2>1, QuietKeeps
<1>14. CASE Draw
  <2>1. Quiet BY <1>14 DEF Draw, Quiet, Die
  <2> QED BY <2>1, QuietKeeps
<1>15. CASE Told
  <2>1. Quiet BY <1>15 DEF Told, Quiet
  <2> QED BY <2>1, QuietKeeps
<1>16. CASE Off
  <2>1. modeset_list' \subseteq modeset_list /\ pc' \notin Making /\ UNCHANGED <<board, crtc>>
    BY <1>16 DEF Off, Die
  <2> QED BY <2>1 DEF ModesetInv, Chosen, CrtcExclusive, Allowed, Current, Conn
<1>17. CASE Unmap
  <2>1. Quiet BY <1>17 DEF Unmap, Quiet
  <2> QED BY <2>1, QuietKeeps
<1>18. CASE CleanupRmFB
  <2>1. Quiet BY <1>18 DEF CleanupRmFB, Quiet
  <2> QED BY <2>1, QuietKeeps
<1>19. CASE CleanupDestroy
  <2>1. Quiet BY <1>19 DEF CleanupDestroy, Quiet
  <2> QED BY <2>1, QuietKeeps
<1>20. CASE Cleaned
  <2>1. Quiet BY <1>20 DEF Cleaned, Quiet
  <2> QED BY <2>1, QuietKeeps
<1>21. CASE Close
  <2>1. Quiet BY <1>21 DEF Close, Quiet, CloseDrm
  <2> QED BY <2>1, QuietKeeps
<1>22. CASE Signal
  <2>1. CASE modeset_list' = {} /\ UNCHANGED <<pc, crtc>>
    <3>1. UNCHANGED <<board, i>> BY <1>22 DEF Signal
    <3>2. CrtcExclusive' BY <2>1 DEF CrtcExclusive
    <3>3. Chosen' BY <2>1, <3>1 DEF ModesetInv, Chosen, Used, Allowed, Current, Conn
    <3> QED BY <3>2, <3>3
  <2>2. CASE pc' = "crashed" /\ UNCHANGED <<modeset_list, crtc>>
    <3>1. Quiet BY <1>22, <2>2 DEF Signal, Quiet
    <3> QED BY <3>1, QuietKeeps
  <2> QED BY <1>22, <2>1, <2>2 DEF Signal, Die
<1> QED BY <1>1, <1>2, <1>3, <1>4, <1>5, <1>6, <1>7, <1>8, <1>9, <1>10, <1>11, <1>12, <1>13,
           <1>14, <1>15, <1>16, <1>17, <1>18, <1>19, <1>20, <1>21, <1>22 DEF Next, Main

LEMMA NothingLostKept ==
  ASSUME ModesetInv, TypeOK', Next
  PROVE  NothingLost'
<1> USE DEF ModesetInv, TypeOK, PlaceOK, ListOK, KernelOK, Conns, Where, Making, TakingDown, Holds,
        NothingLost, options, devVars, kernel
<1>1. CASE Start BY <1>1 DEF Start
<1>2. CASE ModesetOpen BY <1>2 DEF ModesetOpen
<1>3. CASE GetResources BY <1>3 DEF GetResources
<1>4. CASE Connector
  <2>1. pc = "connector" /\ pc' \in {"connector", "create"} BY <1>4 DEF Connector, Skip
  <2>2. UNCHANGED <<kernel, modeset_list>> BY <1>4 DEF Connector
  <2> QED BY <2>1, <2>2
<1>5. CASE CreateDumb BY <1>5 DEF CreateDumb, Skip, Succeeds
<1>6. CASE AddFB BY <1>6 DEF AddFB, Succeeds
<1>7. CASE Map
  <2>1. pc = "map" /\ UNCHANGED <<drm_open, buffers, fbs, scan, iter>> BY <1>7 DEF Map
  <2>2. CASE /\ drm_open /\ pc' = "connector"
             /\ maps' = maps \union {i} /\ modeset_list' = modeset_list \union {i}
    BY <2>1, <2>2
  <2>3. CASE pc' = "err_fb" /\ UNCHANGED <<i, maps, modeset_list>>
    BY <2>1, <2>3
  <2> QED BY <1>7, <2>2, <2>3 DEF Map, Skip, Succeeds
<1>8. CASE ErrFb BY <1>8 DEF ErrFb, RmFB
<1>9. CASE ErrDestroy BY <1>9 DEF ErrDestroy, Skip
<1>10. CASE Prepared BY <1>10 DEF Prepared
<1>11. CASE GetCrtc BY <1>11 DEF GetCrtc
<1>12. CASE SetCrtc BY <1>12 DEF SetCrtc, Succeeds
<1>13. CASE Frame BY <1>13 DEF Frame
<1>14. CASE Draw BY <1>14 DEF Draw, Die
<1>15. CASE Told BY <1>15 DEF Told
<1>16. CASE Off
  <2>1. CASE Die BY <2>1 DEF Die
  <2>2. CASE ~ Die
    <3>1. PICK c \in modeset_list :
            /\ modeset_list' = modeset_list \ {c} /\ iter' = c /\ pc' = "unmap"
            /\ scan' = scan \/ scan' = [scan EXCEPT ![crtc[c]] = 0]
            /\ UNCHANGED <<drm_open, buffers, fbs, maps>> /\ pc = "off"
      BY <1>16, <2>2 DEF Off, Succeeds
    <3>2. \A x \in Crtcs : scan'[x] \in fbs' \union {0}
      BY <3>1
    <3>3. /\ buffers = IF ~ drm_open THEN {} ELSE modeset_list
          /\ fbs = IF ~ drm_open THEN {} ELSE modeset_list
      BY <3>1
    <3>4. modeset_list = modeset_list' \union {c}
      BY <3>1
    <3>5. /\ buffers' = IF ~ drm_open' THEN {} ELSE modeset_list' \union {c}
          /\ fbs' = IF ~ drm_open' THEN {} ELSE modeset_list' \union {c}
      BY <3>1, <3>3, <3>4
    <3>6. maps' = modeset_list' \union {c} /\ c \in Conns
      BY <3>1
    <3> QED BY <3>1, <3>2, <3>5, <3>6
  <2> QED BY <2>1, <2>2
<1>17. CASE Unmap BY <1>17 DEF Unmap
<1>18. CASE CleanupRmFB BY <1>18 DEF CleanupRmFB, RmFB
<1>19. CASE CleanupDestroy BY <1>19 DEF CleanupDestroy
<1>20. CASE Cleaned BY <1>20 DEF Cleaned
<1>21. CASE Close BY <1>21 DEF Close, CloseDrm
<1>22. CASE Signal
  <2>1. pc # "crashed" /\ UNCHANGED i BY <1>22 DEF Signal, Ended
  <2>2. CASE CloseDrm /\ maps' = maps \ modeset_list /\ modeset_list' = {} /\ UNCHANGED <<pc, iter>>
    <3>1. ~ drm_open' /\ buffers' = {} /\ fbs' = {} /\ \A x \in Crtcs : scan'[x] = 0
      BY <2>2 DEF CloseDrm
    <3>2. maps' = {c \in Conns : Holds({"unmap"}, c)}
      BY <2>1, <2>2
    <3> QED BY <2>2, <3>1, <3>2
  <2>3. CASE Die BY <2>3 DEF Die
  <2> QED BY <1>22, <2>2, <2>3 DEF Signal
<1> QED BY <1>1, <1>2, <1>3, <1>4, <1>5, <1>6, <1>7, <1>8, <1>9, <1>10, <1>11, <1>12, <1>13,
           <1>14, <1>15, <1>16, <1>17, <1>18, <1>19, <1>20, <1>21, <1>22 DEF Next, Main

LEMMA ModesetInvNext == ModesetInv /\ [Next]_vars => ModesetInv'
<1> SUFFICES ASSUME ModesetInv, [Next]_vars PROVE ModesetInv'
  OBVIOUS
<1>1. CASE Next
  <2>1. FlagsOK' BY <1>1, FlagsKept
  <2>2. TypeOK' BY <1>1, <2>1, PrepareKeepsType, RunKeepsType DEF Next, Main, Prepare, Run
  <2> QED BY <1>1, <2>2, WhereKept, ChosenKept, NothingLostKept DEF ModesetInv
<1>2. CASE UNCHANGED vars
  <2> USE <1>2 DEF vars, options, devVars, kernel, ModesetInv
  <2>1. TypeOK' BY DEF TypeOK, FlagsOK, PlaceOK, ListOK, KernelOK
  <2>2. Where' /\ NothingLost' BY DEF Where, NothingLost, Holds
  <2>3. Chosen' /\ CrtcExclusive' BY QuietKeeps DEF Quiet
  <2> QED BY <2>1, <2>2, <2>3
<1> QED BY <1>1, <1>2

LEMMA ModesetInvHolds == Spec => []ModesetInv
BY ModesetInvInit, ModesetInvNext, PTL DEF Spec

\* Type correctness: no index leaves its array, whatever the device has.
THEOREM ModesetTypeCorrect == Spec => []TypeOK
<1>1. ModesetInv => TypeOK
  BY DEF ModesetInv
<1> QED BY <1>1, ModesetInvHolds, PTL

\* No two screens share a CRTC, and each has one that can drive it.
THEOREM ModesetCrtcExclusive == Spec => []CrtcExclusive
<1>1. ModesetInv => CrtcExclusive
  BY DEF ModesetInv
<1> QED BY <1>1, ModesetInvHolds, PTL

\* No buffer, framebuffer or mapping is forgotten on any path, failing or not.
THEOREM ModesetNothingLost == Spec => []NothingLost
<1>1. ModesetInv => NothingLost
  BY DEF ModesetInv
<1> QED BY <1>1, ModesetInvHolds, PTL

-----------------------------------------------------------------------------
(* A CRTC that is on shows the device it was given to, and is off before that *)
(* device's framebuffer goes. *)

Lit ==
  /\ \A x \in Crtcs : scan[x] # 0 => crtc[scan[x]] = x
  /\ pc \in {"unmap", "rmfb"} /\ fails = 0 /\ drm_open => \A x \in Crtcs : scan[x] # iter
  /\ pc = "err_fb" /\ drm_open => fails > 0

LEMMA LitInit == Init => Lit
BY DEF Init, Lit

LEMMA LitKept ==
  ASSUME ModesetInv, Lit, TypeOK', Next
  PROVE  Lit'
<1> USE DEF ModesetInv, TypeOK, PlaceOK, ListOK, KernelOK, Conns, Where, Making, TakingDown, Lit,
        options, devVars, kernel
<1>1. CASE Start BY <1>1 DEF Start
<1>2. CASE ModesetOpen BY <1>2 DEF ModesetOpen
<1>3. CASE GetResources BY <1>3 DEF GetResources, Succeeds, Fails
<1>4. CASE Connector
  <2>1. /\ pc = "connector" /\ pc' \in {"connector", "create"} /\ i \in Conns
        /\ UNCHANGED <<scan, iter, fbs, drm_open>>
        /\ \A c \in Conns : c # i => crtc'[c] = crtc[c]
    BY <1>4 DEF Connector, Skip
  <2>2. \A x \in Crtcs : scan[x] # i
    BY <2>1 DEF NothingLost, Holds
  <2>3. \A x \in Crtcs : scan[x] # 0 => scan[x] \in Conns
    BY ModesetAssumption
  <2> QED BY <2>1, <2>2, <2>3
<1>5. CASE CreateDumb BY <1>5 DEF CreateDumb, Skip
<1>6. CASE AddFB BY <1>6 DEF AddFB, Skip
<1>7. CASE Map BY <1>7 DEF Map, Skip, Succeeds, Fails
<1>8. CASE ErrFb BY <1>8 DEF ErrFb, RmFB
<1>9. CASE ErrDestroy BY <1>9 DEF ErrDestroy, Skip
<1>10. CASE Prepared BY <1>10 DEF Prepared
<1>11. CASE GetCrtc BY <1>11 DEF GetCrtc, Succeeds, Fails
<1>12. CASE SetCrtc BY <1>12 DEF SetCrtc, Succeeds, Fails
<1>13. CASE Frame BY <1>13 DEF Frame
<1>14. CASE Draw BY <1>14 DEF Draw, Die
<1>15. CASE Told BY <1>15 DEF Told
<1>16. CASE Off
  <2>1. CASE Die BY <1>16, <2>1 DEF Off, Die
  <2>2. CASE ~ Die
    <3>1. PICK c \in modeset_list :
            /\ iter' = c /\ pc' = "unmap"
            /\ \/ drm_open /\ scan' = [scan EXCEPT ![crtc[c]] = 0]
               \/ scan' = scan /\ (drm_open => fails' = fails + 1)
            /\ UNCHANGED <<crtc, drm_open>>
      BY <1>16, <2>2 DEF Off, Succeeds, Fails
    <3>2. \A x \in Crtcs : scan'[x] # 0 => scan'[x] = scan[x]
      BY <3>1
    <3>3. fails' = 0 /\ drm_open' => \A x \in Crtcs : scan'[x] # iter'
      <4>1. c # 0 /\ ~ (drm_open /\ fails' = fails + 1 /\ fails' = 0)
        BY ModesetAssumption
      <4>2. \A x \in Crtcs : scan[x] = c => x = crtc[c]
        BY <4>1
      <4> QED BY <3>1, <4>1, <4>2
    <3> QED BY <3>1, <3>2, <3>3
  <2> QED BY <2>1, <2>2
<1>17. CASE Unmap BY <1>17 DEF Unmap
<1>18. CASE CleanupRmFB BY <1>18 DEF CleanupRmFB, RmFB
<1>19. CASE CleanupDestroy BY <1>19 DEF CleanupDestroy
<1>20. CASE Cleaned BY <1>20 DEF Cleaned
<1>21. CASE Close BY <1>21 DEF Close, CloseDrm
<1>22. CASE Signal BY <1>22 DEF Signal, CloseDrm, Die, Ended
<1> QED BY <1>1, <1>2, <1>3, <1>4, <1>5, <1>6, <1>7, <1>8, <1>9, <1>10, <1>11, <1>12, <1>13,
           <1>14, <1>15, <1>16, <1>17, <1>18, <1>19, <1>20, <1>21, <1>22 DEF Next, Main

\* No framebuffer is removed while a CRTC scans it out, if no call has failed.
THEOREM ModesetOffBeforeFree == Spec => OffBeforeFree
<1>1. ModesetInv /\ Lit /\ [Next]_vars => Lit'
  <2> SUFFICES ASSUME ModesetInv, Lit, [Next]_vars PROVE Lit'
    OBVIOUS
  <2>1. TypeOK' BY ModesetInvNext DEF ModesetInv
  <2>2. CASE UNCHANGED vars BY <2>2 DEF vars, options, devVars, kernel, Lit
  <2> QED BY <2>1, <2>2, LitKept
<1>2. ModesetInv /\ Lit /\ [Next]_vars
        => [\A c \in fbs \ fbs' : drm_open' /\ fails' = 0 => \A x \in Crtcs : scan[x] # c]_vars
  <2> SUFFICES ASSUME ModesetInv, Lit, Next, NEW c \in fbs \ fbs', drm_open', fails' = 0
               PROVE  \A x \in Crtcs : scan[x] # c
    OBVIOUS
  <2>1. CASE ErrFb BY <2>1 DEF ErrFb, RmFB, Lit
  <2>2. CASE CleanupRmFB BY <2>2 DEF CleanupRmFB, RmFB, Lit
  <2>3. CASE ~ ErrFb /\ ~ CleanupRmFB
    <3>1. fbs \subseteq fbs' \/ ~ drm_open'
      BY <2>3 DEF Next, Main, Start, ModesetOpen, GetResources, Connector, CreateDumb, AddFB, Map,
         ErrDestroy, Prepared, GetCrtc, SetCrtc, Frame, Draw, Told, Off, Unmap, CleanupDestroy,
         Cleaned, Close, Signal, Die, CloseDrm, kernel
    <3> QED BY <3>1
  <2> QED BY <2>1, <2>2, <2>3
<1> QED BY <1>1, <1>2, LitInit, ModesetInvHolds, PTL DEF Spec, OffBeforeFree
=============================================================================
