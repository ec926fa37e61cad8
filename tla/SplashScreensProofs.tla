------------------------ MODULE SplashScreensProofs ------------------------
(***************************************************************************)
(* What the screens end up showing, and what may crash the splash, for any *)
(* device: by the inductive invariant ScreensInv, on top of ModesetInv;    *)
(* and that the built-in picture is drawn whole, for any encoding of it    *)
(* that is not too long for the bound of its drawing.                      *)
(***************************************************************************)
EXTENDS SplashModesetProofs, WellFoundedInduction

\* The minima that the code's searches return exist.
LEMMA SmallestOf ==
  ASSUME NEW S, S \subseteq Nat, S # {}
  PROVE  \E m \in S : \A k \in S : m <= k
<1>1. PICK m \in S : \A k \in S : <<k, m>> \notin OpToRel(<, Nat)
  BY NatLessThanWellFounded, WFMin
<1>2. \A k \in S : ~ (k < m)
  BY <1>1 DEF OpToRel
<1>3. m \in Nat /\ \A k \in S : k \in Nat
  OBVIOUS
<1> QED BY <1>2, <1>3

\* The smallest pair: by the first component, then by the second.
LEMMA SmallestPair ==
  ASSUME NEW S, S \subseteq Nat \X Nat, S # {}
  PROVE  \E p \in S : \A q \in S : p[1] < q[1] \/ (p[1] = q[1] /\ p[2] <= q[2])
<1> DEFINE Firsts == {p[1] : p \in S}
<1>1. \A p \in S : p = <<p[1], p[2]>> /\ p[1] \in Nat /\ p[2] \in Nat
  OBVIOUS
<1>2. Firsts \subseteq Nat /\ Firsts # {}
  BY <1>1
<1>3. PICK e \in Firsts : \A f \in Firsts : e <= f
  BY <1>2, SmallestOf
<1> DEFINE Seconds == {p[2] : p \in {q \in S : q[1] = e}}
<1>4. Seconds \subseteq Nat /\ Seconds # {}
  BY <1>1
<1>5. PICK x \in Seconds : \A y \in Seconds : x <= y
  BY <1>4, SmallestOf
<1>6. PICK p \in S : p[1] = e /\ p[2] = x
  OBVIOUS
<1>7. ASSUME NEW q \in S
      PROVE  p[1] < q[1] \/ (p[1] = q[1] /\ p[2] <= q[2])
  <2>1. q[1] \in Firsts /\ e <= q[1]
    BY <1>3
  <2>2. q[1] = e => x <= q[2]
    BY <1>5
  <2> QED BY <1>1, <1>6, <2>1, <2>2
<1> QED BY <1>6, <1>7

\* The mode chosen is one of the connector's.
LEMMA ModeIsASize ==
  ASSUME TypeOK, NEW c \in Conns, Conn(c).modes # <<>>
  PROVE  Mode(c) \in Size
<1> DEFINE modes == Conn(c).modes
           Low   == {m \in DOMAIN modes : modes[m].h <= MaxSize}
<1>1. modes \in Seq(Size)
  BY BoardConn DEF ConnectorType
<1>2. CASE Low = {}
  <2>1. 1 \in DOMAIN modes BY <1>1
  <2> QED BY <1>1, <1>2, <2>1 DEF Mode
<1>3. CASE Low # {}
  <2>1. Low \subseteq Nat BY <1>1
  <2>2. \E m \in Low : \A k \in Low : m <= k
    BY <1>3, <2>1, SmallestOf
  <2>3. (CHOOSE m \in Low : \A k \in Low : m <= k) \in Low
    BY <2>2
  <2>4. Mode(c) = modes[CHOOSE m \in Low : \A k \in Low : m <= k]
    BY <1>3 DEF Mode
  <2>5. PICK m \in DOMAIN modes : Mode(c) = modes[m]
    BY <2>3, <2>4
  <2> HIDE DEF modes
  <2>6. modes[m] \in Size BY <1>1, <2>5
  <2> QED BY <2>5, <2>6
<1> QED BY <1>2, <1>3

\* A screen that the built-in picture does not fit is too small for it both ways.
LEMMA OutsideIsSmall ==
  ASSUME TypeOK, NEW c \in Conns, Conn(c).modes # <<>>, ~ Fits(BuiltIn(c), c)
  PROVE  Least(Mode(c).w, Mode(c).h) < ImgHeight \/ Most(Mode(c).w, Mode(c).h) < ImgWidth
<1>1. Mode(c).w \in Nat /\ Mode(c).h \in Nat
  BY ModeIsASize DEF Size
<1> QED BY <1>1, ModesetAssumption DEF Fits, BuiltIn, Least, Most

LEMMA AllowedIsCrtc ==
  ASSUME TypeOK, NEW c \in Conns
  PROVE  Allowed(c) \subseteq Crtcs
<1>1. ASSUME NEW e \in DOMAIN Conn(c).encoders
      PROVE  /\ Conn(c).encoders[e].crtc \in 0 .. NCrtcs
             /\ Conn(c).encoders[e].possible \subseteq Crtcs
  <2>1. Conn(c).encoders[e] \in Encoder BY BoardConn DEF ConnectorType
  <2> QED BY <2>1 DEF Encoder
<1>2. Current(c) \in 0 .. NCrtcs
  BY <1>1, ModesetAssumption DEF Current
<1> QED BY <1>1, <1>2 DEF Allowed, Crtcs

\* A connector that no CRTC was found for has all of its CRTCs in use.
LEMMA NotFoundIsUsed ==
  ASSUME TypeOK, NEW c \in Conns, \A x \in Crtcs : ~ FindCrtc(c, Asked(c), x)
  PROVE  Allowed(c) \subseteq Used
<1>1. Conn(c).encoders \in Seq(Encoder) /\ Conn(c).encoder \in Nat
  BY BoardConn DEF ConnectorType
<1>2. \A e \in DOMAIN Conn(c).encoders :
        /\ e \in Nat \ {0}
        /\ Conn(c).encoders[e].crtc \in 0 .. NCrtcs
        /\ Conn(c).encoders[e].possible \subseteq Crtcs
  <2> SUFFICES ASSUME NEW e \in DOMAIN Conn(c).encoders
               PROVE  e \in Nat \ {0} /\ Conn(c).encoders[e] \in Encoder
    BY DEF Encoder
  <2> QED BY <1>1
<1>3. Current(c) # 0 => 0 \in Asked(c) /\ Current(c) \in Crtcs
  BY <1>2, ModesetAssumption DEF Current, Asked, Crtcs
<1>4. Current(c) # 0 => Current(c) \in Used
  BY <1>3 DEF FindCrtc
<1>5. Free(c, Asked(c)) = {}
  <2> SUFFICES ASSUME Free(c, Asked(c)) # {} PROVE FALSE
    OBVIOUS
  <2>1. Asked(c) \subseteq Nat
    BY <1>2 DEF Asked
  <2>2. Free(c, Asked(c)) \subseteq Nat \X Nat
    BY <2>1 DEF Free, Crtcs
  <2>3. PICK p \in Free(c, Asked(c)) :
          \A q \in Free(c, Asked(c)) : p[1] < q[1] \/ (p[1] = q[1] /\ p[2] <= q[2])
    BY <2>2, SmallestPair
  <2>4. p[2] \in Crtcs
    BY <2>3 DEF Free
  <2> QED BY <1>4, <2>3, <2>4 DEF FindCrtc
<1>6. ASSUME NEW e \in DOMAIN Conn(c).encoders, NEW x \in Conn(c).encoders[e].possible
      PROVE  x \in Used
  <2>1. <<e, x>> \in (Asked(c) \ {0}) \X Crtcs
    BY <1>2, <1>6 DEF Asked
  <2> QED BY <1>5, <1>6, <2>1 DEF Free
<1> QED BY <1>4, <1>6 DEF Allowed

-----------------------------------------------------------------------------
\* A connector that is served, or that no CRTC is left for.
Ready(c) == c \in modeset_list \/ Allowed(c) \subseteq Used

Showing == {"frame", "draw", "wait"}
GivenUp == {"off"} \union TakingDown

\* What has a mode, and what has a saved_crtc when the splash is undisturbed.
Saved ==
  /\ \A c \in modeset_list : Conn(c).modes # <<>>
  /\ pc \in Making => Conn(i).modes # <<>>
  /\ fails = 0 /\ ~ caught =>
       /\ pc = "getcrtc" => modeset_list \ todo \subseteq saved_crtc
       /\ pc = "setcrtc" => modeset_list \ (todo \ {iter}) \subseteq saved_crtc
       /\ pc \in Showing \union GivenUp => modeset_list \subseteq saved_crtc

\* Undisturbed, each usable connector looked at has a device or finds no CRTC, and
\* each device of which main has set the mode is on its screen.
LitSoFar == fails = 0 /\ ~ caught =>
  /\ pc \in {"connector", "getcrtc", "setcrtc"} \union Making \union Showing => drm_open
  /\ pc \notin {"err_fb", "err_destroy"}
  /\ pc \in {"card", "open", "resources"} => i = 1
  /\ pc \in {"connector"} \union Making => \A c \in Conns : c < i /\ Usable(c) => Ready(c)
  /\ pc \in {"getcrtc", "setcrtc"} \union Showing => \A c \in Conns : Usable(c) => Ready(c)
  /\ pc \in {"getcrtc", "setcrtc"} => \A c \in modeset_list \ todo : scan[crtc[c]] = c
  /\ pc \in Showing => \A c \in modeset_list : scan[crtc[c]] = c

ScreensInv == Saved /\ LitSoFar /\ ScreensAgree /\ CrashReasons

LEMMA ScreensInvInit == Init => ScreensInv
BY DEF Init, ScreensInv, Saved, LitSoFar, ScreensAgree, CrashReasons, Making, Showing, GivenUp,
   TakingDown

\* As long as the board is the same, so are its modes, CRTCs and usable connectors.
LEMMA SameMode ==
  ASSUME UNCHANGED board, NEW c
  PROVE  Mode(c)' = Mode(c)
<1>1. Conn(c)' = Conn(c) BY DEF Conn
<1> DEFINE Low(modes)  == {m \in DOMAIN modes : modes[m].h <= MaxSize}
           Pick(modes) == IF Low(modes) = {} THEN modes[1]
                          ELSE modes[CHOOSE m \in Low(modes) : \A k \in Low(modes) : m <= k]
<1>2. Mode(c) = Pick(Conn(c).modes) BY DEF Mode
<1>3. Mode(c)' = Pick(Conn(c)'.modes) BY DEF Mode
<1> HIDE DEF Pick
<1> QED BY <1>1, <1>2, <1>3

LEMMA SameUse ==
  ASSUME UNCHANGED <<board, force_hdmi, force_no_hdmi>>, NEW c
  PROVE  Usable(c)' = Usable(c)
BY DEF Usable, Wanted, Conn

LEMMA SameReady ==
  ASSUME UNCHANGED <<board, modeset_list>>, \A d \in modeset_list : crtc'[d] = crtc[d], NEW c
  PROVE  Ready(c)' = Ready(c)
<1>1. Used' = Used BY DEF Used
<1>2. Allowed(c)' = Allowed(c) BY DEF Allowed, Current, Conn
<1> QED BY <1>1, <1>2 DEF Ready

\* The set-up: nothing that another device has done is undone.
LEMMA MoreReady ==
  ASSUME UNCHANGED <<board, crtc>>, modeset_list \subseteq modeset_list', NEW c, Ready(c)
  PROVE  Ready(c)'
<1>1. Used \subseteq Used' BY DEF Used
<1>2. Allowed(c)' = Allowed(c) BY DEF Allowed, Current, Conn
<1> QED BY <1>1, <1>2 DEF Ready

LEMMA SavedKept ==
  ASSUME ModesetInv, Saved, Next
  PROVE  Saved'
<1> USE DEF ModesetInv, TypeOK, PlaceOK, ListOK, Where, Making, TakingDown, Showing, GivenUp,
        Saved, Conn, options, devVars, kernel
<1>1. CASE Start BY <1>1 DEF Start
<1>2. CASE ModesetOpen BY <1>2 DEF ModesetOpen
<1>3. CASE GetResources BY <1>3 DEF GetResources, Fails, Succeeds
<1>4. CASE Connector BY <1>4 DEF Connector, Skip, Fails, Succeeds, Usable
<1>5. CASE CreateDumb BY <1>5 DEF CreateDumb, Skip, Fails, Succeeds
<1>6. CASE AddFB BY <1>6 DEF AddFB, Fails, Succeeds
<1>7. CASE Map BY <1>7 DEF Map, Skip, Fails, Succeeds
<1>8. CASE ErrFb BY <1>8 DEF ErrFb, RmFB
<1>9. CASE ErrDestroy BY <1>9 DEF ErrDestroy, Skip
<1>10. CASE Prepared BY <1>10 DEF Prepared
<1>11. CASE GetCrtc BY <1>11 DEF GetCrtc, Fails, Succeeds, Newest
<1>12. CASE SetCrtc BY <1>12 DEF SetCrtc, Fails, Succeeds
<1>13. CASE Frame BY <1>13 DEF Frame
<1>14. CASE Draw BY <1>14 DEF Draw, Die
<1>15. CASE Told BY <1>15 DEF Told
<1>16. CASE Off BY <1>16 DEF Off, Die, Fails, Succeeds, Newest
<1>17. CASE Unmap BY <1>17 DEF Unmap
<1>18. CASE CleanupRmFB BY <1>18 DEF CleanupRmFB, RmFB
<1>19. CASE CleanupDestroy BY <1>19 DEF CleanupDestroy
<1>20. CASE Cleaned BY <1>20 DEF Cleaned
<1>21. CASE Close BY <1>21 DEF Close, CloseDrm
<1>22. CASE Signal BY <1>22 DEF Signal, Die, CloseDrm, Ended
<1> QED BY <1>1, <1>2, <1>3, <1>4, <1>5, <1>6, <1>7, <1>8, <1>9, <1>10, <1>11, <1>12, <1>13,
           <1>14, <1>15, <1>16, <1>17, <1>18, <1>19, <1>20, <1>21, <1>22 DEF Next, Main

LEMMA AgreeKept ==
  ASSUME ModesetInv, ScreensAgree, Next
  PROVE  ScreensAgree'
<1> USE DEF ModesetInv, TypeOK, ListOK, ScreensAgree, options, devVars, kernel
<1>1. CASE Start BY <1>1 DEF Start
<1>2. CASE ModesetOpen BY <1>2 DEF ModesetOpen
<1>3. CASE GetResources BY <1>3 DEF GetResources, Fails, Succeeds
<1>4. CASE Connector BY <1>4 DEF Connector, Skip, Fails, Succeeds
<1>5. CASE CreateDumb BY <1>5 DEF CreateDumb, Skip, Fails, Succeeds
<1>6. CASE AddFB BY <1>6 DEF AddFB, Fails, Succeeds
<1>7. CASE Map BY <1>7 DEF Map, Skip, Fails, Succeeds
<1>8. CASE ErrFb BY <1>8 DEF ErrFb, RmFB
<1>9. CASE ErrDestroy BY <1>9 DEF ErrDestroy, Skip
<1>10. CASE Prepared BY <1>10 DEF Prepared
<1>11. CASE GetCrtc BY <1>11 DEF GetCrtc, Fails, Succeeds, Newest
<1>12. CASE SetCrtc BY <1>12 DEF SetCrtc, Fails, Succeeds
<1>13. CASE Frame BY <1>13 DEF Frame
<1>14. CASE Draw
  <2> SUFFICES ASSUME pc' = "wait", NEW c \in modeset_list, NEW d \in modeset_list
               PROVE  \/ shown'[c] = shown'[d] /\ (shown'[c] = "picture" => Fits(file, c))
                      \/ "garbled" \in {shown'[c], shown'[d]}
                         /\ "picture" \notin {shown'[c], shown'[d]}
    <3>1. \A e : Mode(e)' = Mode(e) BY <1>14, SameMode DEF Draw
    <3> QED BY <1>14, <3>1 DEF Draw, Fits
  <2>1. \A e \in modeset_list :
          IF Fallback(e) THEN shown'[e] \in {"builtin", "garbled"} ELSE shown'[e] = "picture"
    BY <1>14 DEF Draw, Die
  <2>2. Fallback(c) <=> Fallback(d)
    BY DEF Fallback
  <2>3. ~ Fallback(c) => Fits(file, c)
    BY DEF Fallback
  <2> QED BY <2>1, <2>2, <2>3
<1>15. CASE Told BY <1>15 DEF Told
<1>16. CASE Off BY <1>16 DEF Off, Die, Fails, Succeeds, Newest
<1>17. CASE Unmap BY <1>17 DEF Unmap
<1>18. CASE CleanupRmFB BY <1>18 DEF CleanupRmFB, RmFB
<1>19. CASE CleanupDestroy BY <1>19 DEF CleanupDestroy
<1>20. CASE Cleaned BY <1>20 DEF Cleaned
<1>21. CASE Close BY <1>21 DEF Close, CloseDrm
<1>22. CASE Signal BY <1>22 DEF Signal, Die, CloseDrm, Ended
<1> QED BY <1>1, <1>2, <1>3, <1>4, <1>5, <1>6, <1>7, <1>8, <1>9, <1>10, <1>11, <1>12, <1>13,
           <1>14, <1>15, <1>16, <1>17, <1>18, <1>19, <1>20, <1>21, <1>22 DEF Next, Main

LEMMA CrashKept ==
  ASSUME ModesetInv, Saved, CrashReasons, Next
  PROVE  CrashReasons'
<1> USE DEF ModesetInv, TypeOK, PlaceOK, Where, CrashReasons, options, devVars, kernel
<1>1. CASE Start BY <1>1 DEF Start
<1>2. CASE ModesetOpen BY <1>2 DEF ModesetOpen
<1>3. CASE GetResources BY <1>3 DEF GetResources, Fails, Succeeds
<1>4. CASE Connector BY <1>4 DEF Connector, Skip, Fails, Succeeds
<1>5. CASE CreateDumb BY <1>5 DEF CreateDumb, Skip, Fails, Succeeds
<1>6. CASE AddFB BY <1>6 DEF AddFB, Fails, Succeeds
<1>7. CASE Map BY <1>7 DEF Map, Skip, Fails, Succeeds
<1>8. CASE ErrFb BY <1>8 DEF ErrFb, RmFB
<1>9. CASE ErrDestroy BY <1>9 DEF ErrDestroy, Skip
<1>10. CASE Prepared BY <1>10 DEF Prepared
<1>11. CASE GetCrtc BY <1>11 DEF GetCrtc, Fails, Succeeds, Newest
<1>12. CASE SetCrtc BY <1>12 DEF SetCrtc, Fails, Succeeds
<1>13. CASE Frame BY <1>13 DEF Frame
<1>14. CASE Draw
  <2>1. CASE pc' = "wait" BY <2>1
  <2>2. CASE pc' # "wait"
    <3>1. PICK c \in modeset_list : ~ Fits(BuiltIn(c), c)
      BY <1>14, <2>2 DEF Draw
    <3>2. c \in Conns /\ Conn(c).modes # <<>>
      BY <3>1 DEF Saved, ListOK
    <3>3. Least(Mode(c).w, Mode(c).h) < ImgHeight \/ Most(Mode(c).w, Mode(c).h) < ImgWidth
      BY <3>1, <3>2, OutsideIsSmall
    <3>4. Mode(c)' = Mode(c) BY <1>14, SameMode DEF Draw
    <3> QED BY <1>14, <3>1, <3>3, <3>4 DEF Draw
  <2> QED BY <2>1, <2>2
<1>15. CASE Told BY <1>15 DEF Told
<1>16. CASE Off BY <1>16 DEF Off, Die, Newest, Saved, GivenUp
<1>17. CASE Unmap BY <1>17 DEF Unmap
<1>18. CASE CleanupRmFB BY <1>18 DEF CleanupRmFB, RmFB
<1>19. CASE CleanupDestroy BY <1>19 DEF CleanupDestroy
<1>20. CASE Cleaned BY <1>20 DEF Cleaned
<1>21. CASE Close BY <1>21 DEF Close, CloseDrm
<1>22. CASE Signal BY <1>22 DEF Signal, Die, CloseDrm, Ended
<1> QED BY <1>1, <1>2, <1>3, <1>4, <1>5, <1>6, <1>7, <1>8, <1>9, <1>10, <1>11, <1>12, <1>13,
           <1>14, <1>15, <1>16, <1>17, <1>18, <1>19, <1>20, <1>21, <1>22 DEF Next, Main

LEMMA LitSoFarKept ==
  ASSUME ModesetInv, LitSoFar, Next
  PROVE  LitSoFar'
<1> USE ModesetAssumption DEF ModesetInv, TypeOK, PlaceOK, ListOK, KernelOK, Where,
      Making, TakingDown,
        Showing, LitSoFar, Conns, options, devVars, kernel
<1>1. CASE Start BY <1>1 DEF Start
<1>2. CASE ModesetOpen
  <2>1. \A c : Ready(c)' = Ready(c) /\ Usable(c)' = Usable(c)
    BY <1>2, SameReady, SameUse DEF ModesetOpen
  <2> QED BY <1>2, <2>1 DEF ModesetOpen
<1>3. CASE GetResources
  <2>1. \A c : Ready(c)' = Ready(c) /\ Usable(c)' = Usable(c)
    BY <1>3, SameReady, SameUse DEF GetResources
  <2> QED BY <1>3, <2>1 DEF GetResources, Fails, Succeeds
<1>4. CASE Connector
  <2> SUFFICES ASSUME fails' = 0, ~ caught' PROVE LitSoFar'
    BY DEF LitSoFar
  <2>0. fails = 0 /\ ~ caught /\ pc = "connector" /\ i \in Conns /\ drm_open
    BY <1>4 DEF Connector, Fails, Succeeds
  <2>1. crtc' = crtc \/ \E x : crtc' = [crtc EXCEPT ![i] = x]
    BY <1>4 DEF Connector, Skip
  <2>2. i \notin modeset_list /\ \A d \in modeset_list : crtc'[d] = crtc[d]
    BY <2>0, <2>1
  <2>3. \A c : Ready(c)' = Ready(c) /\ Usable(c)' = Usable(c)
    BY <1>4, <2>2, SameReady, SameUse DEF Connector
  <2>4. ASSUME pc' = "connector"
        PROVE  i' = i + 1 /\ (Usable(i) => Ready(i))
    <3>1. i' = i + 1
      BY <1>4, <2>4, <2>0 DEF Connector, Skip
    <3>2. ASSUME Usable(i) PROVE Allowed(i) \subseteq Used
      <4>1. \A x \in Crtcs : ~ FindCrtc(i, Asked(i), x)
        BY <1>4, <2>0, <2>4, <3>2 DEF Connector, Fails, Succeeds
      <4> QED BY <2>0, <4>1, NotFoundIsUsed DEF ModesetInv
    <3> QED BY <3>1, <3>2 DEF Ready
  <2>5. pc' \in {"connector", "create"} /\ drm_open' /\ (pc' = "create" => i' = i)
    BY <1>4, <2>0 DEF Connector, Skip
  <2> QED BY <2>0, <2>3, <2>4, <2>5 DEF LitSoFar
<1>5. CASE CreateDumb
  <2>1. \A c : Ready(c)' = Ready(c) /\ Usable(c)' = Usable(c)
    BY <1>5, SameReady, SameUse DEF CreateDumb, Skip
  <2> QED BY <1>5, <2>1 DEF CreateDumb, Skip, Fails, Succeeds
<1>6. CASE AddFB
  <2>1. \A c : Ready(c)' = Ready(c) /\ Usable(c)' = Usable(c)
    BY <1>6, SameReady, SameUse DEF AddFB
  <2> QED BY <1>6, <2>1 DEF AddFB, Fails, Succeeds
<1>7. CASE Map
  <2> SUFFICES ASSUME fails' = 0, ~ caught' PROVE LitSoFar'
    BY DEF LitSoFar
  <2>0. /\ fails = 0 /\ ~ caught /\ pc = "map" /\ i \in Conns /\ drm_open
        /\ pc' = "connector" /\ i' = i + 1 /\ drm_open'
        /\ modeset_list' = modeset_list \union {i} /\ UNCHANGED <<board, crtc>>
    BY <1>7 DEF Map, Skip, Fails, Succeeds
  <2>1. \A c : Ready(c) => Ready(c)'
    BY <2>0, MoreReady
  <2>2. \A c : c = i => Ready(c)'
    BY <2>0 DEF Ready
  <2>3. \A c : Usable(c)' = Usable(c)
    BY <1>7, SameUse DEF Map
  <2>4. \A c \in Conns : c < i' /\ Usable(c)' => Ready(c)'
    <3>1. \A c \in Conns : c < i' => c < i \/ c = i BY <2>0
    <3> QED BY <2>0, <2>1, <2>2, <2>3, <3>1
  <2> QED BY <2>0, <2>4 DEF LitSoFar
<1>8. CASE ErrFb BY <1>8 DEF ErrFb, RmFB
<1>9. CASE ErrDestroy BY <1>9 DEF ErrDestroy, Skip
<1>10. CASE Prepared
  <2>1. \A c : Ready(c)' = Ready(c) /\ Usable(c)' = Usable(c)
    BY <1>10, SameReady, SameUse DEF Prepared
  <2> QED BY <1>10, <2>1 DEF Prepared
<1>11. CASE GetCrtc
  <2>1. \A c : Ready(c)' = Ready(c) /\ Usable(c)' = Usable(c)
    BY <1>11, SameReady, SameUse DEF GetCrtc
  <2> QED BY <1>11, <2>1 DEF GetCrtc, Fails, Succeeds, Newest
<1>12. CASE SetCrtc
  <2> SUFFICES ASSUME fails' = 0, ~ caught' PROVE LitSoFar'
    BY DEF LitSoFar
  <2>0. /\ fails = 0 /\ ~ caught /\ pc = "setcrtc" /\ drm_open /\ iter \in modeset_list
        /\ pc' = "getcrtc" /\ scan' = [scan EXCEPT ![crtc[iter]] = iter] /\ todo' = todo \
              {iter}
        /\ UNCHANGED <<drm_open, modeset_list, crtc>>
    BY <1>12 DEF SetCrtc, Fails, Succeeds
  <2>1. \A c : Ready(c)' = Ready(c) /\ Usable(c)' = Usable(c)
    BY <1>12, SameReady, SameUse DEF SetCrtc
  <2>2. ASSUME NEW c \in modeset_list \ todo'
        PROVE  scan'[crtc[c]] = c
    <3>1. CASE c = iter
      <4>1. crtc[iter] \in Allowed(iter) BY <2>0 DEF CrtcExclusive
      <4>2. Allowed(iter) \subseteq Crtcs
        BY <2>0, AllowedIsCrtc
      <4> QED BY <2>0, <3>1, <4>1, <4>2
    <3>2. CASE c # iter
      <4>1. crtc[c] # crtc[iter] /\ scan[crtc[c]] = c
        BY <2>0, <2>2, <3>2 DEF CrtcExclusive
      <4>2. crtc[c] \in Crtcs
        BY <2>0, <2>2, AllowedIsCrtc DEF CrtcExclusive
      <4> QED BY <2>0, <4>1, <4>2
    <3> QED BY <3>1, <3>2
  <2> QED BY <2>0, <2>1, <2>2 DEF LitSoFar
<1>13. CASE Frame
  <2>1. \A c : Ready(c)' = Ready(c) /\ Usable(c)' = Usable(c)
    BY <1>13, SameReady, SameUse DEF Frame
  <2> QED BY <1>13, <2>1 DEF Frame
<1>14. CASE Draw
  <2>1. \A c : Ready(c)' = Ready(c) /\ Usable(c)' = Usable(c)
    BY <1>14, SameReady, SameUse DEF Draw
  <2> QED BY <1>14, <2>1 DEF Draw, Die
<1>15. CASE Told BY <1>15 DEF Told
<1>16. CASE Off BY <1>16 DEF Off, Die, Fails, Succeeds, Newest
<1>17. CASE Unmap BY <1>17 DEF Unmap
<1>18. CASE CleanupRmFB BY <1>18 DEF CleanupRmFB, RmFB
<1>19. CASE CleanupDestroy BY <1>19 DEF CleanupDestroy
<1>20. CASE Cleaned BY <1>20 DEF Cleaned
<1>21. CASE Close BY <1>21 DEF Close, CloseDrm
<1>22. CASE Signal BY <1>22 DEF Signal
<1> QED BY <1>1, <1>2, <1>3, <1>4, <1>5, <1>6, <1>7, <1>8, <1>9, <1>10, <1>11, <1>12, <1>13,
           <1>14, <1>15, <1>16, <1>17, <1>18, <1>19, <1>20, <1>21, <1>22 DEF Next, Main

LEMMA ScreensInvHolds == Spec => []ScreensInv
<1>1. ModesetInv /\ ScreensInv /\ [Next]_vars => ScreensInv'
  <2> SUFFICES ASSUME ModesetInv, ScreensInv, [Next]_vars PROVE ScreensInv'
    OBVIOUS
  <2>1. CASE Next
    BY <2>1, SavedKept, LitSoFarKept, AgreeKept, CrashKept DEF ScreensInv
  <2>2. CASE UNCHANGED vars
    <3>1. \A c : Mode(c)' = Mode(c) /\ Usable(c)' = Usable(c) /\ Ready(c)' = Ready(c)
      BY <2>2, SameMode, SameUse, SameReady DEF vars, options, devVars
    <3>2. Saved' /\ LitSoFar'
      BY <2>2, <3>1 DEF ScreensInv, Saved, LitSoFar, vars, options, devVars, kernel, Conn
    <3>3. ScreensAgree' /\ CrashReasons'
      BY <2>2, <3>1 DEF ScreensInv, ScreensAgree, CrashReasons, Fits, vars, options, devVars
    <3> QED BY <3>2, <3>3 DEF ScreensInv
  <2> QED BY <2>1, <2>2
<1> QED BY <1>1, ScreensInvInit, ModesetInvHolds, PTL DEF Spec

-----------------------------------------------------------------------------
\* Whatever the screens' sizes and the file's, all of them get the same picture.
THEOREM ModesetScreensAgree == Spec => []ScreensAgree
<1>1. ScreensInv => ScreensAgree BY DEF ScreensInv
<1> QED BY <1>1, ScreensInvHolds, PTL

\* Nothing but a signal, a failed call or a small screen crashes the splash.
THEOREM ModesetCrashReasons == Spec => []CrashReasons
<1>1. ScreensInv => CrashReasons BY DEF ScreensInv
<1> QED BY <1>1, ScreensInvHolds, PTL

\* No usable connector stays dark while a CRTC that it could have is free.
THEOREM ModesetEveryScreenLit == Spec => []EveryScreenLit
<1>1. ScreensInv => EveryScreenLit
  BY DEF ScreensInv, LitSoFar, Showing, Ready, EveryScreenLit
<1> QED BY <1>1, ScreensInvHolds, PTL

-----------------------------------------------------------------------------
(* The built-in picture. *)

\* The recursion of Sums has a solution.
LEMMA SumsExist ==
  ASSUME NEW n \in Nat, NEW w
  PROVE  \E s : s = [k \in 0 .. n |-> IF k = 0 THEN 0 ELSE s[k - 1] + w[k]]
<1> DEFINE Upto(m, s) == s = [k \in 0 .. m |-> IF k = 0 THEN 0 ELSE s[k - 1] + w[k]]
           Short == {m \in Nat : ~ \E s : Upto(m, s)}
<1>1. Short = {}
  <2>1. SUFFICES ASSUME Short # {} PROVE FALSE
    OBVIOUS
  <2>2. PICK m \in Short : \A k \in Short : m <= k
    BY <2>1, SmallestOf
  <2>3. m # 0
    <3> DEFINE s == [k \in 0 .. 0 |-> 0]
    <3>1. s = [k \in 0 .. 0 |-> IF k = 0 THEN 0 ELSE s[k - 1] + w[k]]
      OBVIOUS
    <3> QED BY <3>1
  <2>4. m - 1 \in Nat /\ m - 1 \notin Short /\ m \in Nat
    <3>1. m \in Nat
      BY <2>2
    <3> HIDE DEF Short
    <3> QED BY <2>2, <2>3, <3>1
  <2>5. PICK s : Upto(m - 1, s)
    BY <2>4
  <2> DEFINE t == [k \in 0 .. m |-> IF k = m THEN s[m - 1] + w[m] ELSE s[k]]
  <2>6. \A k \in 0 .. m - 1 : s[k] = IF k = 0 THEN 0 ELSE s[k - 1] + w[k]
    BY <2>5
  <2>7. \A k \in 0 .. m : t[k] = IF k = 0 THEN 0 ELSE t[k - 1] + w[k]
    <3> SUFFICES ASSUME NEW k \in 0 .. m
                 PROVE  t[k] = IF k = 0 THEN 0 ELSE t[k - 1] + w[k]
      OBVIOUS
    <3>1. CASE k = m
      BY <2>3, <2>4, <3>1
    <3>2. CASE k # m
      BY <2>3, <2>4, <2>6, <3>2
    <3> QED BY <3>1, <3>2
  <2>8. t = [k \in 0 .. m |-> IF k = 0 THEN 0 ELSE t[k - 1] + w[k]]
    BY <2>7
  <2>9. \E s2 : Upto(m, s2)
    <3> HIDE DEF t
    <3> QED BY <2>8
  <2> QED BY <2>2, <2>9
<1> QED BY <1>1

\* Each sum is the one before it and one more.
LEMMA SumsStep ==
  ASSUME NEW n \in Nat, NEW w
  PROVE  /\ Sums(n, w)[0] = 0
         /\ \A k \in 1 .. n : Sums(n, w)[k] = Sums(n, w)[k - 1] + w[k]
<1>1. PICK s : s = [k \in 0 .. n |-> IF k = 0 THEN 0 ELSE s[k - 1] + w[k]]
  BY SumsExist
<1>2. Sums(n, w) = [k \in 0 .. n |-> IF k = 0 THEN 0 ELSE Sums(n, w)[k - 1] + w[k]]
  BY <1>1 DEF Sums
<1> QED BY <1>2

\* The sums of natural numbers do not decrease.
LEMMA SumsGrow ==
  ASSUME NEW n \in Nat, NEW w, \A k \in 1 .. n : w[k] \in Nat
  PROVE  \A k \in 0 .. n : Sums(n, w)[k] \in Nat /\ Sums(n, w)[k] <= Sums(n, w)[n]
<1> DEFINE s == Sums(n, w)
<1>1. s[0] = 0 /\ \A k \in 1 .. n : s[k] = s[k - 1] + w[k]
  BY SumsStep
<1> HIDE DEF s
<1>2. \A k \in 0 .. n : s[k] \in Nat
  <2> DEFINE Bad == {k \in 0 .. n : s[k] \notin Nat}
  <2> SUFFICES ASSUME Bad # {} PROVE FALSE
    OBVIOUS
  <2>1. PICK k \in Bad : \A j \in Bad : k <= j
    <3>1. Bad \subseteq Nat
      OBVIOUS
    <3> QED BY <3>1, SmallestOf
  <2>2. k \in 1 .. n /\ s[k] \notin Nat /\ k - 1 \in 0 .. n
    BY <1>1
  <2>3. k - 1 \notin Bad
    <3> HIDE DEF Bad
    <3> QED BY <2>1, <2>2
  <2>4. s[k - 1] \in Nat
    BY <2>2, <2>3
  <2> QED BY <1>1, <2>2, <2>4
<1>3. \A k \in 0 .. n : s[k] <= s[n]
  <2> DEFINE Bad == {d \in 0 .. n : ~ (s[n - d] <= s[n])}
  <2>1. Bad = {}
    <3> SUFFICES ASSUME Bad # {} PROVE FALSE
      OBVIOUS
    <3>1. PICK d \in Bad : \A e \in Bad : d <= e
      <4>1. Bad \subseteq Nat
        OBVIOUS
      <4> QED BY <4>1, SmallestOf
    <3>2. d \in 0 .. n /\ ~ (s[n - d] <= s[n])
      OBVIOUS
    <3>3. d # 0 /\ d - 1 \in 0 .. n /\ n - d \in 0 .. n /\ n - d + 1 \in 1 .. n
          /\ (n - d + 1) - 1 = n - d /\ n - (d - 1) = n - d + 1
      BY <1>2, <3>2
    <3>4. d - 1 \notin Bad
      <4> HIDE DEF Bad
      <4> QED BY <3>1, <3>2, <3>3
    <3>5. s[n - d + 1] <= s[n]
      BY <3>3, <3>4
    <3>6. s[n - d + 1] = s[n - d] + w[n - d + 1] /\ w[n - d + 1] \in Nat
      BY <1>1, <3>3
    <3>7. s[n - d] \in Nat /\ s[n - d + 1] \in Nat /\ s[n] \in Nat
      BY <1>2, <3>3
    <3> QED BY <3>2, <3>5, <3>6, <3>7
  <2>2. ASSUME NEW k \in 0 .. n PROVE s[k] <= s[n]
    <3>1. n - k \in 0 .. n /\ n - (n - k) = k
      OBVIOUS
    <3>2. n - k \notin Bad
      BY <2>1
    <3> QED BY <3>1, <3>2
  <2> QED BY <2>2
<1> QED BY <1>2, <1>3 DEF s

\* The bound cuts nothing off an encoding: all of its pixels are drawn.
LEMMA DecodedWhole ==
  ASSUME NEW r, NEW n \in Nat, Encodes(r, n)
  PROVE  Decoded(r, n * BytesPerPixel) = n
<1> DEFINE N == Len(r)
           bytes == [k \in 1 .. N |-> 1 + BytesPerPixel * (IF r[k].run THEN 1 ELSE r[k].len)]
           total == n * BytesPerPixel
<1>1. N \in Nat /\ \A k \in 1 .. N : r[k] \in [run : BOOLEAN, len : Nat \ {0}]
  <2> DEFINE Block == [run : BOOLEAN, len : Nat \ {0}]
  <2>1. r \in Seq(Block)
    BY DEF Encodes
  <2> HIDE DEF Block
  <2>2. Len(r) \in Nat /\ \A k \in 1 .. Len(r) : r[k] \in Block
    BY <2>1
  <2> QED BY <2>2 DEF Block
<1>2. \A k \in 1 .. N : r[k].run \in BOOLEAN /\ r[k].len \in Nat /\ r[k].len > 0
  BY <1>1
<1>3. \A k \in 1 .. N : bytes[k] \in Nat
  BY <1>2 DEF BytesPerPixel
<1>4. /\ \A k \in 0 .. N : Offsets(r)[k] \in Nat /\ Offsets(r)[k] <= Offsets(r)[N]
      /\ \A k \in 1 .. N : Offsets(r)[k] = Offsets(r)[k - 1] + bytes[k]
  <2>1. Offsets(r) = Sums(N, bytes)
    BY DEF Offsets
  <2> HIDE DEF bytes, N
  <2> QED BY <1>1, <1>3, <2>1, SumsGrow, SumsStep
<1>5. Offsets(r)[N] <= total + 2 /\ total \in Nat
  BY DEF Encodes, BytesPerPixel
<1>6. ASSUME NEW k \in 1 .. N
      PROVE  /\ Offsets(r)[k - 1] < total
             /\ BlockPixels(r[k], Offsets(r)[k - 1], total) = r[k].len
  <2> DEFINE at == Offsets(r)[k - 1]
             len == r[k].len
  <2>1. k - 1 \in 0 .. N /\ k \in 0 .. N
    BY <1>1
  <2>2. at \in Nat /\ len \in Nat /\ len > 0 /\ total \in Nat
    BY <1>2, <1>4, <1>5, <2>1
  <2>3. at + bytes[k] <= total + 2
    <3> HIDE DEF bytes, total
    <3> QED BY <1>3, <1>4, <1>5, <2>1
  <2>4. CASE r[k].run
    <3>1. bytes[k] = 4
      BY <2>4 DEF BytesPerPixel
    <3>2. at + 1 < total
      <4> HIDE DEF at, total, bytes
      <4> QED BY <2>2, <2>3, <3>1
    <3> QED BY <2>2, <2>4, <3>2 DEF BlockPixels
  <2>5. CASE ~ r[k].run
    <3>1. bytes[k] = 1 + 3 * len
      BY <2>5 DEF BytesPerPixel
    <3>2. at < total /\ len <= (total - at - 1 + 3 - 1) \div 3
      <4> HIDE DEF at, total, bytes, len
      <4> QED BY <2>2, <2>3, <3>1
    <3> HIDE DEF at, total, bytes, len
    <3>3. (total - at - 1 + 3 - 1) \div 3 \in Int
      BY <2>2
    <3>4. Least(len, Most(1, (total - at - 1 + 3 - 1) \div 3)) = len
      BY <2>2, <3>2, <3>3 DEF Least, Most
    <3> QED BY <2>5, <3>2, <3>4 DEF BlockPixels, BytesPerPixel, at, len
  <2> QED BY <1>2, <2>4, <2>5
<1>7. [k \in 1 .. N |-> IF Offsets(r)[k - 1] < total
                        THEN BlockPixels(r[k], Offsets(r)[k - 1], total) ELSE 0]
        = [k \in 1 .. N |-> r[k].len]
  <2> HIDE DEF total, N
  <2> QED BY <1>6
<1> QED BY <1>7 DEF Decoded, Encodes

\* The first w * h pixels, drawn line by line, fill a rectangle.
LEMMA CellsFill ==
  ASSUME NEW x \in Int, NEW y \in Int, NEW w \in Nat \ {0}, NEW h \in Nat
  PROVE  Cells(x, y, w, w * h) = Rectangle(x, y, w, h)
<1>1. ASSUME NEW k \in 0 .. w * h - 1
      PROVE  k % w \in 0 .. w - 1 /\ k \div w \in 0 .. h - 1
  <2>1. w * h \in Int /\ k \in Nat /\ k < w * h
    OBVIOUS
  <2>2. k \div w < h
    BY <2>1
  <2> QED BY <2>1, <2>2
<1>2. ASSUME NEW a \in 0 .. w - 1, NEW b \in 0 .. h - 1
      PROVE  \E k \in 0 .. w * h - 1 : k % w = a /\ k \div w = b
  <2> DEFINE k == w * b + a
  <2>1. k % w = a /\ k \div w = b
    OBVIOUS
  <2>2. k \in 0 .. w * h - 1
    <3>1. w * b + w = w * (b + 1) /\ b + 1 <= h
      OBVIOUS
    <3>2. w * (b + 1) <= w * h
      BY <3>1
    <3> QED BY <3>1, <3>2
  <2> QED BY <2>1, <2>2
<1>3. ASSUME NEW c \in Cells(x, y, w, w * h)
      PROVE  c \in Rectangle(x, y, w, h)
  <2>1. PICK k \in 0 .. w * h - 1 : c = <<x + (k % w), y + (k \div w)>>
    BY DEF Cells
  <2>2. k % w \in 0 .. w - 1 /\ k \div w \in 0 .. h - 1
    BY <1>1
  <2> DEFINE a == k % w
             b == k \div w
  <2>3. a \in 0 .. w - 1 /\ b \in 0 .. h - 1 /\ c = <<x + a, y + b>>
    BY <2>1, <2>2
  <2> HIDE DEF a, b
  <2> QED BY <2>3 DEF Rectangle
<1>4. ASSUME NEW c \in Rectangle(x, y, w, h)
      PROVE  c \in Cells(x, y, w, w * h)
  <2>1. PICK a \in 0 .. w - 1, b \in 0 .. h - 1 : c = <<x + a, y + b>>
    <3>1. PICK a \in x .. x + w - 1, b \in y .. y + h - 1 : c = <<a, b>>
      BY DEF Rectangle
    <3>2. a - x \in 0 .. w - 1 /\ b - y \in 0 .. h - 1 /\ x + (a - x) = a /\ y + (b - y) = b
      OBVIOUS
    <3> QED BY <3>1, <3>2
  <2>2. PICK k \in 0 .. w * h - 1 : k % w = a /\ k \div w = b
    BY <1>2
  <2> QED BY <2>1, <2>2 DEF Cells
<1> QED BY <1>3, <1>4

\* A picture no larger than the screen is as far from one side as from the other.
LEMMA CentreIsInside ==
  ASSUME NEW size \in Nat, NEW img \in Nat, img <= size
  PROVE  /\ Centre(size, img) \in 0 .. size
         /\ size - img - 2 * Centre(size, img) \in {0, 1}
BY DEF Centre

-----------------------------------------------------------------------------
\* The built-in picture is drawn on a screen that it fits.
BuiltInFits == \A c \in modeset_list : shown[c] = "builtin" => Fits(BuiltIn(c), c)

\* Nothing changes the mode of a screen, nor which way the picture is drawn.
LEMMA SameFit ==
  ASSUME UNCHANGED board, NEW c
  PROVE  Fits(BuiltIn(c), c)' = Fits(BuiltIn(c), c)
BY SameMode DEF Fits, BuiltIn

\* main draws it on each screen, and on nothing that comes later.
LEMMA BuiltInFitsKept ==
  ASSUME ModesetInv, BuiltInFits, [Next]_vars
  PROVE  BuiltInFits'
<1> USE DEF BuiltInFits, ModesetInv, TypeOK, ListOK, options, devVars, kernel
<1>1. UNCHANGED board
  BY DEF Next, Main, Start, ModesetOpen, GetResources, Connector, CreateDumb, AddFB, Map, ErrFb,
     ErrDestroy, Prepared, GetCrtc, SetCrtc, Frame, Draw, Off, Unmap, CleanupRmFB,
     CleanupDestroy, Cleaned, Close, Told, Signal, vars
<1>2. \A c : Fits(BuiltIn(c), c)' = Fits(BuiltIn(c), c)
  BY <1>1, SameFit
<1>3. CASE Map
  <2>1. i \in Conns
    BY <1>3 DEF Map, Where, Making
  <2> QED BY <1>2, <1>3, <2>1 DEF Map, Skip
<1>4. CASE Frame
  BY <1>2, <1>4 DEF Frame
<1>5. CASE Draw
  BY <1>2, <1>5 DEF Draw
<1>6. CASE UNCHANGED shown /\ modeset_list' \subseteq modeset_list
  BY <1>2, <1>6
<1>7. CASE ~ (Map \/ Frame \/ Draw)
  <2>1. UNCHANGED shown /\ modeset_list' \subseteq modeset_list
    BY <1>7 DEF Next, Main, Start, ModesetOpen, GetResources, Connector, CreateDumb, AddFB, ErrFb,
       ErrDestroy, Prepared, GetCrtc, SetCrtc, Off, Unmap, CleanupRmFB, CleanupDestroy, Cleaned,
       Close, Told, Signal, vars
  <2> QED BY <1>6, <2>1
<1> QED BY <1>3, <1>4, <1>5, <1>7

\* For any screens, picture and encoding of it, the built-in picture is drawn
\* whole, each pixel of it on the screen, and in the middle.
THEOREM ModesetBuiltInWhole == Spec => []BuiltInWhole
<1>1. ModesetInv /\ ScreensInv /\ BuiltInFits => BuiltInWhole
  <2> SUFFICES ASSUME ModesetInv, ScreensInv, BuiltInFits, NEW c \in modeset_list,
                      shown[c] = "builtin"
               PROVE  \E x, y \in 0 .. Most(Mode(c).w, Mode(c).h) :
                        /\ BuiltInCells(c) = Rectangle(x, y, BuiltIn(c).w, BuiltIn(c).h)
                        /\ Mode(c).w - BuiltIn(c).w - 2 * x \in {0, 1}
                        /\ Mode(c).h - BuiltIn(c).h - 2 * y \in {0, 1}
    BY DEF BuiltInWhole
  <2> DEFINE W == Mode(c).w
             H == Mode(c).h
             w == BuiltIn(c).w
             h == BuiltIn(c).h
  <2>1. W \in Nat /\ H \in Nat
    BY ModeIsASize DEF ScreensInv, Saved, ModesetInv, TypeOK, ListOK, Size
  <2>2. w \in Nat \ {0} /\ h \in Nat \ {0} /\ w * h = ImgWidth * ImgHeight
    BY ModesetAssumption DEF BuiltIn
  <2>3. w <= W /\ h <= H
    BY DEF BuiltInFits, Fits
  <2>4. Decoded(rle, w * h * BytesPerPixel) = w * h
    <3>1. Encodes(rle, w * h) /\ w * h \in Nat
      BY <2>2, EncodingAssumption DEF ModesetInv, TypeOK, PlaceOK
    <3> QED BY <3>1, DecodedWhole
  <2> DEFINE x == Centre(W, w)
             y == Centre(H, h)
  <2>5. BuiltInCells(c) = Cells(x, y, w, w * h)
    BY <2>4 DEF BuiltInCells
  <2> HIDE DEF W, H, w, h
  <2>6. /\ x \in 0 .. W /\ W - w - 2 * x \in {0, 1}
        /\ y \in 0 .. H /\ H - h - 2 * y \in {0, 1}
    BY <2>1, <2>2, <2>3, CentreIsInside
  <2>7. Cells(x, y, w, w * h) = Rectangle(x, y, w, h)
    BY <2>1, <2>2, <2>6, CellsFill
  <2>8. x \in 0 .. Most(W, H) /\ y \in 0 .. Most(W, H)
    BY <2>1, <2>6 DEF Most
  <2> HIDE DEF x, y
  <2> QED BY <2>5, <2>6, <2>7, <2>8 DEF W, H, w, h
<1>2. Init => BuiltInFits
  BY DEF Init, BuiltInFits
<1>3. ModesetInv /\ BuiltInFits /\ [Next]_vars => BuiltInFits'
  BY BuiltInFitsKept
<1> QED BY <1>1, <1>2, <1>3, ScreensInvHolds, ModesetInvHolds, PTL DEF Spec
=============================================================================
