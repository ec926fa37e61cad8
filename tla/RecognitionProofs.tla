-------------------------- MODULE RecognitionProofs --------------------------
(***************************************************************************)
(* The launcher implements Recognition, as far as safety goes, for the     *)
(* careful user and coprocessor of SequentialProofs: the drawing that the  *)
(* invariant there finds in one place at a time is the phase of the        *)
(* promise.  malloc has to have room for two timers: without it a finger   *)
(* lifted leaves no timer to notice the end of the drawing, and the        *)
(* drawing is never recognised.                                            *)
(* And the letter launched is the letter recognised, not only one of them. *)
(***************************************************************************)
EXTENDS SequentialProofs

\* Main only leaves its loop when it has been told to.
LeaveInv == mainPc \in {"join_tty", "finalize"} => ~ keepRunning

\* The phases the promise sees, in terms of the places of a drawing.
View == /\ HasResult <=> AtDone
        /\ Recognising \/ HasResult <=> Behind

\* What a step that is not the end keeps or changes of them.
Letter == IF mainPc = "launch" THEN script ELSE character

Same == /\ AtDone' <=> AtDone
        /\ Behind' <=> Behind
        /\ Drawing' <=> Drawing
        /\ AtDone => Letter' = Letter
        /\ launched' = launched

Draws == /\ ~ Behind /\ ~ Behind' /\ ~ Drawing /\ Drawing'
         /\ ~ AtDone /\ ~ AtDone'
         /\ launched' = launched

Pauses == /\ ~ Behind /\ Behind' /\ Drawing /\ ~ AtDone /\ ~ AtDone'
          /\ launched' = launched

Recognises == /\ Behind /\ ~ AtDone /\ AtDone' /\ Letter' \in Letters
              /\ launched' = launched

Launches == /\ AtDone /\ ~ AtDone' /\ ~ Behind' /\ ~ Drawing'
            /\ launched'.got = Letter

Sees == Same \/ Draws \/ Pauses \/ Recognises \/ Launches

\* malloc has room for the timers of a request and of a drawing.
TwoTimers == \E a1, a2 \in Addr : a1 # a2

USE DEF Context, TypeOK, SequentialInv, Behind, AtTouch, AtSend, AtSent, AtAckRx, AtAck, AtAi,
        AtStart, AtStarted, AtResultRx, AtResult, AtDone, AtLaunch, ctlVars, flagVars,
        bufVars, timerVars, userVars, linkVars, drawnVars, countVars, logVars, Stopping, Queued,
        Entering

-----------------------------------------------------------------------------
\* What is late stays late, and main is not told to go on.
LEMMA LateStays ==
  ASSUME Context, [Next]_vars
  PROVE  overdue \subseteq overdue' /\ (keepRunning' => keepRunning)
<1>1. WriteRequest("input_type") \/ WriteRequest("coordinates") \/ WriteRequest("start_nn")
        => overdue \subseteq overdue'
  BY DEF WriteRequest
<1>2. FirmwareStep => overdue \subseteq overdue' /\ UNCHANGED keepRunning
  BY FirmwareEffect DEF FirmwareStep
<1>3. MainStep => overdue \subseteq overdue' /\ (keepRunning' => keepRunning)
  BY <1>1 DEF MainStep, MainCheckFw, MainLoadFw, MainSpawnTty, MainReset, MainSpawnTouch,
     MainClear, MainTimerInit, MainPoll, MainTouchClear, MainSend, Request, MainAiClear,
     MainStartNn, MainWipe, MainRewind, MainDoneClear, MainShow, MainFormat, MainLaunch,
     RunScript, IntHandler, MainJoinTty, MainFinalize, MainJoinTimer, Crash, MainEnd
<1>4. TouchHandle \/ TouchRead => overdue \subseteq overdue' /\ UNCHANGED keepRunning
  BY <1>1 DEF TouchHandle, TouchRead, TouchSetup, TouchDown, TouchLetter, TouchBreak,
     TouchDownNext, TouchMove, TouchMoveNext, TouchUp, Crash
<1>5. TtyStep \/ PollerStep \/ Signal \/ (\E i \in Addr : Expire(i)) =>
        overdue \subseteq overdue' /\ (keepRunning' => keepRunning)
  BY DEF TtyStep, TtyOpen, TtyClose, TtyRead, ReadAll, TtyStop, TtyCoordAck, TtyResult,
     Crash, PollerStep, PollerFire, PollerTouch, PollerGtk, PollerRpmsg, RunScript, IntHandler,
     Signal, Expire
<1> QED BY <1>2, <1>3, <1>4, <1>5 DEF Next, MainThread, TouchThread, User, TtyThread, Clock,
     TimerThread, Kill, Coprocessor, Gone, vars

\* Once quitting, always quitting.
LEMMA QuittingStays ==
  ASSUME Context, Quitting, [Next]_vars
  PROVE  Quitting'
<1>1. status # "running" => status' # "running"
  BY DEF Next, MainThread, TouchThread, User, TtyThread, Clock, TimerThread, Kill, Coprocessor,
     Gone, Running, vars
<1> QED BY <1>1, LateStays DEF Quitting

-----------------------------------------------------------------------------
(* What each step is to the promise. *)

\* What main does before its loop is nothing to the user.
LEMMA BootSees == ASSUME Context, BootStep PROVE Same
BY DEF BootStep, MainCheckFw, stopFw, MainLoadFw, startFw, MainSpawnTty, MainReset,
   MainSpawnTouch, MainClear, MainTimerInit, Same, Letter, Drawing, Asked, BootInv,
   Fresh, Booting, EmptyRx, NoFrame

\* Main moves a drawing on, or works where there is none.
LEMMA LoopSees ==
  ASSUME Context, LoopStep, ~ MainLaunch PROVE Same
BY DEF LoopStep, MainPoll, MainTouchClear, MainAiClear, MainWipe, MainRewind, MainDoneClear,
   MainFormat, Same, Letter, Drawing, Asked, MainInv, OnePlace

\* The letter main launches is the one it was given.
LEMMA LaunchSees ==
  ASSUME Context, MainLaunch, ~ Quitting PROVE Launches
BY DEF MainLaunch, RunScript, IntHandler, Launches, Letter, Drawing, Asked, MainInv, OnePlace

\* Main on its way out.
LEMMA LeaveSees ==
  ASSUME Context, LeaveStep PROVE Same
BY DEF LeaveStep, MainJoinTty, MainEnd, stopFw, Same, Letter, Drawing, Asked

\* The tty's coordinates acknowledge moves the drawing on.
LEMMA TtyQuietSees ==
  ASSUME Context, TtyQuietStep, ~ TtyResult PROVE Same
BY DEF TtyQuietStep, TtyOpen, openTtyRpmsg, TtyClose, closeTtyRpmsg, TtyCoordAck, Same, Letter,
   Drawing, Asked, OnePlace, TtyInv, NoFrame

\* The tty's result is the letter.
LEMMA TtyResultSees ==
  ASSUME Context, TtyResult PROVE Recognises
BY DEF TtyResult, Recognises, Letter, Asked, OnePlace, LinkOK, Frames, NoFrame

\* The poller moves the drawing on, and the timers of a letter and of a request
\* have nothing to do while nothing is late.  The touch thread's set-up is no touch.
LEMMA QuietSees ==
  ASSUME Context, QuietStep, ~ Quitting PROVE Same
BY DEF QuietStep, PollerTouch, PollerGtk, PollerRpmsg, RunScript, IntHandler, Signal,
   TouchSetsUp, TouchSetup, NextEvent, Same, Letter, Drawing, Asked, OnePlace, OwnerInv,
   GuardInv, Quitting

\* A request takes the drawing to the coprocessor.
LEMMA RequestSees ==
  ASSUME Context, MainSend \/ MainStartNn, ~ Quitting'
  PROVE  Same
<1>1. txq = <<>> /\ rx = EmptyRx
  BY LinkIsIdle DEF MainSend, MainStartNn
<1>2. PICK type \in {"coordinates", "start_nn"} :
        /\ WriteRequest(type)
        /\ mainPc = "send" <=> type = "coordinates"
        /\ mainPc = "start_nn" <=> type = "start_nn"
  BY DEF MainSend, MainStartNn, Request
<1>3. Asked' = type
  <2>1. nreq \in Nat /\ nreq \notin overdue
    BY DEF LinkOK, LinkInv
  <2> QED BY <1>1, <1>2, <2>1, WriteEffect DEF RequestTypes, Quitting
<1>4. Drawing' <=> Drawing
  <2>1. PICK a \in Alloc(node) : node' = Started(node, a, "rpmsg", nreq)
    BY DEF MainSend, MainStartNn, Request
  <2>2. \A b \in Addr : node'[b] = node[b] \/ (node[b].kind = "none" /\ node'[b].kind = "rpmsg")
    BY <2>1, AllocEffect, StartedEffect DEF TimersOK, TimerKinds, LinkOK
  <2>3. UNCHANGED <<finger, touchPc>>
    BY DEF MainSend, MainStartNn
  <2> QED BY <2>2, <2>3 DEF Drawing
<1>5. /\ mainPc' \in {"top", "wipe"} /\ Asked = "none"
      /\ UNCHANGED <<poller, flagVars, frame, rx, launched, character, script>>
  BY <1>1, <1>2 DEF MainSend, MainStartNn, WriteRequest, Asked
<1> QED BY <1>1, <1>2, <1>3, <1>4, <1>5 DEF Same, Letter, OnePlace, EmptyRx, NoFrame

\* The letter is shown, its timer is nobody else's.
LEMMA ShowSees ==
  ASSUME Context, MainShow PROVE Same
<1>1. PICK a \in Alloc(node) : node' = Started(node, a, "gtk", 0)
  BY DEF MainShow
<1>2. \A b \in Addr : node'[b] = node[b] \/ (node[b].kind = "none" /\ node'[b].kind = "gtk")
  BY <1>1, AllocEffect, StartedEffect DEF TimersOK, TimerKinds
<1>3. Drawing' <=> Drawing
  BY <1>2 DEF MainShow, Drawing
<1> QED BY <1>3 DEF MainShow, Same, Letter, Asked

\* timer_finalize frees a drawing's timer, and the finger is forgotten: main
\* has been told to stop.
LEMMA FinalizeQuits ==
  ASSUME MainFinalize, LeaveInv PROVE Quitting'
BY DEF MainFinalize, LeaveInv, Quitting

\* Main waits for the timer thread.
LEMMA JoinTimerSees ==
  ASSUME Context, MainJoinTimer, ~ Quitting' PROVE Same
BY DEF MainJoinTimer, Crash, Quitting, Same, Letter, Drawing, Asked

\* The firmware answers the request with the frame that belongs to it.
LEMMA FirmwareSees ==
  ASSUME Context, FirmwareStep, ~ Quitting' PROVE Same
<1>1. /\ txq # <<>> /\ txq' = <<>> /\ Asked' = "none" /\ rx = EmptyRx
      /\ overdue' = {} /\ nreq - 1 \in Nat
      /\ \E f \in Answers(txq[1]) :
           rx' = [head |-> f, bytes |-> FrameBytes(f), ids |-> {nreq - 1}]
  <2>1. Firmware /\ overdue' = {}
    BY DEF FirmwareStep, Quitting
  <2> QED BY <2>1, FirmwareEffect
<1>2. \/ rx'.head.type = "ack" /\ Asked = "input_type"
      \/ rx'.head.type = "coord_ack" /\ Asked = "coordinates"
      \/ rx'.head.type = "result" /\ Asked = "start_nn"
  BY <1>1, txq[1].type \in RequestTypes DEF Answers, LinkInv, RequestTypes, Asked
<1> QED BY <1>1, <1>2 DEF FirmwareStep, Same, Letter, Drawing, OnePlace, EmptyRx, NoFrame

\* The frame is read: it was in the tty, it is in the thread now.
LEMMA TtyReadSees ==
  ASSUME Context, TtyRead PROVE Same
<1>1. /\ frame' = rx.head /\ frame = NoFrame /\ rx' = EmptyRx
      /\ UNCHANGED <<mainPc, touchPc, poller, flagVars, node, character, script, finger, txq,
                     launched>>
  BY DEF TtyRead, ReadAll, TtyInv
<1>2. Drawing' <=> Drawing
  BY <1>1 DEF Drawing
<1> QED BY <1>1, <1>2 DEF Same, Letter, Asked, EmptyRx, NoFrame

\* The timer of the request is stopped, no other one; an acknowledge that moves
\* no drawing on is dropped.
LEMMA TtyStopSees ==
  ASSUME Context, TtyStop, ~ Quitting' PROVE Same
<1>1. /\ node' = Stopped(node, timer3) /\ ttyPc \in Stopping
      /\ \/ frame' = frame
         \/ frame.type \notin {"coord_ack", "result"} /\ frame' = NoFrame
      /\ UNCHANGED <<mainPc, touchPc, poller, flagVars, character, script, finger, launched,
                     txq, rx>>
  BY DEF TtyStop, Crash, Quitting
<1>2. Pending /\ (mainPc \notin Finished \/ Fresh)
  BY <1>1 DEF Pending, TtyInv, Finished
<1>3. timer3 # NULL => timer3 \in Addr /\ node[timer3].kind = "rpmsg"
  BY <1>2 DEF GuardInv, TimersOK, Fresh
<1>4. /\ \A b \in Addr : b # timer3 => /\ node'[b].st = node[b].st
                                      /\ node'[b].kind = node[b].kind
      /\ timer3 \in Addr => node'[timer3].kind = "none"
  BY <1>1, StoppedEffect DEF TimersOK, FreeNode
<1>5. Drawing' <=> Drawing
  <2>1. \A b \in Addr : node[b].kind = "touch" <=> node'[b].kind = "touch"
    BY <1>3, <1>4, NullIsNoAddress
  <2>2. \A b \in Addr : node[b].kind = "touch" => node'[b].st = node[b].st
    BY <1>3, <1>4, NullIsNoAddress
  <2>3. UNCHANGED <<finger, touchPc>>
    BY <1>1
  <2> QED BY <2>1, <2>2, <2>3 DEF Drawing
<1> QED BY <1>1, <1>5 DEF Same, Letter, Asked, NoFrame

-----------------------------------------------------------------------------
(* The user and the timer of the drawing. *)

\* The user begins a drawing only where none is on its way.  A short read begins
\* none and ends none.
LEMMA TouchReadSees ==
  ASSUME Context, View, TouchRead PROVE Same \/ Draws
<1>1. ~ finger /\ finger' => ~ Behind
  BY DEF TouchRead, Careful, MayDraw, View
<1>2. ~ finger /\ finger' => touchPc' # "up" /\ Drawing'
  BY DEF TouchRead, Drawing
<1>3. finger => Drawing /\ Drawing'
  BY DEF TouchRead, Drawing
<1>4. Behind' <=> Behind
  BY DEF TouchRead, Asked
<1>5. (AtDone' <=> AtDone) /\ launched' = launched /\ Letter' = Letter
  BY DEF TouchRead, Letter
<1>6. ~ finger /\ ~ finger' => (Drawing' <=> Drawing)
  BY DEF TouchRead, Drawing
<1>7. AtDone => Behind
  OBVIOUS
<1> HIDE DEF Behind, AtDone
<1> QED BY <1>1, <1>2, <1>3, <1>4, <1>5, <1>6, <1>7 DEF Same, Draws

\* A timer that expires is still the drawing's.
LEMMA ExpireSees ==
  ASSUME Context, NEW i \in Addr, Expire(i) PROVE Same
<1>1. node[i].st = "armed"
  BY DEF Expire, Expirable
<1>2. /\ node'[i].st = "expired" /\ \A b \in Addr : b # i => node'[b] = node[b]
      /\ \A b \in Addr : node'[b].kind = node[b].kind
  BY <1>1, ExpiredEffect DEF Expire, Expired, TimersOK
<1>3. Drawing' <=> Drawing
  BY <1>1, <1>2 DEF Expire, Drawing
<1> QED BY <1>3 DEF Expire, Same, Letter, Asked

\* The timer of the drawing that fires is the pause that ends it.
LEMMA FireSees ==
  ASSUME Context, NEW i \in Addr, PollerFire(i) PROVE Same \/ Pauses
<1>1. /\ node'[i].st = "fired" /\ \A b \in Addr : b # i => node'[b] = node[b]
      /\ \A b \in Addr : node'[b].kind = node[b].kind
  BY ExpiredEffect DEF PollerFire, Fired, TimersOK
<1>2. node[i].st = "expired" /\ poller = "idle" /\ poller' = node[i].kind
  BY DEF PollerFire
<1>3. AtTouch' <=> AtTouch
  BY DEF PollerFire, Asked
<1>4. (AtDone' <=> AtDone) /\ launched' = launched /\ Letter' = Letter
  BY DEF PollerFire, Letter
<1>5. CASE node[i].kind = "touch"
  <2>1. Drawing /\ ~ Behind
    BY <1>2, <1>5 DEF Drawing, OnePlace
  <2> QED BY <1>2, <1>3, <1>4, <1>5, <2>1 DEF Pauses
<1>6. CASE node[i].kind # "touch"
  <2>1. Drawing' <=> Drawing
    BY <1>1, <1>6 DEF PollerFire, Drawing
  <2>2. Behind' <=> Behind
    BY <1>2, <1>3, <1>6
  <2> QED BY <1>4, <2>1, <2>2 DEF Same
<1> QED BY <1>5, <1>6

-----------------------------------------------------------------------------
(* The touch thread.  Its steps leave everything behind the screen alone.  *)

\* Nothing is on its way while the touch thread handles an event.
LEMMA TouchKeeps ==
  ASSUME Context, TouchHandle, ~ TouchSetup, ~ Quitting', Drawing <=> Drawing'
  PROVE  Same
<1>1. ~ Behind
  BY DEF TouchHandle, TouchDown, TouchLetter, TouchBreak, TouchDownNext, TouchMove,
     TouchMoveNext, TouchUp, OnePlace, FingerInv, Touching, Drawing
<1>2. /\ UNCHANGED <<mainPc, poller, flagVars, frame, rx, launched>>
      /\ Asked' \in {Asked, "input_type"}
  <2>1. CASE TouchUp /\ defaultInputType = 0
    <3>1. WriteRequest("input_type") /\ nreq = 0
      BY <2>1 DEF TouchUp, OrderInv
    <3>2. txq = <<>>
      <4>1. txq # <<>> => txq[1] \in Requests
        BY DEF LinkOK
      <4> QED BY <3>1, <4>1 DEF LinkInv, Requests
    <3> QED BY <2>1, <3>1, <3>2, WriteEffect DEF TouchUp, RequestTypes, Asked
  <2>2. CASE ~ (TouchUp /\ defaultInputType = 0)
    BY <2>2 DEF TouchHandle, TouchDown, TouchLetter, TouchBreak, TouchDownNext, TouchMove,
       TouchMoveNext, TouchUp, Crash, Quitting, Asked
  <2> QED BY <2>1, <2>2
<1> QED BY <1>1, <1>2 DEF Same

\* The finger is down while its events are handled.
LEMMA TouchDrawing ==
  ASSUME Context, TouchHandle, ~ TouchSetup, ~ TouchUp, ~ Quitting'
  PROVE  Drawing /\ Drawing'
BY DEF TouchHandle, TouchDown, TouchLetter, TouchBreak, TouchDownNext, TouchMove,
   TouchMoveNext, Crash, Quitting, FingerInv, Touching, Drawing

\* A finger that leaves the screen arms the timer of the drawing.
LEMMA UpDrawing ==
  ASSUME Context, TouchUp, ~ Quitting', TwoTimers
  PROVE  Drawing /\ Drawing'
<1> PICK a1 \in Addr, a2 \in Addr : a1 # a2
  BY DEF TwoTimers
<1>1. Drawing /\ touchPc = "up" /\ overdue' = {}
  BY DEF TouchUp, Drawing, Quitting
<1>2. \A a \in Addr : node[a].kind \notin {"touch", "gtk"}
  BY <1>1, NullIsNoAddress DEF OwnerInv, OnePlace
<1>3. SUFFICES \E b \in Addr : node'[b].st = "armed" /\ node'[b].kind = "touch"
  BY <1>1 DEF Drawing
<1>4. CASE defaultInputType # 0
  <2>1. PICK b \in Alloc(node) : node' = Started(node, b, "touch", 0)
    BY <1>4 DEF TouchUp
  <2>2. \A a \in Addr : node[a].kind = "rpmsg" => a = timer3
    BY <1>1, <1>4 DEF TouchUp, GuardInv
  <2>3. b # NULL
    BY <1>2, <2>2, AllocEffect, FreeKind DEF TimersOK, TimerKinds
  <2> QED BY <2>1, <2>3, AllocEffect, StartedEffect DEF TimersOK, TimerKinds
<1>5. CASE defaultInputType = 0
  <2>1. nreq = 0
    BY <1>5 DEF OrderInv
  <2>2. PICK a \in Alloc(node) : \E b \in Alloc(Started(node, a, "rpmsg", nreq)) :
          node' = Started(Started(node, a, "rpmsg", nreq), b, "touch", 0)
    BY <1>5 DEF TouchUp
  <2> DEFINE n == Started(node, a, "rpmsg", nreq)
  <2>3. PICK b \in Alloc(n) : node' = Started(n, b, "touch", 0)
    BY <2>2
  <2>4. \A c \in Addr : node[c].kind = "none"
    BY <1>2, <2>1, FreeKind DEF GuardInv, LinkInv, LinkOK, TimersOK, TimerKinds
  <2>5. n \in [Addr -> Nodes] /\ \A c \in Addr : c # a => n[c].kind = "none"
    BY <2>1, <2>4, StartedEffect DEF TimersOK, TimerKinds
  <2> HIDE DEF n
  <2>6. b # NULL /\ b \in Addr
    BY <2>3, <2>5, AllocEffect DEF n
  <2> QED BY <2>3, <2>5, <2>6, StartedEffect DEF n, TimerKinds
<1> QED BY <1>4, <1>5

-----------------------------------------------------------------------------
(* The promise. *)

\* The touch thread keeps the drawing what it is, a drawing.
LEMMA TouchSees ==
  ASSUME Context, TouchHandle, ~ Quitting', TwoTimers
  PROVE  Same
<1>1. TouchSetup => TouchSetsUp /\ ~ Quitting
  BY DEF TouchSetup, TouchSetsUp, Crash, Quitting
<1> QED BY <1>1, QuietSees, TouchDrawing, UpDrawing, TouchKeeps DEF QuietStep

\* Each step, unless the launcher quits, is one the promise knows, or none of it.
LEMMA NextSees ==
  ASSUME Context, LeaveInv, View, [Next]_vars, ~ Quitting, ~ Quitting',
         TwoTimers
  PROVE  Sees
<1> HIDE DEF Context, SequentialInv, TypeOK
<1> USE DEF Sees
<1>1. CASE MainThread
  BY <1>1, BootSees, LoopSees, LaunchSees, LeaveSees, RequestSees, ShowSees, FinalizeQuits,
     JoinTimerSees
  DEF MainThread, MainStep, BootStep, LoopStep, LeaveStep
<1>2. CASE TouchThread \/ User
  BY <1>2, TouchSees, TouchReadSees DEF TouchThread, User
<1>3. CASE TtyThread
  BY <1>3, TtyQuietSees, TtyResultSees, TtyReadSees, TtyStopSees
     DEF TtyThread, TtyStep, TtyQuietStep
<1>4. CASE TimerThread \/ Kill \/ \E i \in Addr : Clock(i)
  BY <1>4, FireSees, QuietSees, ExpireSees DEF TimerThread, PollerStep, Kill, Clock, QuietStep
<1>5. CASE Coprocessor
  BY <1>5, FirmwareSees DEF Coprocessor
<1>6. CASE Gone \/ UNCHANGED vars
  BY <1>6 DEF Gone, vars, Same, Letter, Drawing, Asked
<1> QED BY <1>1, <1>2, <1>3, <1>4, <1>5, <1>6 DEF Next

\* The promise's phases are the places of the drawing.
LEMMA ViewInv == ASSUME TypeOK, SequentialInv PROVE View
<1>1. (\E i \in DOMAIN txq : txq[i].type \in {"coordinates", "start_nn"})
        <=> Asked \in {"coordinates", "start_nn"}
  <2>1. CASE txq = <<>>
    BY <2>1 DEF Asked
  <2>2. CASE txq # <<>>
    <3> DEFINE q == txq[1]
    <3>1. txq = <<q>>
      BY <2>2 DEF LinkInv
    <3> HIDE DEF q
    <3>2. DOMAIN txq = {1} /\ txq[1] = q /\ txq # <<>>
      BY <3>1
    <3> QED BY <3>2 DEF Asked
  <2> QED BY <2>1, <2>2
<1> QED BY <1>1 DEF View, HasResult, Recognising, MainInv

\* What the promise's variables stand for, in the places of SequentialProofs.
LEMMA ViewStep ==
  ASSUME View, View', OnePlace, OnePlace', Quitting => Quitting',
         ~ Quitting /\ ~ Quitting' => Sees
  PROVE  [Promise!Next]_(Promise!vars)
<1> USE DEF Promise!Next, Promise!vars, Promise!Draw, Promise!Pause, Promise!Recognise,
            Promise!Launch, Promise!Quit
<1>1. CASE Quitting'
  BY <1>1
<1>2. CASE ~ Quitting'
  <2>1. /\ ~ Quitting /\ Sees
        /\ (HasResult <=> AtDone) /\ (HasResult' <=> AtDone')
        /\ (Recognising \/ HasResult <=> Behind) /\ (Recognising' \/ HasResult' <=> Behind')
        /\ (Drawing => ~ Behind) /\ (Drawing' => ~ Behind')
        /\ (AtDone => Behind) /\ (AtDone' => Behind')
    BY <1>2 DEF View, OnePlace
  <2> HIDE DEF Behind, AtDone
  <2>2. CASE Same
    BY <1>2, <2>1, <2>2 DEF Same, Letter
  <2>3. CASE Draws
    BY <1>2, <2>1, <2>3 DEF Draws
  <2>4. CASE Pauses
    BY <1>2, <2>1, <2>4 DEF Pauses
  <2>5. CASE Recognises
    BY <1>2, <2>1, <2>5 DEF Recognises, Letter
  <2>6. CASE Launches
    BY <1>2, <2>1, <2>6 DEF Launches, Letter
  <2> QED BY <2>1, <2>2, <2>3, <2>4, <2>5, <2>6 DEF Sees
<1> QED BY <1>1, <1>2

\* Main leaves its loop only then.
LEMMA LeaveNext ==
  ASSUME LeaveInv, TypeOK, [Next]_vars PROVE LeaveInv'
<1> USE DEF LeaveInv
<1>1. CASE MainThread
  BY <1>1 DEF MainThread, MainStep, MainCheckFw, MainLoadFw, MainSpawnTty, MainReset,
     MainSpawnTouch, MainClear, MainTimerInit, MainPoll, MainTouchClear, MainSend,
     MainAiClear, MainStartNn, MainWipe, MainRewind, MainDoneClear, MainShow, MainFormat,
     MainLaunch, MainJoinTty, MainFinalize, MainJoinTimer, Crash, MainEnd
<1>2. CASE ~ MainThread
  <2>1. mainPc' = mainPc /\ (keepRunning' => keepRunning)
    BY <1>2 DEF Next, TouchThread, TouchHandle, TouchSetup, TouchDown, TouchLetter, TouchBreak,
       TouchDownNext, TouchMove, TouchMoveNext, TouchUp, Crash, User, TouchRead, TtyThread,
       TtyStep, TtyOpen, TtyClose, TtyRead, TtyStop, TtyCoordAck, TtyResult, Clock, Expire,
       TimerThread, PollerStep, PollerFire, PollerTouch, PollerGtk, PollerRpmsg, RunScript,
       IntHandler, Kill, Signal, Coprocessor, FirmwareStep, Gone, vars
  <2> QED BY <2>1
<1> QED BY <1>1, <1>2

\* Every step of the launcher is a step the promise allows, or none of it: the
\* drawing that a pause has ended is recognised before another one is begun, and
\* the letter recognised is the letter launched, unless the launcher quits.
THEOREM ImplementsPromise ==
  ASSUME Careful, TwoTimers
  PROVE  Spec => Promise!Safety
<1>1. Init => Promise!Init
  <2> SUFFICES ASSUME Init PROVE Promise!Init
    OBVIOUS
  <2>1. ~ Quitting /\ ~ HasResult /\ ~ Recognising /\ ~ Drawing
    BY DEF Init, LinkInit, Quitting, HasResult, Recognising, Drawing, EmptyRx, NoFrame, FreeNode
  <2> QED BY <2>1 DEF Init, Promise!Init
<1>2. Init => LeaveInv
  BY DEF Init, LeaveInv
<1>3. LeaveInv /\ TypeOK /\ [Next]_vars => LeaveInv'
  BY LeaveNext
<1>4. TypeOK /\ SequentialInv => View /\ OnePlace
  BY ViewInv
<1>5. TypeOK /\ SequentialInv /\ LeaveInv /\ View /\ View' /\ OnePlace /\ OnePlace'
        /\ [Next]_vars => [Promise!Next]_(Promise!vars)
  <2> HIDE DEF TypeOK, SequentialInv, Behind, AtDone
  <2> SUFFICES ASSUME TypeOK, SequentialInv, LeaveInv, View, View', OnePlace, OnePlace',
                      [Next]_vars
               PROVE  [Promise!Next]_(Promise!vars)
    OBVIOUS
  <2>1. Quitting => Quitting'
    BY QuittingStays
  <2>2. ~ Quitting /\ ~ Quitting' => Sees
    BY NextSees
  <2> QED BY <2>1, <2>2, ViewStep
<1> HIDE DEF TypeOK, SequentialInv
<1> QED BY <1>1, <1>2, <1>3, <1>4, <1>5, TypeCorrect, SequentialCorrect, PTL
       DEF Spec, Promise!Safety

-----------------------------------------------------------------------------
(* The letter. *)

\* The letter of a result is in one place as well, and nobody else writes there.
LetterInv ==
  overdue = {} =>
    /\ aiProcessingDone => character = recognised
    /\ mainPc \in {"show", "format"} => character = taken
    /\ mainPc = "launch" => script = taken
    /\ launched.got = launched.want

\* The touch thread and the two timers that write a letter do so when none is there.
LEMMA LetterNext ==
  ASSUME Context, LetterInv, [Next]_vars
  PROVE  LetterInv'
<1>1. overdue' = {} => overdue = {}
  BY LateStays
<1> SUFFICES ASSUME overdue = {}, overdue' = {} PROVE LetterInv'
  BY <1>1 DEF LetterInv
<1> USE DEF LetterInv
<1>2. CASE MainThread
  BY <1>2 DEF MainThread, MainStep, MainCheckFw, MainLoadFw, MainSpawnTty, MainReset,
     MainSpawnTouch, MainClear, MainTimerInit, MainPoll, MainTouchClear, MainSend, MainAiClear,
     MainStartNn, MainWipe, MainRewind, MainDoneClear, MainShow, MainFormat, MainLaunch,
     MainJoinTty, MainFinalize, MainJoinTimer, Crash, MainEnd, MainInv, OnePlace
<1>3. CASE TouchThread
  <2>1. CASE TouchLetter
    <3>1. ~ Behind
      BY <2>1 DEF TouchLetter, OnePlace, FingerInv, Touching, Drawing
    <3> QED BY <2>1, <3>1 DEF TouchLetter
  <2>2. CASE ~ TouchLetter
    BY <1>3, <2>2 DEF TouchThread, TouchHandle, TouchSetup, TouchDown, TouchBreak,
       TouchDownNext, TouchMove, TouchMoveNext, TouchUp, Crash
  <2> QED BY <2>1, <2>2
<1>4. CASE TtyThread
  BY <1>4 DEF TtyThread, TtyStep, TtyOpen, TtyClose, TtyRead, TtyStop, TtyCoordAck, TtyResult,
     Crash, OnePlace
<1>5. CASE TimerThread
  <2>1. poller \notin {"rpmsg", "launch"}
    BY DEF GuardInv
  <2>2. poller = "gtk" => ~ aiProcessingDone /\ mainPc \notin {"show", "format"}
    BY DEF OwnerInv, OnePlace
  <2>3. UNCHANGED <<mainPc, aiProcessingDone, script, logVars>>
        /\ (poller # "gtk" => character' = character)
    BY <1>5, <2>1 DEF TimerThread, PollerStep, PollerFire, PollerTouch, PollerGtk, PollerRpmsg
  <2> QED BY <2>2, <2>3
<1>6. CASE User \/ Kill \/ Coprocessor \/ Gone \/ (\E i \in Addr : Clock(i)) \/ UNCHANGED vars
  BY <1>6 DEF User, TouchRead, Kill, Signal, Coprocessor, FirmwareStep, Gone, Clock, Expire,
     IntHandler, vars
<1> QED BY <1>2, <1>3, <1>4, <1>5, <1>6 DEF Next

\* The script is called with the letter of the result it is called for, unless
\* the silence of the coprocessor is why it is called: the finger that would
\* wipe the letter meanwhile is not put down by a careful user.
THEOREM LetterIsRight ==
  ASSUME Careful
  PROVE  Spec => []LaunchedIsRecognised
<1>1. Init => LetterInv
  BY DEF Init, LetterInv, LinkInit
<1>2. TypeOK /\ SequentialInv /\ LetterInv /\ [Next]_vars => LetterInv'
  BY LetterNext
<1>3. LetterInv => LaunchedIsRecognised
  BY DEF LetterInv, LaunchedIsRecognised
<1> HIDE DEF TypeOK, SequentialInv
<1> QED BY <1>1, <1>2, <1>3, TypeCorrect, SequentialCorrect, PTL DEF Spec

=============================================================================
