-------------------------- MODULE AiLauncherProofs --------------------------
(***************************************************************************)
(* Theorems about AiLauncher, for every value of its constants: any number *)
(* of timer addresses and letters, any size of the drawing, any user, any  *)
(* fault of the coprocessor.                                               *)
(***************************************************************************)
EXTENDS AiLauncher, TLAPS

(* What the timer operators return. *)

LEMMA FreeNodeType == FreeNode \in Nodes
BY DEF Nodes

LEMMA AllocType ==
  ASSUME NEW n \in [Addr -> Nodes], NEW a \in Alloc(n)
  PROVE  a \in Addr \union {NULL}
BY DEF Alloc, Live

LEMMA StartedType ==
  ASSUME NEW n \in [Addr -> Nodes], NEW a \in Addr \union {NULL},
         NEW kind \in TimerKinds, NEW req \in Nat
  PROVE  Started(n, a, kind, req) \in [Addr -> Nodes]
<1> DEFINE new == [st |-> "armed", kind |-> kind, req |-> req, older |-> Live(n)]
<1>1. new \in Nodes
  BY DEF Nodes, Live
<1>2. CASE a = NULL
  BY <1>2 DEF Started
<1>3. CASE a # NULL
  <2>1. Started(n, a, kind, req) = [n EXCEPT ![a] = new]
    BY <1>3 DEF Started
  <2> HIDE DEF new
  <2> QED BY <1>1, <2>1
<1> QED BY <1>2, <1>3

LEMMA StoppedType ==
  ASSUME NEW n \in [Addr -> Nodes], NEW h
  PROVE  Stopped(n, h) \in [Addr -> Nodes]
<1>1. ASSUME NEW b \in Addr PROVE [n[b] EXCEPT !.older = @ \ {h}] \in Nodes
  <2>1. CASE n[b] = FreeNode
    <3>1. [FreeNode EXCEPT !.older = @ \ {h}] = FreeNode
      BY DEF FreeNode
    <3> QED BY <2>1, <3>1, FreeNodeType
  <2>2. CASE n[b] # FreeNode
    BY <2>2, n[b] \in Nodes DEF Nodes
  <2> QED BY <2>1, <2>2
<1> QED BY <1>1, FreeNodeType DEF Stopped

LEMMA ExpiredType ==
  ASSUME NEW n \in [Addr -> Nodes], NEW a \in Addr, n[a].st # "free"
  PROVE  Expired(n, a) \in [Addr -> Nodes] /\ Fired(n, a) \in [Addr -> Nodes]
<1>1. n[a] \in Nodes /\ n[a] # FreeNode
  BY DEF FreeNode
<1>2. [n[a] EXCEPT !.st = "expired"] \in Nodes /\ [n[a] EXCEPT !.st = "fired"] \in Nodes
  BY <1>1 DEF Nodes
<1> QED BY <1>2 DEF Expired, Fired

LEMMA KindOfLive ==
  ASSUME NEW n \in [Addr -> Nodes], NEW a \in Addr, n[a].st # "free"
  PROVE  n[a].kind \in TimerKinds /\ n[a].req \in Nat
BY n[a] \in Nodes DEF Nodes, FreeNode

LEMMA FinalizedType ==
  ASSUME NEW n
  PROVE  Finalized(n) \in [Addr -> Nodes]
BY FreeNodeType DEF Finalized

(* What the drawing's operators return. *)

LEMMA WithAxisType ==
  ASSUME NEW cell \in Cells, NEW axis \in {"x", "y"}
  PROVE  WithAxis(cell, axis) \in Cells
BY DEF WithAxis, Cells

LEMMA NoDrawingType == NoDrawing \in [Index -> Cells]
BY DEF NoDrawing, Cells

LEMMA IndexFacts ==
  /\ 0 \in Index /\ 0 \in 0 .. Depth /\ 1 \in 0 .. Depth
  /\ \A i \in 0 .. Depth : i < Depth => i \in Index
  /\ \A i \in Index : i + 1 \in 0 .. Depth
BY LauncherAssumption DEF Index

-----------------------------------------------------------------------------
(* The initial state. *)

LEMMA InitType == Init => TypeOK
<1> SUFFICES ASSUME Init PROVE TypeOK
  OBVIOUS
<1>1. ThreadsOK /\ FlagsOK
  BY DEF Init, ThreadsOK, FlagsOK, Booting
<1>2. DrawingOK
  <2>1. << >> \in Seq(Cells)
    OBVIOUS
  <2> QED BY <2>1, IndexFacts, NoDrawingType DEF Init, DrawingOK
<1>3. TimersOK
  BY FreeNodeType DEF Init, TimersOK
<1>4. LinkOK
  <2>1. << >> \in Seq(Requests)
    OBVIOUS
  <2>2. EmptyRx \in [head : Frames \union {NoFrame}, bytes : Nat, ids : SUBSET Nat]
    BY DEF EmptyRx
  <2> QED BY <2>1, <2>2 DEF Init, LinkInit, LinkOK
<1>5. LettersOK
  BY DEF Init, LettersOK
<1> QED BY <1>1, <1>2, <1>3, <1>4, <1>5 DEF TypeOK

-----------------------------------------------------------------------------
(* A part of the type invariant is kept by a step that leaves its variables *)
(* alone.                                                                   *)

LEMMA KeepThreads ==
  ThreadsOK /\ UNCHANGED <<mainPc, touchPc, ttyPc, poller, lock, status>> => ThreadsOK'
BY DEF ThreadsOK

LEMMA KeepFlags ==
  FlagsOK /\ UNCHANGED <<keepRunning, threadClosingRequested, flagVars, defaultInputType,
                         userVars>> => FlagsOK'
BY DEF FlagsOK, flagVars, userVars

LEMMA KeepDrawing ==
  /\ DrawingOK /\ UNCHANGED <<bufVars, drawnVars>>
  /\ UNCHANGED touchPc \/ touchPc' \notin {"down_next", "move_next"}
  => DrawingOK'
BY DEF DrawingOK, bufVars, drawnVars

LEMMA KeepTimers == TimersOK /\ UNCHANGED timerVars => TimersOK'
BY DEF TimersOK, timerVars

LEMMA KeepLink == LinkOK /\ UNCHANGED <<linkVars, frame>> => LinkOK'
BY DEF LinkOK, linkVars

LEMMA KeepLetters ==
  LettersOK /\ UNCHANGED <<character, script, countVars, logVars>> => LettersOK'
BY DEF LettersOK, countVars, logVars

LEMMA CrashType ==
  ASSUME TypeOK, Crash("double_free") \/ Crash("overrun") \/ Crash("no_thread") \/ Crash("exited")
  PROVE  TypeOK'
<1>1. ThreadsOK'
  BY DEF TypeOK, ThreadsOK, Crash
<1>2. FlagsOK' /\ DrawingOK' /\ TimersOK' /\ LinkOK' /\ LettersOK'
  BY KeepFlags, KeepDrawing, KeepTimers, KeepLink, KeepLetters DEF TypeOK, Crash
<1> QED BY <1>1, <1>2 DEF TypeOK

(* The requests to the coprocessor. *)

LEMMA WriteRequestType ==
  ASSUME LinkOK, UNCHANGED frame, NEW type \in RequestTypes, WriteRequest(type)
  PROVE  LinkOK'
<1>1. [type |-> type, id |-> nreq] \in Requests
  BY DEF LinkOK, Requests
<1>2. txq' \in Seq(Requests)
  BY <1>1 DEF WriteRequest, LinkOK
<1>3. overdue' \in SUBSET Nat
  BY DEF WriteRequest, LinkOK
<1>4. nreq' \in Nat
  BY DEF WriteRequest, LinkOK
<1> QED BY <1>2, <1>3, <1>4 DEF WriteRequest, LinkOK

LEMMA RequestType ==
  ASSUME TimersOK, LinkOK, UNCHANGED <<frame, timer1, timer2>>,
         NEW type \in RequestTypes, Request(type, node)
  PROVE  TimersOK' /\ LinkOK'
<1>1. LinkOK'
  BY WriteRequestType DEF Request
<1>2. PICK a \in Alloc(node) : node' = Started(node, a, "rpmsg", nreq) /\ timer3' = a
  BY DEF Request
<1>3. a \in Addr \union {NULL}
  BY AllocType DEF TimersOK
<1>4. node' \in [Addr -> Nodes]
  BY <1>2, <1>3, StartedType DEF TimersOK, LinkOK, TimerKinds
<1> QED BY <1>1, <1>2, <1>3, <1>4 DEF TimersOK

-----------------------------------------------------------------------------
(* Steps of main. *)

LEMMA MainType == TypeOK /\ MainStep => TypeOK'
<1> SUFFICES ASSUME ThreadsOK, FlagsOK, DrawingOK, TimersOK, LinkOK, LettersOK, MainStep
             PROVE TypeOK'
  BY DEF TypeOK
<1>1. CASE MainCheckFw
  <2>1. ThreadsOK'
    BY <1>1 DEF MainCheckFw, ThreadsOK, Booting, ctlVars
  <2>2. LinkOK'
    BY <1>1 DEF MainCheckFw, stopFw, LinkOK, linkVars
  <2>3. FlagsOK' /\ DrawingOK' /\ TimersOK' /\ LettersOK'
    BY <1>1, KeepFlags, KeepDrawing, KeepTimers, KeepLetters DEF MainCheckFw, ctlVars
  <2> QED BY <2>1, <2>2, <2>3 DEF TypeOK
<1>2. CASE MainLoadFw
  <2>1. ThreadsOK'
    BY <1>2 DEF MainLoadFw, ThreadsOK, Booting, ctlVars
  <2>2. LinkOK'
    BY <1>2 DEF MainLoadFw, startFw, LinkOK, linkVars
  <2>3. FlagsOK' /\ DrawingOK' /\ TimersOK' /\ LettersOK'
    BY <1>2, KeepFlags, KeepDrawing, KeepTimers, KeepLetters DEF MainLoadFw, ctlVars
  <2> QED BY <2>1, <2>2, <2>3 DEF TypeOK
<1>3. CASE MainSpawnTty
  <2>1. ThreadsOK'
    BY <1>3 DEF MainSpawnTty, ThreadsOK, Booting, ctlVars
  <2>2. FlagsOK' /\ DrawingOK' /\ TimersOK' /\ LinkOK' /\ LettersOK'
    BY <1>3, KeepFlags, KeepDrawing, KeepTimers, KeepLink, KeepLetters DEF MainSpawnTty, ctlVars
  <2> QED BY <2>1, <2>2 DEF TypeOK
<1>4. CASE MainReset
  <2>1. ThreadsOK'
    BY <1>4 DEF MainReset, ThreadsOK, Booting, ctlVars
  <2>2. FlagsOK'
    BY <1>4 DEF MainReset, FlagsOK, flagVars, userVars, ctlVars
  <2>3. LettersOK'
    BY <1>4 DEF MainReset, LettersOK, countVars, logVars
  <2>4. DrawingOK' /\ TimersOK' /\ LinkOK'
    BY <1>4, KeepDrawing, KeepTimers, KeepLink DEF MainReset
  <2> QED BY <2>1, <2>2, <2>3, <2>4 DEF TypeOK
<1>5. CASE MainSpawnTouch
  <2>1. ThreadsOK'
    BY <1>5 DEF MainSpawnTouch, ThreadsOK, Booting, ctlVars
  <2>2. FlagsOK' /\ DrawingOK' /\ TimersOK' /\ LinkOK' /\ LettersOK'
    BY <1>5, KeepFlags, KeepDrawing, KeepTimers, KeepLink, KeepLetters
    DEF MainSpawnTouch, ctlVars
  <2> QED BY <2>1, <2>2 DEF TypeOK
<1>6. CASE MainClear
  <2>1. ThreadsOK'
    BY <1>6 DEF MainClear, ThreadsOK, Booting, ctlVars
  <2>2. DrawingOK'
    BY <1>6, IndexFacts, NoDrawingType DEF MainClear, DrawingOK, bufVars, drawnVars
  <2>3. FlagsOK' /\ TimersOK' /\ LinkOK' /\ LettersOK'
    BY <1>6, KeepFlags, KeepTimers, KeepLink, KeepLetters DEF MainClear, ctlVars
  <2> QED BY <2>1, <2>2, <2>3 DEF TypeOK
<1>7. CASE MainTimerInit
  <2>1. ThreadsOK'
    BY <1>7 DEF MainTimerInit, ThreadsOK, Booting, ctlVars
  <2>2. FlagsOK' /\ DrawingOK' /\ TimersOK' /\ LinkOK' /\ LettersOK'
    BY <1>7, KeepFlags, KeepDrawing, KeepTimers, KeepLink, KeepLetters DEF MainTimerInit, ctlVars
  <2> QED BY <2>1, <2>2 DEF TypeOK
<1>8. CASE MainPoll
  <2>1. ThreadsOK'
    BY <1>8 DEF MainPoll, ThreadsOK, Booting, ctlVars
  <2>2. FlagsOK' /\ DrawingOK' /\ TimersOK' /\ LinkOK' /\ LettersOK'
    BY <1>8, KeepFlags, KeepDrawing, KeepTimers, KeepLink, KeepLetters DEF MainPoll, ctlVars
  <2> QED BY <2>1, <2>2 DEF TypeOK
<1>9. CASE MainTouchClear
  <2>1. ThreadsOK'
    BY <1>9 DEF MainTouchClear, ThreadsOK, Booting, ctlVars
  <2>2. FlagsOK'
    BY <1>9 DEF MainTouchClear, FlagsOK, flagVars, userVars, ctlVars
  <2>3. DrawingOK' /\ TimersOK' /\ LinkOK' /\ LettersOK'
    BY <1>9, KeepDrawing, KeepTimers, KeepLink, KeepLetters DEF MainTouchClear
  <2> QED BY <2>1, <2>2, <2>3 DEF TypeOK
<1>10. CASE MainSend
  <2>1. ThreadsOK'
    BY <1>10 DEF MainSend, ThreadsOK, Booting, ctlVars
  <2>2. TimersOK'
    BY <1>10, RequestType DEF MainSend, TimersOK, timerVars, RequestTypes
  <2>3. LinkOK'
    BY <1>10, RequestType DEF MainSend, LinkOK, linkVars, RequestTypes
  <2>4. FlagsOK' /\ DrawingOK' /\ LettersOK'
    BY <1>10, KeepFlags, KeepDrawing, KeepLetters DEF MainSend, ctlVars
  <2> QED BY <2>1, <2>2, <2>3, <2>4 DEF TypeOK
<1>11. CASE MainAiClear
  <2>1. ThreadsOK'
    BY <1>11 DEF MainAiClear, ThreadsOK, Booting, ctlVars
  <2>2. FlagsOK'
    BY <1>11 DEF MainAiClear, FlagsOK, flagVars, userVars, ctlVars
  <2>3. DrawingOK' /\ TimersOK' /\ LinkOK' /\ LettersOK'
    BY <1>11, KeepDrawing, KeepTimers, KeepLink, KeepLetters DEF MainAiClear
  <2> QED BY <2>1, <2>2, <2>3 DEF TypeOK
<1>12. CASE MainStartNn
  <2>1. ThreadsOK'
    BY <1>12 DEF MainStartNn, ThreadsOK, Booting, ctlVars
  <2>2. TimersOK'
    BY <1>12, RequestType DEF MainStartNn, TimersOK, timerVars, RequestTypes
  <2>3. LinkOK'
    BY <1>12, RequestType DEF MainStartNn, LinkOK, linkVars, RequestTypes
  <2>4. LettersOK'
    BY <1>12 DEF MainStartNn, LettersOK, countVars, logVars
  <2>5. FlagsOK' /\ DrawingOK'
    BY <1>12, KeepFlags, KeepDrawing DEF MainStartNn, ctlVars
  <2> QED BY <2>1, <2>2, <2>3, <2>4, <2>5 DEF TypeOK
<1>13. CASE MainWipe
  <2>1. ThreadsOK'
    BY <1>13 DEF MainWipe, ThreadsOK, Booting, ctlVars
  <2>2. DrawingOK'
    BY <1>13, NoDrawingType DEF MainWipe, DrawingOK, bufVars, drawnVars
  <2>3. FlagsOK' /\ TimersOK' /\ LinkOK' /\ LettersOK'
    BY <1>13, KeepFlags, KeepTimers, KeepLink, KeepLetters DEF MainWipe, ctlVars
  <2> QED BY <2>1, <2>2, <2>3 DEF TypeOK
<1>14. CASE MainRewind
  <2>1. ThreadsOK'
    BY <1>14 DEF MainRewind, ThreadsOK, Booting, ctlVars
  <2>2. DrawingOK'
    BY <1>14, IndexFacts DEF MainRewind, DrawingOK, bufVars, drawnVars
  <2>3. FlagsOK' /\ TimersOK' /\ LinkOK' /\ LettersOK'
    BY <1>14, KeepFlags, KeepTimers, KeepLink, KeepLetters DEF MainRewind, ctlVars
  <2> QED BY <2>1, <2>2, <2>3 DEF TypeOK
<1>15. CASE MainDoneClear
  <2>1. ThreadsOK'
    BY <1>15 DEF MainDoneClear, ThreadsOK, Booting, ctlVars
  <2>2. FlagsOK'
    BY <1>15 DEF MainDoneClear, FlagsOK, flagVars, userVars, ctlVars
  <2>3. LettersOK'
    BY <1>15 DEF MainDoneClear, LettersOK, countVars, logVars
  <2>4. DrawingOK' /\ TimersOK' /\ LinkOK'
    BY <1>15, KeepDrawing, KeepTimers, KeepLink DEF MainDoneClear
  <2> QED BY <2>1, <2>2, <2>3, <2>4 DEF TypeOK
<1>16. CASE MainShow
  <2>1. ThreadsOK'
    BY <1>16 DEF MainShow, ThreadsOK, Booting, ctlVars
  <2>2. PICK a \in Alloc(node) : node' = Started(node, a, "gtk", 0) /\ timer2' = a
    BY <1>16 DEF MainShow
  <2>3. a \in Addr \union {NULL}
    BY AllocType DEF TimersOK
  <2>4. node' \in [Addr -> Nodes]
    BY <2>2, <2>3, StartedType DEF TimersOK, TimerKinds
  <2>5. TimersOK'
    BY <1>16, <2>2, <2>3, <2>4 DEF MainShow, TimersOK
  <2>6. FlagsOK' /\ DrawingOK' /\ LinkOK' /\ LettersOK'
    BY <1>16, KeepFlags, KeepDrawing, KeepLink, KeepLetters DEF MainShow, ctlVars
  <2> QED BY <2>1, <2>5, <2>6 DEF TypeOK
<1>17. CASE MainFormat
  <2>1. ThreadsOK'
    BY <1>17 DEF MainFormat, ThreadsOK, Booting, ctlVars
  <2>2. LettersOK'
    BY <1>17 DEF MainFormat, LettersOK, countVars, logVars
  <2>3. FlagsOK' /\ DrawingOK' /\ TimersOK' /\ LinkOK'
    BY <1>17, KeepFlags, KeepDrawing, KeepTimers, KeepLink DEF MainFormat, ctlVars
  <2> QED BY <2>1, <2>2, <2>3 DEF TypeOK
<1>18. CASE MainLaunch
  <2>1. ThreadsOK'
    BY <1>18 DEF MainLaunch, ThreadsOK, Booting, ctlVars, RunScript, IntHandler
  <2>2. FlagsOK'
    BY <1>18 DEF MainLaunch, FlagsOK, flagVars, userVars, ctlVars, RunScript, IntHandler
  <2>3. LettersOK'
    BY <1>18 DEF MainLaunch, LettersOK, countVars, logVars
  <2>4. DrawingOK' /\ TimersOK' /\ LinkOK'
    BY <1>18, KeepDrawing, KeepTimers, KeepLink DEF MainLaunch
  <2> QED BY <2>1, <2>2, <2>3, <2>4 DEF TypeOK
<1>19. CASE MainJoinTty
  <2>1. ThreadsOK'
    BY <1>19 DEF MainJoinTty, ThreadsOK, Booting, ctlVars
  <2>2. FlagsOK' /\ DrawingOK' /\ TimersOK' /\ LinkOK' /\ LettersOK'
    BY <1>19, KeepFlags, KeepDrawing, KeepTimers, KeepLink, KeepLetters DEF MainJoinTty, ctlVars
  <2> QED BY <2>1, <2>2 DEF TypeOK
<1>20. CASE MainFinalize
  <2>1. ThreadsOK'
    BY <1>20 DEF MainFinalize, ThreadsOK, Booting, ctlVars
  <2>2. TimersOK'
    BY <1>20, FinalizedType DEF MainFinalize, TimersOK, timerVars
  <2>3. FlagsOK' /\ DrawingOK' /\ LinkOK' /\ LettersOK'
    BY <1>20, KeepFlags, KeepDrawing, KeepLink, KeepLetters DEF MainFinalize, ctlVars
  <2> QED BY <2>1, <2>2, <2>3 DEF TypeOK
<1>21. CASE MainJoinTimer
  <2>1. CASE poller = "idle"
    <3>1. ThreadsOK'
      BY <1>21, <2>1 DEF MainJoinTimer, ThreadsOK, ctlVars
    <3>2. FlagsOK' /\ DrawingOK' /\ TimersOK' /\ LinkOK' /\ LettersOK'
      BY <1>21, <2>1, KeepFlags, KeepDrawing, KeepTimers, KeepLink, KeepLetters
      DEF MainJoinTimer, ctlVars
    <3> QED BY <3>1, <3>2 DEF TypeOK
  <2>2. CASE Crash("no_thread")
    BY <2>2, CrashType DEF TypeOK
  <2> QED BY <1>21, <2>1, <2>2 DEF MainJoinTimer
<1>22. CASE MainEnd
  <2>1. ThreadsOK'
    BY <1>22 DEF MainEnd, ThreadsOK, Booting, ctlVars
  <2>2. LinkOK'
    BY <1>22 DEF MainEnd, stopFw, LinkOK, linkVars
  <2>3. FlagsOK' /\ DrawingOK' /\ TimersOK' /\ LettersOK'
    BY <1>22, KeepFlags, KeepDrawing, KeepTimers, KeepLetters DEF MainEnd, ctlVars
  <2> QED BY <2>1, <2>2, <2>3 DEF TypeOK
<1> QED
  BY <1>1, <1>2, <1>3, <1>4, <1>5, <1>6, <1>7, <1>8, <1>9, <1>10, <1>11, <1>12, <1>13, <1>14,
     <1>15, <1>16, <1>17, <1>18, <1>19, <1>20, <1>21, <1>22
  DEF MainStep

-----------------------------------------------------------------------------
(* Steps of the touch event thread. *)

LEMMA TouchType == TypeOK /\ TouchHandle => TypeOK'
<1> SUFFICES ASSUME ThreadsOK, FlagsOK, DrawingOK, TimersOK, LinkOK, LettersOK, TouchHandle
             PROVE TypeOK'
  BY DEF TypeOK
<1>1. CASE TouchDown
  <2>1. CASE Crash("double_free")
    BY <2>1, CrashType DEF TypeOK
  <2>2. CASE ~ Crash("double_free")
    <3> DEFINE n == Stopped(node, timer1)
    <3>1. /\ touchPc' \in {"letter", "break"} /\ node' = Stopped(n, timer2) /\ timer1' = NULL
          /\ UNCHANGED <<mainPc, ttyPc, poller, lock, ctlVars, flagVars, defaultInputType,
                         character, script, bufVars, timer2, timer3, frame, userVars,
                         linkVars, drawnVars, countVars, logVars>>
      BY <1>1, <2>2 DEF TouchDown
    <3>2. n \in [Addr -> Nodes]
      BY StoppedType DEF TimersOK
    <3> HIDE DEF n
    <3>3. node' \in [Addr -> Nodes]
      BY <3>1, <3>2, StoppedType
    <3>4. ThreadsOK'
      BY <3>1 DEF ThreadsOK, ctlVars
    <3>5. TimersOK'
      BY <3>1, <3>3 DEF TimersOK
    <3>6. FlagsOK' /\ DrawingOK' /\ LinkOK' /\ LettersOK'
      BY <3>1, KeepFlags, KeepDrawing, KeepLink, KeepLetters DEF ctlVars
    <3> QED BY <3>4, <3>5, <3>6 DEF TypeOK
  <2> QED BY <2>1, <2>2
<1>2. CASE TouchLetter
  <2>1. ThreadsOK'
    BY <1>2 DEF TouchLetter, ThreadsOK, ctlVars
  <2>2. TimersOK'
    BY <1>2 DEF TouchLetter, TimersOK
  <2>3. LettersOK'
    BY <1>2 DEF TouchLetter, LettersOK, countVars, logVars
  <2>4. FlagsOK' /\ DrawingOK' /\ LinkOK'
    BY <1>2, KeepFlags, KeepDrawing, KeepLink DEF TouchLetter, ctlVars
  <2> QED BY <2>1, <2>2, <2>3, <2>4 DEF TypeOK
<1>3. CASE TouchBreak
  <2>1. CASE Crash("overrun")
    BY <2>1, CrashType DEF TypeOK
  <2>2. CASE ~ Crash("overrun")
    <3>1. /\ touchPc' = "down_next" /\ touch_idx < Depth
          /\ draw_touch_coordinate' = [draw_touch_coordinate EXCEPT ![touch_idx] = "break"]
          /\ idx' = touch_idx
          /\ drawn' = <<"break">> \/ drawn' = Append(drawn, "break")
          /\ paused' = FALSE
          /\ UNCHANGED <<mainPc, ttyPc, poller, lock, ctlVars, flagVars, defaultInputType,
                         character, script, touch_idx, timerVars, frame, userVars,
                         linkVars, countVars, logVars>>
      BY <1>3, <2>2, LauncherAssumption DEF TouchBreak, DrawingOK
    <3>2. ThreadsOK'
      BY <3>1 DEF ThreadsOK, ctlVars
    <3>3. DrawingOK'
      <4>1. touch_idx \in Index
        BY <3>1, IndexFacts DEF DrawingOK
      <4>2. "break" \in Cells
        BY DEF Cells
      <4>3. draw_touch_coordinate' \in [Index -> Cells]
        BY <3>1, <4>2 DEF DrawingOK
      <4>4. drawn' \in Seq(Cells)
        <5>1. <<"break">> \in Seq(Cells)
          BY <4>2
        <5>2. Append(drawn, "break") \in Seq(Cells)
          BY <4>2 DEF DrawingOK
        <5> QED BY <3>1, <5>1, <5>2
      <4> QED BY <3>1, <4>1, <4>3, <4>4 DEF DrawingOK
    <3>4. FlagsOK' /\ TimersOK' /\ LinkOK' /\ LettersOK'
      BY <3>1, KeepFlags, KeepTimers, KeepLink, KeepLetters DEF ctlVars
    <3> QED BY <3>2, <3>3, <3>4 DEF TypeOK
  <2> QED BY <2>1, <2>2
<1>4. CASE TouchSetup
  <2>1. CASE Crash("exited")
    BY <2>1, CrashType DEF TypeOK
  <2>2. CASE ~ Crash("exited")
    <3>1. ThreadsOK'
      BY <1>4, <2>2 DEF TouchSetup, ThreadsOK, NextEvent, ctlVars
    <3>2. FlagsOK' /\ DrawingOK' /\ TimersOK' /\ LinkOK' /\ LettersOK'
      BY <1>4, <2>2, KeepFlags, KeepDrawing, KeepTimers, KeepLink, KeepLetters
      DEF TouchSetup, NextEvent, ctlVars
    <3> QED BY <3>1, <3>2 DEF TypeOK
  <2> QED BY <2>1, <2>2
<1>5. CASE TouchDownNext
  <2>1. ThreadsOK'
    BY <1>5 DEF TouchDownNext, ThreadsOK, ctlVars, NextEvent
  <2>2. DrawingOK'
    BY <1>5, IndexFacts DEF TouchDownNext, DrawingOK, bufVars, drawnVars
  <2>3. FlagsOK' /\ TimersOK' /\ LinkOK' /\ LettersOK'
    BY <1>5, KeepFlags, KeepTimers, KeepLink, KeepLetters DEF TouchDownNext, ctlVars
  <2> QED BY <2>1, <2>2, <2>3 DEF TypeOK
<1>6. CASE TouchMove
  <2> DEFINE cell == WithAxis(draw_touch_coordinate[touch_idx], touchPc)
  <2>1. CASE Crash("overrun")
    BY <2>1, CrashType DEF TypeOK
  <2>2. CASE ~ Crash("overrun")
    <3>1. /\ touchPc \in {"x", "y"} /\ touchPc' = "move_next" /\ touch_idx < Depth
          /\ draw_touch_coordinate' = [draw_touch_coordinate EXCEPT ![touch_idx] = cell]
          /\ idx' = touch_idx
          /\ drawn' = Append(drawn, cell) \/ drawn' = drawn
          /\ UNCHANGED <<mainPc, ttyPc, poller, lock, ctlVars, flagVars, defaultInputType,
                         character, script, touch_idx, timerVars, frame, userVars,
                         linkVars, paused, countVars, logVars>>
      BY <1>6, <2>2, LauncherAssumption DEF TouchMove, DrawingOK
    <3>2. ThreadsOK'
      BY <3>1 DEF ThreadsOK, ctlVars
    <3>3. DrawingOK'
      <4>1. touch_idx \in Index
        BY <3>1, IndexFacts DEF DrawingOK
      <4>2. cell \in Cells
        BY <3>1, <4>1, WithAxisType DEF DrawingOK
      <4> HIDE DEF cell
      <4>3. draw_touch_coordinate' \in [Index -> Cells]
        BY <3>1, <4>2 DEF DrawingOK
      <4>4. drawn' \in Seq(Cells)
        BY <3>1, <4>2 DEF DrawingOK
      <4> QED BY <3>1, <4>1, <4>3, <4>4 DEF DrawingOK
    <3>4. FlagsOK' /\ TimersOK' /\ LinkOK' /\ LettersOK'
      BY <3>1, KeepFlags, KeepTimers, KeepLink, KeepLetters DEF ctlVars
    <3> QED BY <3>2, <3>3, <3>4 DEF TypeOK
  <2> QED BY <2>1, <2>2
<1>7. CASE TouchMoveNext
  <2>1. ThreadsOK'
    BY <1>7 DEF TouchMoveNext, ThreadsOK, ctlVars, NextEvent
  <2>2. DrawingOK'
    <3>1. touchPc' \notin {"down_next", "move_next"}
      BY <1>7 DEF TouchMoveNext, NextEvent
    <3>2. \A i \in IndexRead : i \in Index
      BY <1>7, IndexFacts DEF TouchMoveNext, DrawingOK, IndexRead
    <3>3. touch_idx' \in 0 .. Depth
      BY <1>7, <3>2, IndexFacts DEF TouchMoveNext, DrawingOK
    <3>4. draw_touch_coordinate' \in [Index -> Cells]
      BY <1>7, NoDrawingType DEF TouchMoveNext, DrawingOK, Cells
    <3>5. drawn' \in Seq(Cells)
      <4>1. <<"break">> \in Seq(Cells)
        BY DEF Cells
      <4> QED BY <1>7, <4>1 DEF TouchMoveNext, DrawingOK
    <3> QED BY <1>7, <3>1, <3>3, <3>4, <3>5 DEF TouchMoveNext, DrawingOK
  <2>3. FlagsOK' /\ TimersOK' /\ LinkOK' /\ LettersOK'
    BY <1>7, KeepFlags, KeepTimers, KeepLink, KeepLetters DEF TouchMoveNext, ctlVars
  <2> QED BY <2>1, <2>2, <2>3 DEF TypeOK
<1>8. CASE TouchUp
  <2>1. ThreadsOK'
    BY <1>8 DEF TouchUp, ThreadsOK, NextEvent, ctlVars
  <2>2. FlagsOK'
    BY <1>8 DEF TouchUp, FlagsOK, flagVars, userVars, ctlVars
  <2>3. DrawingOK' /\ LettersOK'
    BY <1>8, KeepDrawing, KeepLetters DEF TouchUp, NextEvent
  <2>4. CASE defaultInputType # 0
    <3>1. PICK a \in Alloc(node) : node' = Started(node, a, "touch", 0) /\ timer1' = a
      BY <1>8, <2>4 DEF TouchUp
    <3>2. a \in Addr \union {NULL}
      BY AllocType DEF TimersOK
    <3>3. node' \in [Addr -> Nodes]
      BY <3>1, <3>2, StartedType DEF TimersOK, TimerKinds
    <3>4. TimersOK'
      BY <1>8, <2>4, <3>1, <3>2, <3>3 DEF TouchUp, TimersOK
    <3>5. LinkOK'
      BY <1>8, <2>4, KeepLink DEF TouchUp
    <3> QED BY <2>1, <2>2, <2>3, <3>4, <3>5 DEF TypeOK
  <2>5. CASE defaultInputType = 0
    <3>1. LinkOK'
      BY <1>8, <2>5, WriteRequestType DEF TouchUp, RequestTypes
    <3>2. PICK a \in Alloc(node) :
            LET n == Started(node, a, "rpmsg", nreq) IN
            /\ timer3' = a
            /\ \E b \in Alloc(n) : node' = Started(n, b, "touch", 0) /\ timer1' = b
      BY <1>8, <2>5 DEF TouchUp
    <3> DEFINE n == Started(node, a, "rpmsg", nreq)
    <3>3. a \in Addr \union {NULL}
      BY AllocType DEF TimersOK
    <3>4. n \in [Addr -> Nodes]
      BY <3>3, StartedType DEF TimersOK, LinkOK, TimerKinds
    <3> HIDE DEF n
    <3>5. PICK b \in Alloc(n) : node' = Started(n, b, "touch", 0) /\ timer1' = b
      BY <3>2 DEF n
    <3>6. b \in Addr \union {NULL}
      BY <3>4, AllocType
    <3>7. node' \in [Addr -> Nodes]
      BY <3>4, <3>5, <3>6, StartedType DEF TimerKinds
    <3>8. TimersOK'
      BY <1>8, <3>2, <3>3, <3>5, <3>6, <3>7 DEF TouchUp, TimersOK
    <3> QED BY <2>1, <2>2, <2>3, <3>1, <3>8 DEF TypeOK
  <2> QED BY <2>4, <2>5
<1> QED BY <1>1, <1>2, <1>3, <1>4, <1>5, <1>6, <1>7, <1>8 DEF TouchHandle

-----------------------------------------------------------------------------
(* Steps of the ttyRPMSG thread. *)

LEMMA TtyType == TypeOK /\ TtyStep => TypeOK'
<1> SUFFICES ASSUME ThreadsOK, FlagsOK, DrawingOK, TimersOK, LinkOK, LettersOK, TtyStep
             PROVE TypeOK'
  BY DEF TypeOK
<1>1. CASE TtyOpen
  <2>1. ThreadsOK'
    BY <1>1 DEF TtyOpen, ThreadsOK, ctlVars
  <2>2. LinkOK'
    BY <1>1 DEF TtyOpen, openTtyRpmsg, isFwOurs, LinkOK, linkVars
  <2>3. FlagsOK' /\ DrawingOK' /\ TimersOK' /\ LettersOK'
    BY <1>1, KeepFlags, KeepDrawing, KeepTimers, KeepLetters DEF TtyOpen, ctlVars
  <2> QED BY <2>1, <2>2, <2>3 DEF TypeOK
<1>2. CASE TtyClose
  <2>1. ThreadsOK'
    BY <1>2 DEF TtyClose, ThreadsOK, ctlVars
  <2>2. LinkOK'
    BY <1>2 DEF TtyClose, closeTtyRpmsg, LinkOK, linkVars
  <2>3. FlagsOK' /\ DrawingOK' /\ TimersOK' /\ LettersOK'
    BY <1>2, KeepFlags, KeepDrawing, KeepTimers, KeepLetters DEF TtyClose, ctlVars
  <2> QED BY <2>1, <2>2, <2>3 DEF TypeOK
<1>3. CASE TtyRead
  <2>1. ThreadsOK'
    BY <1>3 DEF TtyRead, ThreadsOK, Stopping, ctlVars
  <2>2. LinkOK'
    <3>1. EmptyRx \in [head : Frames \union {NoFrame}, bytes : Nat, ids : SUBSET Nat]
      BY DEF EmptyRx
    <3>2. rx.ids \in SUBSET Nat /\ rx.head \in Frames \union {NoFrame}
      BY DEF LinkOK
    <3> QED BY <1>3, <3>1, <3>2 DEF TtyRead, LinkOK, ReadAll
  <2>3. FlagsOK' /\ DrawingOK' /\ TimersOK' /\ LettersOK'
    BY <1>3, KeepFlags, KeepDrawing, KeepTimers, KeepLetters DEF TtyRead, ctlVars
  <2> QED BY <2>1, <2>2, <2>3 DEF TypeOK
<1>4. CASE TtyStop
  <2>1. CASE Crash("double_free") \/ Crash("overrun")
    BY <2>1, CrashType DEF TypeOK
  <2>2. CASE ~ Crash("double_free") /\ ~ Crash("overrun")
    <3>1. /\ node' = Stopped(node, timer3)
          /\ frame' \in {frame, NoFrame}
          /\ ttyPc' \in {"flag", "loop"}
          /\ UNCHANGED <<mainPc, touchPc, poller, lock, ctlVars, flagVars,
                         defaultInputType, character, script, bufVars, timer1, timer2,
                         timer3, userVars, linkVars, drawnVars, countVars, logVars>>
      BY <1>4, <2>2 DEF TtyStop
    <3>2. ThreadsOK'
      BY <3>1 DEF ThreadsOK, ctlVars
    <3>3. TimersOK'
      BY <3>1, StoppedType DEF TimersOK
    <3>4. LinkOK'
      BY <3>1 DEF LinkOK, linkVars
    <3>5. FlagsOK' /\ DrawingOK' /\ LettersOK'
      BY <3>1, KeepFlags, KeepDrawing, KeepLetters DEF ctlVars
    <3> QED BY <3>2, <3>3, <3>4, <3>5 DEF TypeOK
  <2> QED BY <2>1, <2>2
<1>5. CASE TtyCoordAck
  <2>1. ThreadsOK'
    BY <1>5 DEF TtyCoordAck, ThreadsOK, ctlVars
  <2>2. FlagsOK'
    BY <1>5 DEF TtyCoordAck, FlagsOK, flagVars, userVars, ctlVars
  <2>3. LinkOK'
    BY <1>5 DEF TtyCoordAck, LinkOK, linkVars
  <2>4. LettersOK'
    BY <1>5 DEF TtyCoordAck, LettersOK, countVars, logVars
  <2>5. DrawingOK' /\ TimersOK'
    BY <1>5, KeepDrawing, KeepTimers DEF TtyCoordAck
  <2> QED BY <2>1, <2>2, <2>3, <2>4, <2>5 DEF TypeOK
<1>6. CASE TtyResult
  <2>1. ThreadsOK'
    BY <1>6 DEF TtyResult, ThreadsOK, ctlVars
  <2>2. FlagsOK'
    BY <1>6 DEF TtyResult, FlagsOK, flagVars, userVars, ctlVars
  <2>3. LinkOK'
    BY <1>6 DEF TtyResult, LinkOK, linkVars
  <2>4. LettersOK'
    <3>1. frame \in Frames /\ frame.type = "result"
      BY <1>6 DEF TtyResult, LinkOK, NoFrame
    <3>2. frame.letter \in Letters
      BY <3>1 DEF Frames
    <3> QED BY <1>6, <3>2 DEF TtyResult, LettersOK, countVars
  <2>5. DrawingOK' /\ TimersOK'
    BY <1>6, KeepDrawing, KeepTimers DEF TtyResult
  <2> QED BY <2>1, <2>2, <2>3, <2>4, <2>5 DEF TypeOK
<1> QED BY <1>1, <1>2, <1>3, <1>4, <1>5, <1>6 DEF TtyStep

-----------------------------------------------------------------------------
(* Steps of the timer thread. *)

LEMMA PollerType == TypeOK /\ PollerStep => TypeOK'
<1> SUFFICES ASSUME ThreadsOK, FlagsOK, DrawingOK, TimersOK, LinkOK, LettersOK, PollerStep
             PROVE TypeOK'
  BY DEF TypeOK
<1>1. ASSUME NEW a \in Addr, PollerFire(a) PROVE TypeOK'
  <2>1. node[a].st # "free"
    BY <1>1 DEF PollerFire
  <2>2. node[a].kind \in TimerKinds
    BY <2>1, KindOfLive DEF TimersOK
  <2>3. ThreadsOK'
    BY <1>1, <2>2 DEF PollerFire, ThreadsOK, ctlVars
  <2>4. paused' \in BOOLEAN
    BY <1>1, <2>2 DEF PollerFire, DrawingOK
  <2>5. DrawingOK'
    BY <1>1, <2>4 DEF PollerFire, DrawingOK, bufVars
  <2>6. TimersOK'
    BY <1>1, <2>1, ExpiredType DEF PollerFire, TimersOK
  <2>7. LinkOK'
    <3>1. overdue' \in SUBSET Nat
      BY <1>1, <2>1, KindOfLive DEF PollerFire, LinkOK, TimersOK
    <3> QED BY <1>1, <3>1 DEF PollerFire, LinkOK
  <2>8. FlagsOK' /\ LettersOK'
    BY <1>1, KeepFlags, KeepLetters DEF PollerFire, ctlVars
  <2> QED BY <2>3, <2>5, <2>6, <2>7, <2>8 DEF TypeOK
<1>2. CASE PollerTouch
  <2>1. ThreadsOK'
    BY <1>2 DEF PollerTouch, ThreadsOK, ctlVars
  <2>2. FlagsOK'
    BY <1>2 DEF PollerTouch, FlagsOK, flagVars, userVars, ctlVars
  <2>3. DrawingOK' /\ TimersOK' /\ LinkOK' /\ LettersOK'
    BY <1>2, KeepDrawing, KeepTimers, KeepLink, KeepLetters DEF PollerTouch
  <2> QED BY <2>1, <2>2, <2>3 DEF TypeOK
<1>3. CASE PollerGtk
  <2>1. ThreadsOK'
    BY <1>3 DEF PollerGtk, ThreadsOK, ctlVars
  <2>2. LettersOK'
    BY <1>3 DEF PollerGtk, LettersOK, countVars, logVars
  <2>3. FlagsOK' /\ DrawingOK' /\ TimersOK' /\ LinkOK'
    BY <1>3, KeepFlags, KeepDrawing, KeepTimers, KeepLink DEF PollerGtk, ctlVars
  <2> QED BY <2>1, <2>2, <2>3 DEF TypeOK
<1>4. CASE PollerRpmsg
  <2>1. ThreadsOK'
    BY <1>4 DEF PollerRpmsg, ThreadsOK, ctlVars, RunScript, IntHandler
  <2>2. FlagsOK'
    BY <1>4 DEF PollerRpmsg, FlagsOK, flagVars, userVars, ctlVars, RunScript, IntHandler
  <2>3. LettersOK'
    BY <1>4, LauncherAssumption DEF PollerRpmsg, LettersOK, countVars, logVars
  <2>4. DrawingOK' /\ TimersOK' /\ LinkOK'
    BY <1>4, KeepDrawing, KeepTimers, KeepLink DEF PollerRpmsg
  <2> QED BY <2>1, <2>2, <2>3, <2>4 DEF TypeOK
<1> QED BY <1>1, <1>2, <1>3, <1>4 DEF PollerStep

-----------------------------------------------------------------------------
(* Steps of the environment. *)

LEMMA UserType == TypeOK /\ TouchRead => TypeOK'
<1> SUFFICES ASSUME ThreadsOK, FlagsOK, DrawingOK, TimersOK, LinkOK, LettersOK, TouchRead
             PROVE  TypeOK'
  BY DEF TypeOK
<1>1. ThreadsOK'
  BY DEF TouchRead, ThreadsOK, ctlVars
<1>2. FlagsOK'
  <2>1. events' \in Nat
    BY DEF TouchRead, FlagsOK
  <2>2. finger' \in BOOLEAN
    BY DEF TouchRead, FlagsOK
  <2> QED BY <2>1, <2>2 DEF TouchRead, FlagsOK, ctlVars, flagVars
<1>3. DrawingOK' /\ TimersOK' /\ LinkOK' /\ LettersOK'
  BY KeepDrawing, KeepTimers, KeepLink, KeepLetters DEF TouchRead
<1> QED BY <1>1, <1>2, <1>3 DEF TypeOK

LEMMA ClockType ==
  ASSUME TypeOK, NEW a \in Addr, Expire(a)
  PROVE  TypeOK'
<1>1. node[a].st # "free"
  BY DEF Expire, Expirable
<1>2. TimersOK'
  BY <1>1, ExpiredType DEF TypeOK, TimersOK, Expire
<1>3. ThreadsOK' /\ FlagsOK' /\ DrawingOK' /\ LinkOK' /\ LettersOK'
  BY KeepThreads, KeepFlags, KeepDrawing, KeepLink, KeepLetters DEF TypeOK, Expire, ctlVars
<1> QED BY <1>2, <1>3 DEF TypeOK

LEMMA SignalType == TypeOK /\ Signal => TypeOK'
<1> SUFFICES ASSUME ThreadsOK, FlagsOK, DrawingOK, TimersOK, LinkOK, LettersOK, Signal
             PROVE  TypeOK'
  BY DEF TypeOK
<1>1. FlagsOK'
  BY DEF Signal, IntHandler, FlagsOK, flagVars, userVars
<1>2. ThreadsOK' /\ DrawingOK' /\ TimersOK' /\ LinkOK' /\ LettersOK'
  BY KeepThreads, KeepDrawing, KeepTimers, KeepLink, KeepLetters DEF Signal
<1> QED BY <1>1, <1>2 DEF TypeOK

LEMMA ArriveType ==
  ASSUME LinkOK, NEW f \in Frames, NEW id \in Nat, Arrive(f, id)
  PROVE  rx' \in [head : Frames \union {NoFrame}, bytes : Nat, ids : SUBSET Nat]
<1>1. FrameBytes(f) \in Nat
  BY DEF FrameBytes
<1>2. /\ rx.head \in Frames \union {NoFrame}
      /\ rx.bytes \in Nat
      /\ rx.ids \in SUBSET Nat
  BY DEF LinkOK
<1>3. rx.bytes + FrameBytes(f) \in Nat
  BY <1>1, <1>2
<1>4. rx.ids \union {id} \in SUBSET Nat
  BY <1>2
<1> QED BY <1>2, <1>3, <1>4 DEF Arrive

LEMMA FirmwareType == TypeOK /\ FirmwareStep => TypeOK'
<1> SUFFICES ASSUME ThreadsOK, FlagsOK, DrawingOK, TimersOK, LinkOK, LettersOK, FirmwareStep
             PROVE  TypeOK'
  BY DEF TypeOK
<1>1. ThreadsOK' /\ FlagsOK' /\ DrawingOK' /\ TimersOK' /\ LettersOK'
  BY KeepThreads, KeepFlags, KeepDrawing, KeepTimers, KeepLetters DEF FirmwareStep, ctlVars
<1>2. txq # << >> => Head(txq) \in Requests /\ Tail(txq) \in Seq(Requests)
  BY DEF LinkOK
<1>3. txq # << >> => Head(txq).id \in Nat /\ Head(txq).type \in RequestTypes
  BY <1>2 DEF Requests
<1>4. CASE FwAnswer
  <2>1. txq # << >> /\ txq' = Tail(txq)
    BY <1>4 DEF FwAnswer, FwReceives
  <2>2. PICK f \in Answers(Head(txq)) : Arrive(f, Head(txq).id)
    BY <1>4 DEF FwAnswer
  <2>3. f \in Frames
    BY <1>3, <2>1, <2>2 DEF Answers, Frames, RequestTypes
  <2>4. rx' \in [head : Frames \union {NoFrame}, bytes : Nat, ids : SUBSET Nat]
    BY <1>3, <2>1, <2>2, <2>3, ArriveType
  <2>5. LinkOK'
    BY <1>2, <1>4, <2>1, <2>4 DEF FwAnswer, FirmwareStep, LinkOK
  <2> QED BY <1>1, <2>5 DEF TypeOK
<1>5. CASE FwNack
  <2> DEFINE f == [type |-> "bad_ack", letter |-> NoLetter]
  <2>1. txq # << >> /\ txq' = Tail(txq) /\ Arrive(f, Head(txq).id)
    BY <1>5 DEF FwNack, FwReceives
  <2>2. f \in Frames
    BY DEF Frames
  <2>3. rx' \in [head : Frames \union {NoFrame}, bytes : Nat, ids : SUBSET Nat]
    BY <1>3, <2>1, <2>2, ArriveType
  <2>4. LinkOK'
    BY <1>2, <1>5, <2>1, <2>3 DEF FwNack, FirmwareStep, LinkOK
  <2> QED BY <1>1, <2>4 DEF TypeOK
<1>6. CASE FwDrop
  <2>1. overdue' \in SUBSET Nat
    BY <1>3, <1>6 DEF FwDrop, FwReceives, LinkOK
  <2>2. LinkOK'
    BY <1>2, <1>6, <2>1 DEF FwDrop, FwReceives, FirmwareStep, LinkOK
  <2> QED BY <1>1, <2>2 DEF TypeOK
<1>7. CASE FwStall
  <2>1. overdue' \in SUBSET Nat
    BY <1>3, <1>7 DEF FwStall, LinkOK
  <2>2. LinkOK'
    BY <1>7, <2>1 DEF FwStall, FirmwareStep, LinkOK
  <2> QED BY <1>1, <2>2 DEF TypeOK
<1> QED BY <1>4, <1>5, <1>6, <1>7 DEF FirmwareStep, Firmware

-----------------------------------------------------------------------------
(* Type correctness. *)

LEMMA StutterType == TypeOK /\ UNCHANGED vars => TypeOK'
BY KeepThreads, KeepFlags, KeepDrawing, KeepTimers, KeepLink, KeepLetters
DEF TypeOK, vars, ctlVars

LEMMA NextType == TypeOK /\ [Next]_vars => TypeOK'
BY MainType, TouchType, UserType, TtyType, ClockType, PollerType, SignalType,
   FirmwareType, StutterType
DEF Next, MainThread, TouchThread, User, TtyThread, Clock, TimerThread, Kill,
    Coprocessor, Gone

\* The program counters, the flags, the drawing, the timers and their handles,
\* the link and the letters of the launcher's four threads keep to their types:
\* in particular read_touch_event_thread leaves touch_idx at most one past
\* draw_touch_coordinate and the timer thread calls a callback that exists.
THEOREM TypeCorrect == Spec => []TypeOK
BY InitType, NextType, PTL DEF Spec

-----------------------------------------------------------------------------
(* The network is not started without an acknowledged drawing.  Each       *)
(* acknowledge allows one start: it is held by the flag, then by main      *)
(* between the flag's reset and the request.                               *)

One(b) == IF b THEN 1 ELSE 0

AckInv ==
  /\ mainPc = "ai_clear" => aiProcessingRequested
  /\ starts + One(aiProcessingRequested) + One(mainPc = "start_nn") <= acks

LEMMA AckOther ==
  ASSUME TypeOK, AckInv, UNCHANGED countVars,
         UNCHANGED aiProcessingRequested \/ ~ aiProcessingRequested',
         UNCHANGED mainPc \/ mainPc' \notin {"ai_clear", "start_nn"},
         mainPc' = "ai_clear" => UNCHANGED aiProcessingRequested
  PROVE  AckInv'
<1>1. starts \in Nat /\ acks \in Nat /\ starts' = starts /\ acks' = acks
  BY DEF TypeOK, LettersOK, countVars
<1>2. One(aiProcessingRequested') <= One(aiProcessingRequested)
  BY DEF One
<1>3. One(mainPc' = "start_nn") <= One(mainPc = "start_nn")
  BY DEF One
<1>4. mainPc' = "ai_clear" => aiProcessingRequested'
  BY DEF AckInv
<1>5. \A b : One(b) \in Nat
  BY DEF One
<1> HIDE DEF One
<1> QED BY <1>1, <1>2, <1>3, <1>4, <1>5 DEF AckInv

LEMMA AckNext == TypeOK /\ AckInv /\ [Next]_vars => AckInv'
<1> SUFFICES ASSUME TypeOK, AckInv, [Next]_vars PROVE AckInv'
  OBVIOUS
<1>1. CASE MainThread
  <2>1. CASE MainPoll
    <3>1. CASE aiProcessingRequested /\ mainPc' = "ai_clear"
      BY <2>1, <3>1 DEF MainPoll, AckInv, One, flagVars, countVars
    <3>2. CASE mainPc' # "ai_clear"
      BY <2>1, <3>2, AckOther DEF MainPoll, flagVars
    <3> QED BY <2>1, <3>1, <3>2 DEF MainPoll
  <2>2. CASE MainAiClear
    BY <2>2 DEF MainAiClear, AckInv, One, TypeOK, LettersOK, countVars
  <2>3. CASE MainStartNn
    BY <2>3 DEF MainStartNn, AckInv, One, TypeOK, LettersOK, flagVars
  <2>4. CASE MainReset
    BY <2>4, AckOther DEF MainReset
  <2>5. CASE MainCheckFw \/ MainLoadFw \/ MainSpawnTty \/ MainSpawnTouch \/ MainClear
               \/ MainTimerInit
    BY <2>5, AckOther DEF MainCheckFw, MainLoadFw, MainSpawnTty, MainSpawnTouch, MainClear,
                          MainTimerInit, flagVars
  <2>6. CASE MainTouchClear \/ MainSend \/ MainWipe \/ MainRewind \/ MainDoneClear
    BY <2>6, AckOther DEF MainTouchClear, MainSend, MainWipe, MainRewind, MainDoneClear,
                          flagVars
  <2>7. CASE MainShow \/ MainFormat \/ MainLaunch
    BY <2>7, AckOther DEF MainShow, MainFormat, MainLaunch, flagVars
  <2>8. CASE MainJoinTty \/ MainFinalize \/ MainJoinTimer \/ MainEnd
    BY <2>8, AckOther DEF MainJoinTty, MainFinalize, MainJoinTimer, MainEnd, Crash, flagVars
  <2> QED
    BY <1>1, <2>1, <2>2, <2>3, <2>4, <2>5, <2>6, <2>7, <2>8 DEF MainThread, MainStep
<1>2. CASE TouchThread \/ User
  BY <1>2, AckOther DEF TouchThread, User, TouchHandle, TouchRead, TouchSetup, TouchDown,
                        TouchLetter, TouchBreak, TouchDownNext, TouchMove, TouchMoveNext,
                        TouchUp, Crash, flagVars
<1>3. CASE TtyThread
  <2>1. CASE TtyCoordAck
    BY <2>1 DEF TtyCoordAck, AckInv, One, TypeOK, LettersOK
  <2>2. CASE TtyOpen \/ TtyClose \/ TtyRead \/ TtyStop \/ TtyResult
    BY <2>2, AckOther DEF TtyOpen, TtyClose, TtyRead, TtyStop, TtyResult, Crash, flagVars
  <2> QED BY <1>3, <2>1, <2>2 DEF TtyThread, TtyStep
<1>4. CASE TimerThread
  BY <1>4, AckOther DEF TimerThread, PollerStep, PollerFire, PollerTouch, PollerGtk,
                        PollerRpmsg, flagVars
<1>5. CASE (\E a \in Addr : Clock(a)) \/ Kill \/ Coprocessor
  BY <1>5, AckOther DEF Clock, Expire, Kill, Signal, Coprocessor, FirmwareStep, flagVars
<1>6. CASE Gone \/ UNCHANGED vars
  BY <1>6, AckOther DEF Gone, vars, flagVars
<1> QED BY <1>1, <1>2, <1>3, <1>4, <1>5, <1>6 DEF Next

\* copro_start_ai_nn is only called for a drawing whose acknowledge
\* copro_virtual_tty_process_read_data has decoded, and once for each: neither
\* the flag main reads without the mutex nor late, lost or refused answers make
\* it start the network twice.
THEOREM StartIsAcknowledged == Spec => []StartNeedsAck
<1>1. Init => AckInv
  BY DEF Init, AckInv, One
<1>2. TypeOK /\ AckInv => StartNeedsAck
  BY DEF TypeOK, LettersOK, AckInv, One, StartNeedsAck
<1> QED BY <1>1, <1>2, AckNext, TypeCorrect, PTL DEF Spec

-----------------------------------------------------------------------------
(* A request to stop reaches the ttyRPMSG thread.                          *)

StopInv ==
  /\ mainPc \in Booting => keepRunning /\ poller = "none"
  /\ keepRunning \/ threadClosingRequested

LEMMA StopKept ==
  ASSUME StopInv,
         UNCHANGED <<keepRunning, threadClosingRequested>>,
         mainPc' \in Booting => UNCHANGED poller /\ mainPc \in Booting
  PROVE  StopInv'
BY DEF StopInv

LEMMA StopNext ==
  ASSUME ~ EarlySignal, StopInv, [Next]_vars
  PROVE  StopInv'
<1>1. CASE MainThread
  <2>1. CASE MainReset
    BY <2>1 DEF MainReset, StopInv, Booting
  <2>2. CASE MainLaunch
    BY <2>2 DEF MainLaunch, RunScript, IntHandler, StopInv, Booting, ctlVars
  <2>3. CASE MainCheckFw \/ MainLoadFw \/ MainSpawnTty \/ MainSpawnTouch \/ MainClear
    BY <2>3, StopKept DEF MainCheckFw, MainLoadFw, MainSpawnTty, MainSpawnTouch, MainClear,
                          Booting, ctlVars
  <2>4. CASE MainTimerInit \/ MainPoll \/ MainTouchClear \/ MainSend \/ MainAiClear
    BY <2>4, StopKept DEF MainTimerInit, MainPoll, MainTouchClear, MainSend, MainAiClear,
                          Booting, ctlVars
  <2>5. CASE MainStartNn \/ MainWipe \/ MainRewind \/ MainDoneClear \/ MainShow \/ MainFormat
    BY <2>5, StopKept DEF MainStartNn, MainWipe, MainRewind, MainDoneClear, MainShow,
                          MainFormat, Booting, ctlVars
  <2>6. CASE MainJoinTty \/ MainFinalize \/ MainJoinTimer \/ MainEnd
    BY <2>6, StopKept DEF MainJoinTty, MainFinalize, MainJoinTimer, MainEnd, Crash, Booting,
                          ctlVars
  <2> QED BY <1>1, <2>1, <2>2, <2>3, <2>4, <2>5, <2>6 DEF MainThread, MainStep
<1>2. CASE TouchThread \/ User \/ TtyThread
  BY <1>2, StopKept DEF TouchThread, TouchHandle, TouchSetup, TouchDown, TouchLetter,
                        TouchBreak, TouchDownNext, TouchMove, TouchMoveNext, TouchUp, User,
                        TouchRead, TtyThread, TtyStep, TtyOpen, TtyClose, TtyRead, TtyStop,
                        TtyCoordAck, TtyResult, Crash, ctlVars
<1>3. CASE TimerThread
  <2>1. CASE PollerRpmsg
    BY <2>1 DEF PollerRpmsg, RunScript, IntHandler, StopInv, ctlVars
  <2>2. CASE PollerTouch \/ PollerGtk \/ \E a \in Addr : PollerFire(a)
    BY <2>2 DEF PollerTouch, PollerGtk, PollerFire, StopInv, ctlVars
  <2> QED BY <1>3, <2>1, <2>2 DEF TimerThread, PollerStep
<1>4. CASE Kill
  BY <1>4 DEF Kill, Signal, IntHandler, StopInv
<1>5. CASE (\E a \in Addr : Clock(a)) \/ Coprocessor
  BY <1>5, StopKept DEF Clock, Expire, Coprocessor, FirmwareStep, ctlVars
<1>6. CASE Gone \/ UNCHANGED vars
  BY <1>6, StopKept DEF Gone, vars, ctlVars
<1> QED BY <1>1, <1>2, <1>3, <1>4, <1>5, <1>6 DEF Next

\* When no signal arrives before main's loop, main never leaves its loop with
\* threadClosingRequested unset, so the pthread_join of thread_copro that
\* follows waits for a thread that has been told to end: the signal handler's
\* two flags cannot come apart although main resets one of them.
THEOREM StopReachesTty ==
  ASSUME ~ EarlySignal
  PROVE  Spec => [](keepRunning \/ threadClosingRequested)
<1>1. Init => StopInv
  BY DEF Init, StopInv
<1>2. StopInv /\ [Next]_vars => StopInv'
  BY StopNext
<1>3. StopInv => keepRunning \/ threadClosingRequested
  BY DEF StopInv
<1> QED BY <1>1, <1>2, <1>3, PTL DEF Spec
=============================================================================
