----------------------------- MODULE AiLauncher -----------------------------
(***************************************************************************)
(* ai_char_reco_launcher: draw a letter on the touch screen, have the      *)
(* Cortex-M4 recognise it, launch the application of that letter.  Four    *)
(* threads share the drawing, three request flags, three timer handles and *)
(* one mutex, which only some of the accesses take: main, the touch event  *)
(* thread, the ttyRPMSG thread and the timer thread.  The user, the        *)
(* firmware and the clock are the environment.  A step of a thread is the  *)
(* code between two points where another thread can see a difference.      *)
(***************************************************************************)
EXTENDS TimerService, CoproLink

CONSTANTS Depth,       \* TOUCH_COORDINATE_DEPTH
          UartRxSize,  \* sizeof(uartRx)
          LenRange,    \* 256: the values of the frame's length byte
          QuitLetter,  \* the letter whose script quits the launcher
          Overlap,     \* may the user draw while a drawing is being recognised?
          EarlySignal, \* may a signal arrive while the launcher starts?
          ThreadFails, \* may pthread_create fail?
          ShortReads,  \* may a read of the touch screen be short?
          MaxEvents,   \* bound: the number of touch events of a behaviour
          Signals      \* may SIGINT or SIGTERM come from outside?

ASSUME LauncherAssumption ==
  /\ Depth \in Nat \ {0}
  /\ UartRxSize \in Nat
  /\ LenRange \in Nat \ {0}
  /\ QuitLetter \in Letters
  /\ Overlap \in BOOLEAN
  /\ EarlySignal \in BOOLEAN
  /\ ThreadFails \in BOOLEAN
  /\ ShortReads \in BOOLEAN
  /\ MaxEvents \in Nat
  /\ Signals \in BOOLEAN

VARIABLES
  mainPc, touchPc, ttyPc, poller,  \* where each thread is
  lock,                            \* "free", or "touch": held across its steps
  keepRunning, threadClosingRequested,
  status,                          \* of the process
  touchProcessingRequested, aiProcessingRequested, aiProcessingDone,
  defaultInputType,
  character,                       \* ai_result_state.character
  script,                          \* the letter written into script_launcher
  draw_touch_coordinate, touch_idx,
  idx,                             \* the touch thread's copy of touch_idx
  node, timer1, timer2, timer3,
  frame,                           \* the frame the ttyRPMSG thread is decoding
  finger, events,                  \* the user's finger is down; events so far
  \* History, read by the properties only:
  drawn,       \* what the user drew since the last pause
  paused,      \* the pause that ends a drawing has been noticed
  acks,        \* drawings acknowledged by the firmware
  starts,      \* recognitions requested
  recognised,  \* the letter of the last result decoded
  taken,       \* the letter of the result main is dealing with
  launched     \* the letter last launched, and the one that should have been

flagVars  == <<touchProcessingRequested, aiProcessingRequested, aiProcessingDone>>
bufVars   == <<draw_touch_coordinate, touch_idx, idx>>
timerVars == <<node, timer1, timer2, timer3>>
ctlVars   == <<keepRunning, threadClosingRequested, status>>
userVars  == <<finger, events>>
drawnVars == <<drawn, paused>>
countVars == <<acks, starts>>
logVars   == <<recognised, taken, launched>>
vars == <<mainPc, touchPc, ttyPc, poller, lock, ctlVars, flagVars, defaultInputType,
          character, script, bufVars, timerVars, frame, userVars, linkVars,
          drawnVars, countVars, logVars>>

-----------------------------------------------------------------------------
(* The drawing.  A cell is empty, half filled, a point or a line break. *)

Cells == {"none", "x", "y", "pt", "break"}
Index == 0 .. Depth - 1
NoDrawing == [i \in Index |-> "none"]
Filled(cell) == cell \in {"pt", "break"}

\* An axis value arriving in a cell.  LINE_BREAK in the other axis stays one.
WithAxis(cell, axis) ==
  IF cell = "none" THEN axis
  ELSE IF cell \in {"x", "y"} /\ cell # axis THEN "pt" ELSE cell

\* The loops over the drawing stop at the first cell that is not filled.
FrameLength ==
  CHOOSE n \in 0 .. Depth : /\ \A i \in 0 .. n - 1 : Filled(draw_touch_coordinate[i])
                            /\ n < Depth => ~ Filled(draw_touch_coordinate[n])

\* What copro_send_touch_screen_coordinate transfers: two bytes per cell, as
\* many as the length byte can say.
SentCells ==
  [i \in 1 .. ((2 * FrameLength) % LenRange) \div 2 |-> draw_touch_coordinate[i - 1]]

\* Mutations of Request: no timer is armed; the timer has no callback; the
\* timer's handle is not kept.
RequestUnguarded(type, n) == node' = n /\ UNCHANGED timer3 /\ WriteRequest(type)
RequestNoCallback(type, n) ==
  /\ \E a \in Alloc(n) : node' = Started(n, a, "none", nreq) /\ timer3' = a
  /\ WriteRequest(type)
RequestHandleLost(type, n) ==
  /\ \E a \in Alloc(n) : node' = Started(n, a, "rpmsg", nreq)
  /\ UNCHANGED timer3
  /\ WriteRequest(type)

\* timer3 = timer_start(500, rpmsg_timeout_callback, NULL): what timer3 held
\* before is forgotten, whether or not that timer was stopped.
Request(type, n) ==
  /\ \E a \in Alloc(n) : node' = Started(n, a, "rpmsg", nreq) /\ timer3' = a
  /\ WriteRequest(type)

\* The process is gone, or its behaviour is undefined from there on.
Crash(fault) ==
  /\ status' = fault
  /\ UNCHANGED <<mainPc, touchPc, ttyPc, poller, lock, keepRunning,
                 threadClosingRequested, flagVars, defaultInputType, character, script,
                 bufVars, timerVars, frame, userVars, linkVars, drawnVars, countVars,
                 logVars>>

\* Mutation of IntHandler: the ttyRPMSG thread is not told.
IntHandlerMainOnly == keepRunning' = FALSE /\ UNCHANGED threadClosingRequested

\* intHandler
IntHandler ==
  /\ keepRunning' = FALSE
  /\ threadClosingRequested' = TRUE

\* system(script_launcher).  For the quit letter the script kills the
\* launcher, with SIGTERM; its other letters do not touch it.
RunScript ==
  IF script = QuitLetter
  THEN IntHandler /\ UNCHANGED status
  ELSE UNCHANGED ctlVars

-----------------------------------------------------------------------------
Init ==
  /\ LinkInit
  /\ mainPc = "check_fw" /\ touchPc = "none" /\ ttyPc = "none" /\ poller = "none"
  /\ lock = "free"
  /\ keepRunning = TRUE /\ threadClosingRequested = FALSE
  /\ status = "running"
  /\ touchProcessingRequested = FALSE
  /\ aiProcessingRequested = FALSE
  /\ aiProcessingDone = FALSE
  /\ defaultInputType = 0
  /\ character = NoLetter /\ script = NoLetter
  /\ draw_touch_coordinate = NoDrawing /\ touch_idx = 0 /\ idx = 0
  /\ node = [a \in Addr |-> FreeNode]
  /\ timer1 = NULL /\ timer2 = NULL /\ timer3 = NULL
  /\ frame = NoFrame
  /\ finger = FALSE /\ events = 0
  /\ drawn = <<>> /\ paused = FALSE
  /\ acks = 0 /\ starts = 0
  /\ recognised = NoLetter /\ taken = NoLetter
  /\ launched = [got |-> NoLetter, want |-> NoLetter]

(* copro_start, the rest of main's set-up. *)

\* A running firmware is kept when it is ours and stopped when it is not.
MainCheckFw ==
  /\ mainPc = "check_fw"
  /\ \/ isFwOurs /\ mainPc' = "spawn_tty" /\ UNCHANGED fw
     \/ ~ isFwRunning /\ mainPc' = "load_fw" /\ UNCHANGED fw
     \/ isFwRunning /\ ~ isFwOurs /\ mainPc' = "load_fw" /\ stopFw
     \/ isFwRunning /\ ~ isFwOurs /\ mainPc' = "end" /\ UNCHANGED fw
  /\ UNCHANGED <<touchPc, ttyPc, poller, lock, ctlVars, flagVars, defaultInputType,
                 character, script, bufVars, timerVars, frame, userVars, mFdRpmsg, txq, rx,
                 nreq, answered, overdue, drawnVars, countVars, logVars>>

\* The board type, the firmware's name or its start may fail; whether the
\* started firmware runs is only printed.
MainLoadFw ==
  /\ mainPc = "load_fw"
  /\ \/ mainPc' = "spawn_tty" /\ startFw
     \/ mainPc' = "end" /\ UNCHANGED fw
  /\ UNCHANGED <<touchPc, ttyPc, poller, lock, ctlVars, flagVars, defaultInputType,
                 character, script, bufVars, timerVars, frame, userVars, mFdRpmsg, txq, rx,
                 nreq, answered, overdue, drawnVars, countVars, logVars>>

MainSpawnTty ==
  /\ mainPc = "spawn_tty"
  /\ \/ mainPc' = "reset" /\ ttyPc' = "open"
     \/ ThreadFails /\ mainPc' = "end" /\ UNCHANGED ttyPc
  /\ UNCHANGED <<touchPc, poller, lock, ctlVars, flagVars, defaultInputType, character,
                 script, bufVars, timerVars, frame, userVars, linkVars, drawnVars,
                 countVars, logVars>>

\* "set initial state", with the ttyRPMSG thread already running.
MainReset ==
  /\ mainPc = "reset"
  /\ mainPc' = "spawn_touch"
  /\ character' = NoLetter
  /\ threadClosingRequested' = FALSE
  /\ touchProcessingRequested' = FALSE
  /\ aiProcessingRequested' = FALSE
  /\ aiProcessingDone' = FALSE
  /\ defaultInputType' = 0
  /\ UNCHANGED <<touchPc, ttyPc, poller, lock, keepRunning, status, script, bufVars,
                 timerVars, frame, userVars, linkVars, drawnVars, countVars, logVars>>

\* The touch thread, then the GTK thread.
MainSpawnTouch ==
  /\ mainPc = "spawn_touch"
  /\ \/ mainPc' = "clear" /\ touchPc' = "setup"
     \/ ThreadFails /\ mainPc' = "end" /\ touchPc' \in {"none", "setup"}
  /\ UNCHANGED <<ttyPc, poller, lock, ctlVars, flagVars, defaultInputType, character,
                 script, bufVars, timerVars, frame, userVars, linkVars, drawnVars,
                 countVars, logVars>>

MainClear ==
  /\ mainPc = "clear"
  /\ mainPc' = "timer_init"
  /\ draw_touch_coordinate' = NoDrawing
  /\ touch_idx' = 0
  /\ UNCHANGED <<touchPc, ttyPc, poller, lock, ctlVars, flagVars, defaultInputType,
                 character, script, idx, timerVars, frame, userVars, linkVars, drawnVars,
                 countVars, logVars>>

\* main ignores what timer_init returns.
MainTimerInit ==
  /\ mainPc = "timer_init"
  /\ mainPc' = "top"
  /\ \/ poller' = "idle"
     \/ ThreadFails /\ UNCHANGED poller
  /\ UNCHANGED <<touchPc, ttyPc, lock, ctlVars, flagVars, defaultInputType, character,
                 script, bufVars, timerVars, frame, userVars, linkVars, drawnVars,
                 countVars, logVars>>

-----------------------------------------------------------------------------
(* The loop of main.  The flags are read without the mutex and cleared     *)
(* under it; nothing the requests then do is protected.                    *)

\* Mutation of MainPoll: the first flag tested is the second one.
MainPollWrongFlag ==
  /\ mainPc = "top"
  /\ \/ ~ keepRunning /\ mainPc' = "join_tty"
     \/ aiProcessingRequested /\ mainPc' \in {"touch_clear", "ai_clear"}
     \/ aiProcessingDone /\ mainPc' = "done_clear"
  /\ UNCHANGED <<touchPc, ttyPc, poller, lock, ctlVars, flagVars, defaultInputType,
                 character, script, bufVars, timerVars, frame, userVars, linkVars,
                 drawnVars, countVars, logVars>>

\* Between two requests main is at "top".  It reads keepRunning and the three
\* flags one after the other, at different times, so whichever of them are set
\* it may take any of them next, or find that it has to leave.
MainPoll ==
  /\ mainPc = "top"
  /\ \/ ~ keepRunning /\ mainPc' = "join_tty"
     \/ touchProcessingRequested /\ mainPc' = "touch_clear"
     \/ aiProcessingRequested /\ mainPc' = "ai_clear"
     \/ aiProcessingDone /\ mainPc' = "done_clear"
  /\ UNCHANGED <<touchPc, ttyPc, poller, lock, ctlVars, flagVars, defaultInputType,
                 character, script, bufVars, timerVars, frame, userVars, linkVars,
                 drawnVars, countVars, logVars>>

MainTouchClear ==
  /\ mainPc = "touch_clear" /\ lock = "free"
  /\ mainPc' = "send"
  /\ touchProcessingRequested' = FALSE
  /\ UNCHANGED <<touchPc, ttyPc, poller, lock, ctlVars, aiProcessingRequested,
                 aiProcessingDone, defaultInputType, character, script, bufVars, timerVars,
                 frame, userVars, linkVars, drawnVars, countVars, logVars>>

\* process_touch_coordinate and copro_send_touch_screen_coordinate
MainSend ==
  /\ mainPc = "send"
  /\ mainPc' = "top"
  /\ Request("coordinates", node)
  /\ UNCHANGED <<touchPc, ttyPc, poller, lock, ctlVars, flagVars, defaultInputType,
                 character, script, bufVars, timer1, timer2, frame, userVars, drawnVars,
                 countVars, logVars>>

\* Mutation of MainAiClear: the flag is not cleared.
MainAiKeep ==
  /\ mainPc = "ai_clear" /\ lock = "free"
  /\ mainPc' = "start_nn"
  /\ UNCHANGED <<touchPc, ttyPc, poller, lock, ctlVars, flagVars, defaultInputType,
                 character, script, bufVars, timerVars, frame, userVars, linkVars,
                 drawnVars, countVars, logVars>>

MainAiClear ==
  /\ mainPc = "ai_clear" /\ lock = "free"
  /\ mainPc' = "start_nn"
  /\ aiProcessingRequested' = FALSE
  /\ UNCHANGED <<touchPc, ttyPc, poller, lock, ctlVars, touchProcessingRequested,
                 aiProcessingDone, defaultInputType, character, script, bufVars, timerVars,
                 frame, userVars, linkVars, drawnVars, countVars, logVars>>

\* copro_start_ai_nn
MainStartNn ==
  /\ mainPc = "start_nn"
  /\ mainPc' = "wipe"
  /\ Request("start_nn", node)
  /\ starts' = starts + 1
  /\ UNCHANGED <<touchPc, ttyPc, poller, lock, ctlVars, flagVars, defaultInputType,
                 character, script, bufVars, timer1, timer2, frame, userVars, drawnVars,
                 acks, logVars>>

MainWipe ==
  /\ mainPc = "wipe"
  /\ mainPc' = "rewind"
  /\ draw_touch_coordinate' = NoDrawing
  /\ UNCHANGED <<touchPc, ttyPc, poller, lock, ctlVars, flagVars, defaultInputType,
                 character, script, touch_idx, idx, timerVars, frame, userVars, linkVars,
                 drawnVars, countVars, logVars>>

\* Mutation of MainRewind: touch_idx keeps its value.
MainRewindNot ==
  /\ mainPc = "rewind"
  /\ mainPc' = "top"
  /\ UNCHANGED <<touchPc, ttyPc, poller, lock, ctlVars, flagVars, defaultInputType,
                 character, script, bufVars, timerVars, frame, userVars, linkVars,
                 drawnVars, countVars, logVars>>

MainRewind ==
  /\ mainPc = "rewind"
  /\ mainPc' = "top"
  /\ touch_idx' = 0
  /\ UNCHANGED <<touchPc, ttyPc, poller, lock, ctlVars, flagVars, defaultInputType,
                 character, script, draw_touch_coordinate, idx, timerVars, frame, userVars,
                 linkVars, drawnVars, countVars, logVars>>

MainDoneClear ==
  /\ mainPc = "done_clear" /\ lock = "free"
  /\ mainPc' = "show"
  /\ aiProcessingDone' = FALSE
  /\ taken' = recognised
  /\ UNCHANGED <<touchPc, ttyPc, poller, lock, ctlVars, touchProcessingRequested,
                 aiProcessingRequested, defaultInputType, character, script, bufVars,
                 timerVars, frame, userVars, linkVars, drawnVars, countVars, recognised,
                 launched>>

\* The letter is on the screen for the two seconds of timer2.
MainShow ==
  /\ mainPc = "show"
  /\ mainPc' = "format"
  /\ \E a \in Alloc(node) : node' = Started(node, a, "gtk", 0) /\ timer2' = a
  /\ UNCHANGED <<touchPc, ttyPc, poller, lock, ctlVars, flagVars, defaultInputType,
                 character, script, bufVars, timer1, timer3, frame, userVars, linkVars,
                 drawnVars, countVars, logVars>>

\* The sprintf into script_launcher, which rpmsg_timeout_callback shares.
MainFormat ==
  /\ mainPc = "format"
  /\ mainPc' = "launch"
  /\ script' = character
  /\ UNCHANGED <<touchPc, ttyPc, poller, lock, ctlVars, flagVars, defaultInputType,
                 character, bufVars, timerVars, frame, userVars, linkVars, drawnVars,
                 countVars, logVars>>

MainLaunch ==
  /\ mainPc = "launch"
  /\ mainPc' = "top"
  /\ RunScript
  /\ launched' = [got |-> script, want |-> taken]
  /\ taken' = NoLetter
  /\ UNCHANGED <<touchPc, ttyPc, poller, lock, flagVars, defaultInputType, character,
                 script, bufVars, timerVars, frame, userVars, linkVars, drawnVars,
                 countVars, recognised>>

(* The end of main. *)

MainJoinTty ==
  /\ mainPc = "join_tty" /\ ttyPc = "ended"
  /\ mainPc' = "finalize"
  /\ UNCHANGED <<touchPc, ttyPc, poller, lock, ctlVars, flagVars, defaultInputType,
                 character, script, bufVars, timerVars, frame, userVars, linkVars,
                 drawnVars, countVars, logVars>>

\* timer_finalize: the nodes first, then the thread.
MainFinalize ==
  /\ mainPc = "finalize"
  /\ mainPc' = "join_timer"
  /\ node' = Finalized(node)
  /\ UNCHANGED <<touchPc, ttyPc, poller, lock, ctlVars, flagVars, defaultInputType,
                 character, script, bufVars, timer1, timer2, timer3, frame, userVars,
                 linkVars, drawnVars, countVars, logVars>>

\* The thread is cancelled at the top of its loop only.
MainJoinTimer ==
  /\ mainPc = "join_timer"
  /\ \/ /\ poller = "idle"
        /\ poller' = "ended" /\ mainPc' = "end"
        /\ UNCHANGED <<touchPc, ttyPc, lock, ctlVars, flagVars, defaultInputType,
                       character, script, bufVars, timerVars, frame, userVars, linkVars,
                       drawnVars, countVars, logVars>>
     \/ poller = "none" /\ Crash("no_thread")

\* Any firmware still running is stopped, or the attempt fails.
MainEnd ==
  /\ mainPc = "end"
  /\ mainPc' = "returned"
  /\ status' = "exited"
  /\ stopFw \/ UNCHANGED fw
  /\ UNCHANGED <<touchPc, ttyPc, poller, lock, keepRunning, threadClosingRequested,
                 flagVars, defaultInputType, character, script, bufVars, timerVars, frame,
                 userVars, mFdRpmsg, txq, rx, nreq, answered, overdue, drawnVars,
                 countVars, logVars>>

MainStep ==
  \/ MainCheckFw \/ MainLoadFw \/ MainSpawnTty \/ MainReset \/ MainSpawnTouch
  \/ MainClear \/ MainTimerInit \/ MainPoll \/ MainTouchClear \/ MainSend
  \/ MainAiClear \/ MainStartNn \/ MainWipe \/ MainRewind \/ MainDoneClear
  \/ MainShow \/ MainFormat \/ MainLaunch \/ MainJoinTty \/ MainFinalize
  \/ MainJoinTimer \/ MainEnd

-----------------------------------------------------------------------------
(* Where a drawing is between the user's pause and the launch.  The        *)
(* careful user (Overlap = FALSE) keeps off the screen meanwhile, and      *)
(* starts a further stroke clearly before the 500 ms pause that would end  *)
(* the drawing or clearly after it.  A letter that never comes is waited   *)
(* for.                                                                    *)

HasResult ==
  aiProcessingDone \/ mainPc \in {"done_clear", "show", "format", "launch"}

Recognising ==
  \/ poller = "touch" \/ touchProcessingRequested
  \/ mainPc \in {"touch_clear", "send", "ai_clear", "start_nn"}
  \/ \E i \in DOMAIN txq : txq[i].type \in {"coordinates", "start_nn"}
  \/ rx.head.type \in {"coord_ack", "result"}
  \/ frame.type \in {"coord_ack", "result"}
  \/ aiProcessingRequested

MayDraw ==
  Overlap \/ /\ mainPc = "top" /\ mFdRpmsg /\ keepRunning
             /\ overdue = {} /\ ~ HasResult /\ ~ Recognising
             /\ ~ \E a \in Addr : node[a].kind = "touch" /\ node[a].st = "expired"

(* The touch event thread: one event at a time, with the mutex held. *)

\* The top of the touch thread's loop: it ends, or blocks in read(), where only
\* an event, not the flag, can wake it.
NextEvent == IF threadClosingRequested THEN "ended" ELSE "wait"

\* Without a display, an input directory or an input device that opens, the
\* thread calls exit() for the process, whatever main is doing: the firmware
\* runs on.
TouchSetup ==
  /\ touchPc = "setup"
  /\ \/ /\ touchPc' = NextEvent
        /\ UNCHANGED <<mainPc, ttyPc, poller, lock, ctlVars, flagVars, defaultInputType,
                       character, script, bufVars, timerVars, frame, userVars, linkVars,
                       drawnVars, countVars, logVars>>
     \/ Crash("exited")

\* The user does something; read() returns it and the mutex is taken.  A short
\* read ends the thread with the mutex locked, and nobody else will unlock it.
TouchRead ==
  /\ touchPc = "wait" /\ lock = "free"
  /\ events < MaxEvents
  /\ events' = events + 1
  /\ lock' = "touch"
  /\ \/ ~ finger /\ MayDraw /\ finger' = TRUE /\ touchPc' = "down"
     \/ finger /\ finger' = FALSE /\ touchPc' = "up"
     \/ finger /\ UNCHANGED finger /\ touchPc' \in {"x", "y"}
     \/ ShortReads /\ UNCHANGED finger /\ touchPc' = "ended"
  /\ UNCHANGED <<mainPc, ttyPc, poller, ctlVars, flagVars, defaultInputType, character,
                 script, bufVars, timerVars, frame, linkVars, drawnVars, countVars,
                 logVars>>

\* Mutation of TouchDown: the letter stays on the screen, and its timer runs on.
TouchDownKeepsLetter ==
  /\ touchPc = "down"
  /\ IF StaleHandle(node, timer1) THEN Crash("double_free")
     ELSE /\ touchPc' = "break"
          /\ node' = Stopped(node, timer1) /\ timer1' = NULL
          /\ UNCHANGED <<mainPc, ttyPc, poller, lock, ctlVars, flagVars, defaultInputType,
                         character, script, bufVars, timer2, timer3, frame, userVars,
                         linkVars, drawnVars, countVars, logVars>>

\* TOUCH_DOWN: timer1 is stopped, and timer2 if a letter is on the screen, ...
TouchDown ==
  /\ touchPc = "down"
  /\ LET n == Stopped(node, timer1) IN
     IF StaleHandle(node, timer1) \/ StaleHandle(n, timer2) THEN Crash("double_free")
     ELSE /\ touchPc' = IF timer2 = NULL THEN "break" ELSE "letter"
          /\ node' = Stopped(n, timer2)
          /\ timer1' = NULL
          /\ UNCHANGED <<mainPc, ttyPc, poller, lock, ctlVars, flagVars, defaultInputType,
                         character, script, bufVars, timer2, timer3, frame, userVars,
                         linkVars, drawnVars, countVars, logVars>>

\* ... the letter is wiped, ...
TouchLetter ==
  /\ touchPc = "letter"
  /\ touchPc' = "break"
  /\ timer2' = NULL
  /\ character' = NoLetter
  /\ UNCHANGED <<mainPc, ttyPc, poller, lock, ctlVars, flagVars, defaultInputType, script,
                 bufVars, node, timer1, timer3, frame, userVars, linkVars, drawnVars,
                 countVars, logVars>>

\* ... and a line break is entered at touch_idx, which is not compared with the
\* size of the array here.
TouchBreak ==
  /\ touchPc = "break"
  /\ IF touch_idx >= Depth THEN Crash("overrun")
     ELSE /\ touchPc' = "down_next"
          /\ draw_touch_coordinate' = [draw_touch_coordinate EXCEPT ![touch_idx] = "break"]
          /\ idx' = touch_idx
          /\ drawn' = IF paused THEN <<"break">> ELSE Append(drawn, "break")
          /\ paused' = FALSE
          /\ UNCHANGED <<mainPc, ttyPc, poller, lock, ctlVars, flagVars, defaultInputType,
                         character, script, touch_idx, timerVars, frame, userVars,
                         linkVars, countVars, logVars>>

\* Main may have rewound touch_idx since the touch thread last read it: the
\* compiler decides whether it is read again.
IndexRead == {idx, touch_idx}

TouchDownNext ==
  /\ touchPc = "down_next"
  /\ touchPc' = NextEvent /\ lock' = "free"
  /\ \E i \in IndexRead : touch_idx' = i + 1
  /\ UNCHANGED <<mainPc, ttyPc, poller, ctlVars, flagVars, defaultInputType, character,
                 script, draw_touch_coordinate, idx, timerVars, frame, userVars, linkVars,
                 drawnVars, countVars, logVars>>

\* One axis of the finger's position.
TouchMove ==
  /\ touchPc \in {"x", "y"}
  /\ IF touch_idx >= Depth THEN Crash("overrun")
     ELSE LET cell == WithAxis(draw_touch_coordinate[touch_idx], touchPc) IN
          /\ touchPc' = "move_next"
          /\ draw_touch_coordinate' = [draw_touch_coordinate EXCEPT ![touch_idx] = cell]
          /\ idx' = touch_idx
          /\ drawn' = IF Filled(cell) THEN Append(drawn, cell) ELSE drawn
          /\ UNCHANGED <<mainPc, ttyPc, poller, lock, ctlVars, flagVars, defaultInputType,
                         character, script, touch_idx, timerVars, frame, userVars,
                         linkVars, paused, countVars, logVars>>

\* The next cell once this one is filled; "touch event overflow" drops the
\* drawing and starts another one with a line break.
TouchMoveNext ==
  /\ touchPc = "move_next"
  /\ touchPc' = NextEvent /\ lock' = "free"
  /\ \E i \in IndexRead :
       \/ /\ ~ Filled(draw_touch_coordinate[i])
          /\ UNCHANGED <<touch_idx, draw_touch_coordinate, drawn>>
       \/ /\ Filled(draw_touch_coordinate[i]) /\ i + 1 < Depth
          /\ touch_idx' = i + 1
          /\ UNCHANGED <<draw_touch_coordinate, drawn>>
       \/ /\ Filled(draw_touch_coordinate[i]) /\ i + 1 >= Depth
          /\ draw_touch_coordinate' = [NoDrawing EXCEPT ![0] = "break"]
          /\ touch_idx' = 1
          /\ drawn' = <<"break">>
  /\ UNCHANGED <<mainPc, ttyPc, poller, ctlVars, flagVars, defaultInputType, character,
                 script, idx, timerVars, frame, userVars, linkVars, paused, countVars,
                 logVars>>

\* TOUCH_UP: the first one tells the network to expect letters, each of them
\* arms the timer that notices the end of the drawing.
TouchUp ==
  /\ touchPc = "up"
  /\ touchPc' = NextEvent /\ lock' = "free"
  /\ \/ /\ defaultInputType # 0
        /\ \E a \in Alloc(node) : node' = Started(node, a, "touch", 0) /\ timer1' = a
        /\ UNCHANGED <<defaultInputType, timer3, linkVars>>
     \/ /\ defaultInputType = 0
        /\ defaultInputType' = 1
        /\ WriteRequest("input_type")
        /\ \E a \in Alloc(node) :
             LET n == Started(node, a, "rpmsg", nreq) IN
             /\ timer3' = a
             /\ \E b \in Alloc(n) : node' = Started(n, b, "touch", 0) /\ timer1' = b
  /\ UNCHANGED <<mainPc, ttyPc, poller, ctlVars, flagVars, character, script, bufVars,
                 timer2, frame, userVars, drawnVars, countVars, logVars>>

TouchHandle ==
  \/ TouchSetup \/ TouchDown \/ TouchLetter \/ TouchBreak \/ TouchDownNext
  \/ TouchMove \/ TouchMoveNext \/ TouchUp

-----------------------------------------------------------------------------
(* The ttyRPMSG thread. *)

TtyOpen ==
  /\ ttyPc = "open"
  /\ ttyPc' = IF isFwOurs THEN "loop" ELSE "ended"
  /\ openTtyRpmsg
  /\ UNCHANGED <<mainPc, touchPc, poller, lock, ctlVars, flagVars, defaultInputType,
                 character, script, bufVars, timerVars, frame, userVars, fw, txq, rx, nreq,
                 answered, overdue, drawnVars, countVars, logVars>>

\* The closing flag is read at the top of the loop, the tty a millisecond
\* later, so a frame may still be read after the flag is set.
TtyClose ==
  /\ ttyPc = "loop" /\ threadClosingRequested
  /\ ttyPc' = "ended" /\ closeTtyRpmsg
  /\ UNCHANGED <<mainPc, touchPc, poller, lock, ctlVars, flagVars, defaultInputType,
                 character, script, bufVars, timerVars, frame, userVars, fw, txq, rx, nreq,
                 answered, overdue, drawnVars, countVars, logVars>>

\* copro_readTtyRpmsg: all the bytes there are, the first frame of them to be
\* decoded.  The timer of the request they answer still runs.
TtyRead ==
  /\ ttyPc = "loop" /\ rx.bytes > 0
  /\ ReadAll
  /\ frame' = rx.head
  /\ ttyPc' = IF rx.bytes > UartRxSize THEN "overrun" ELSE "stop"
  /\ UNCHANGED <<mainPc, touchPc, poller, lock, ctlVars, flagVars, defaultInputType,
                 character, script, bufVars, timerVars, userVars, drawnVars, countVars,
                 logVars>>

Stopping == {"stop", "overrun"}

\* copro_virtual_tty_process_read_data up to the mutex: whatever was read, the
\* timer timer3 names is stopped; timer3 keeps naming it.  Then all the bytes
\* are copied into uartRx, and an acknowledge or a refusal ends there.
TtyStop ==
  /\ ttyPc \in Stopping
  /\ IF StaleHandle(node, timer3) THEN Crash("double_free")
     ELSE IF ttyPc = "overrun" THEN Crash("overrun")
     ELSE /\ node' = Stopped(node, timer3)
          /\ \/ /\ frame.type \in {"coord_ack", "result"}
                /\ ttyPc' = "flag" /\ UNCHANGED frame
             \/ /\ frame.type \notin {"coord_ack", "result"}
                /\ ttyPc' = "loop" /\ frame' = NoFrame
          /\ UNCHANGED <<mainPc, touchPc, poller, lock, ctlVars, flagVars,
                         defaultInputType, character, script, bufVars, timer1, timer2,
                         timer3, userVars, linkVars, drawnVars, countVars, logVars>>

TtyCoordAck ==
  /\ ttyPc = "flag" /\ lock = "free" /\ frame.type = "coord_ack"
  /\ ttyPc' = "loop"
  /\ aiProcessingRequested' = TRUE
  /\ acks' = acks + 1
  /\ frame' = NoFrame
  /\ UNCHANGED <<mainPc, touchPc, poller, lock, ctlVars, touchProcessingRequested,
                 aiProcessingDone, defaultInputType, character, script, bufVars, timerVars,
                 userVars, linkVars, drawnVars, starts, logVars>>

TtyResult ==
  /\ ttyPc = "flag" /\ lock = "free" /\ frame.type = "result"
  /\ ttyPc' = "loop"
  /\ aiProcessingDone' = TRUE
  /\ character' = frame.letter
  /\ recognised' = frame.letter
  /\ frame' = NoFrame
  /\ UNCHANGED <<mainPc, touchPc, poller, lock, ctlVars, touchProcessingRequested,
                 aiProcessingRequested, defaultInputType, script, bufVars, timerVars,
                 userVars, linkVars, drawnVars, countVars, taken, launched>>

TtyStep == TtyOpen \/ TtyClose \/ TtyRead \/ TtyStop \/ TtyCoordAck \/ TtyResult

-----------------------------------------------------------------------------
(* The clock and the timer thread. *)

\* A request's 500 ms pass only if its answer takes longer than that, or is read
\* so late in that time that they are over before the timer is stopped (which
\* counts towards MaxFaults); a drawing's 500 ms and a letter's two seconds pass,
\* the latter not between arming timer2 and the sprintf two statements below.  In
\* the careful user's launcher a drawing's timer, armed after the first request's,
\* does not pass while that one has been answered and is about to be stopped.
Expire(a) ==
  /\ Expirable(node, a)
  /\ node[a].kind = "touch" => Overlap \/ (touchPc # "down" /\ ttyPc \notin Stopping)
  /\ a = timer2 => mainPc # "format"
  /\ node[a].kind = "rpmsg" =>
       \/ node[a].req \in overdue
       \/ node[a].req \in answered /\ Cardinality(overdue) < MaxFaults
  /\ node' = Expired(node, a)
  /\ UNCHANGED <<mainPc, touchPc, ttyPc, poller, lock, ctlVars, flagVars,
                 defaultInputType, character, script, bufVars, timer1, timer2, timer3,
                 frame, userVars, linkVars, drawnVars, countVars, logVars>>

\* A timeout makes its request overdue, even if its answer has just been read.
PollerFire(a) ==
  /\ poller = "idle"
  /\ node[a].st = "expired"
  /\ node' = Fired(node, a)
  /\ poller' = node[a].kind
  /\ paused' = (paused \/ node[a].kind = "touch")
  /\ overdue' = IF node[a].kind = "rpmsg" THEN overdue \union {node[a].req} ELSE overdue
  /\ UNCHANGED <<mainPc, touchPc, ttyPc, lock, ctlVars, flagVars, defaultInputType,
                 character, script, bufVars, timer1, timer2, timer3, frame, userVars, fw,
                 mFdRpmsg, txq, rx, nreq, answered, drawn, countVars, logVars>>

\* timer_callback
PollerTouch ==
  /\ poller = "touch" /\ lock = "free"
  /\ poller' = "idle"
  /\ touchProcessingRequested' = TRUE
  /\ UNCHANGED <<mainPc, touchPc, ttyPc, lock, ctlVars, aiProcessingRequested,
                 aiProcessingDone, defaultInputType, character, script, bufVars, timerVars,
                 frame, userVars, linkVars, drawnVars, countVars, logVars>>

\* timer_gtk_callback, which takes no mutex
PollerGtk ==
  /\ poller = "gtk"
  /\ poller' = "idle"
  /\ character' = NoLetter
  /\ UNCHANGED <<mainPc, touchPc, ttyPc, lock, ctlVars, flagVars, defaultInputType,
                 script, bufVars, timerVars, frame, userVars, linkVars, drawnVars,
                 countVars, logVars>>

\* Mutation of PollerRpmsg: the quit letter is not written.
PollerRpmsgMute ==
  /\ \/ poller = "rpmsg" /\ poller' = "launch" /\ UNCHANGED <<script, ctlVars>>
     \/ poller = "launch" /\ poller' = "idle" /\ RunScript /\ UNCHANGED script
  /\ UNCHANGED <<mainPc, touchPc, ttyPc, lock, flagVars, defaultInputType, character,
                 bufVars, timerVars, frame, userVars, linkVars, drawnVars, countVars,
                 logVars>>

\* rpmsg_timeout_callback
PollerRpmsg ==
  /\ \/ poller = "rpmsg" /\ poller' = "launch" /\ script' = QuitLetter /\ UNCHANGED ctlVars
     \/ poller = "launch" /\ poller' = "idle" /\ RunScript /\ UNCHANGED script
  /\ UNCHANGED <<mainPc, touchPc, ttyPc, lock, flagVars, defaultInputType, character,
                 bufVars, timerVars, frame, userVars, linkVars, drawnVars, countVars,
                 logVars>>

PollerStep == (\E a \in Addr : PollerFire(a)) \/ PollerTouch \/ PollerGtk \/ PollerRpmsg

-----------------------------------------------------------------------------
Booting == {"check_fw", "load_fw", "spawn_tty", "reset", "spawn_touch", "clear",
            "timer_init"}

\* SIGINT or SIGTERM from outside; sent again as long as one of the two
\* flags does not say so.
Signal ==
  /\ Signals
  /\ keepRunning \/ ~ threadClosingRequested
  /\ mainPc \in Booting => EarlySignal
  /\ IntHandler
  /\ UNCHANGED <<mainPc, touchPc, ttyPc, poller, lock, status, flagVars,
                 defaultInputType, character, script, bufVars, timerVars, frame, userVars,
                 linkVars, drawnVars, countVars, logVars>>

FirmwareStep ==
  /\ Firmware
  /\ UNCHANGED <<mainPc, touchPc, ttyPc, poller, lock, ctlVars, flagVars,
                 defaultInputType, character, script, bufVars, timerVars, frame, userVars,
                 drawnVars, countVars, logVars>>

Running == status = "running"
MainThread   == Running /\ MainStep
TouchThread  == Running /\ TouchHandle
User         == Running /\ TouchRead
TtyThread    == Running /\ TtyStep
Clock(a)     == Running /\ Expire(a)
TimerThread  == Running /\ PollerStep
Kill         == Running /\ Signal
Coprocessor  == Running /\ FirmwareStep

\* The process is gone.
Gone == ~ Running /\ UNCHANGED vars

Next ==
  \/ MainThread \/ TouchThread \/ User \/ TtyThread \/ (\E a \in Addr : Clock(a))
  \/ TimerThread \/ Kill \/ Coprocessor \/ Gone

Spec == Init /\ [][Next]_vars

\* Every thread gets the CPU, the clock runs, and the firmware answers the
\* requests it does not lose.  The user and the signals owe nothing.
FairSpec ==
  /\ Spec
  /\ WF_vars(MainThread)
  /\ WF_vars(TouchThread)
  /\ WF_vars(TtyThread)
  /\ WF_vars(TimerThread)
  /\ WF_vars(\E a \in Addr : Clock(a))
  /\ WF_vars(Coprocessor /\ FwAnswer)

-----------------------------------------------------------------------------
(* Properties. *)

ThreadsOK ==
  /\ mainPc \in Booting \union
       {"top", "touch_clear", "send", "ai_clear", "start_nn", "wipe", "rewind",
        "done_clear", "show", "format", "launch", "join_tty", "finalize", "join_timer",
        "end", "returned"}
  /\ touchPc \in {"none", "setup", "wait", "down", "letter", "break", "down_next", "x", "y",
                  "move_next", "up", "ended"}
  /\ ttyPc \in {"none", "open", "loop", "flag", "ended"} \union Stopping
  /\ poller \in TimerKinds \union {"none", "idle", "launch", "ended"}
  /\ lock \in {"free", "touch"}
  /\ status \in {"running", "exited", "double_free", "overrun", "no_thread"}

FlagsOK ==
  /\ keepRunning \in BOOLEAN /\ threadClosingRequested \in BOOLEAN
  /\ touchProcessingRequested \in BOOLEAN
  /\ aiProcessingRequested \in BOOLEAN
  /\ aiProcessingDone \in BOOLEAN
  /\ defaultInputType \in {0, 1}
  /\ finger \in BOOLEAN /\ events \in Nat

DrawingOK ==
  /\ draw_touch_coordinate \in [Index -> Cells]
  /\ touch_idx \in 0 .. Depth
  /\ idx \in Index
  /\ touchPc \in {"down_next", "move_next"} => touch_idx \in {idx, 0}
  /\ drawn \in Seq(Cells) /\ paused \in BOOLEAN

TimersOK ==
  /\ node \in [Addr -> Nodes]
  /\ timer1 \in Addr \union {NULL}
  /\ timer2 \in Addr \union {NULL}
  /\ timer3 \in Addr \union {NULL}

LinkOK ==
  /\ fw \in {"off", "other", "ours"}
  /\ mFdRpmsg \in BOOLEAN
  /\ txq \in Seq(Requests)
  /\ rx \in [head : Frames \union {NoFrame}, bytes : Nat, ids : SUBSET Nat]
  /\ nreq \in Nat /\ answered \in SUBSET Nat /\ overdue \in SUBSET Nat
  /\ frame \in Frames \union {NoFrame}

LettersOK ==
  /\ character \in Letters \union {NoLetter}
  /\ script \in Letters \union {NoLetter}
  /\ recognised \in Letters \union {NoLetter}
  /\ taken \in Letters \union {NoLetter}
  /\ launched \in [got : Letters \union {NoLetter}, want : Letters \union {NoLetter}]
  /\ acks \in Nat /\ starts \in Nat

\* Every variable holds a value of its kind; in particular touch_idx stays
\* within one past the array, a handle is an address or NULL, and a timer in
\* the list has a callback.
TypeOK == ThreadsOK /\ FlagsOK /\ DrawingOK /\ TimersOK /\ LinkOK /\ LettersOK

\* What main sends to the coprocessor is what the user drew since the last
\* pause, nothing of an earlier drawing, and as many cells of it as the length
\* byte can say: all of them while twice their number fits the byte.
FrameIsDrawing ==
  mainPc = "send" =>
    SentCells = SubSeq(drawn, 1, ((2 * Len(drawn)) % LenRange) \div 2)

\* No node is freed twice, short of a finger put down while main is past
\* timer_finalize, which frees the nodes timer1 and timer2 still name.
NoDoubleFree == status = "double_free" => mainPc \in {"join_timer", "end"}

\* Every timer_node in the list is still named by one of the three handles, as
\* long as every request is answered in time: no timer is out of reach.
NoOrphanTimer ==
  overdue = {} /\ status = "running" =>
    \A a \in Live(node) : a \in {timer1, timer2, timer3}

\* Once copro_virtual_tty_process_read_data has stopped the timer for an answer,
\* rpmsg_timeout_callback is not called for that request any more: timer3 named
\* its timer and no other.
AnswerStopsTimeout ==
  [][\A a \in Addr : node[a].st = "expired" /\ node[a].kind = "rpmsg"
                       /\ node'[a].st = "fired" =>
       node[a].req \notin answered \/ ttyPc \in Stopping]_vars

\* A touch event writes inside draw_touch_coordinate, whose overflow
\* read_touch_event_thread detects.
TouchInBounds == touchPc \in {"break", "x", "y"} => touch_idx < Depth

\* The letter given to the script is the letter recognised, unless the
\* launcher is about to quit over an unanswered request.
LaunchedIsRecognised == overdue = {} => launched.got = launched.want

\* The network is only started for a drawing the firmware has acknowledged.
StartNeedsAck == starts <= acks

\* The touch thread has ended with the mutex locked.
LockLeft == touchPc = "ended" /\ lock = "touch"

\* A drawing's pause that is over, or noticed, is followed by main sending a
\* drawing; unless there is no timer thread to notice it, a further stroke begins
\* before it is noticed, the launcher is quitting or dead, or a short read has
\* left the mutex locked.
PauseIsServed ==
  (touchProcessingRequested
     \/ \E a \in Addr : node[a].kind = "touch" /\ node[a].st = "expired")
    ~> \/ mainPc = "send"
       \/ ~ touchProcessingRequested /\ (finger \/ poller = "none")
       \/ LockLeft \/ ~ keepRunning \/ ~ Running

\* Once told to stop, by a signal or by the quit script, the process ends, in a
\* crash if need be, unless a short read has left the mutex locked.
QuitTerminates == ~ keepRunning ~> (~ Running \/ LockLeft)

\* A drawing or a recognition the firmware never answers makes the launcher
\* quit.  Request 0, the input type, is left out: there rpmsg_timeout_callback's
\* quit letter in script_launcher may still be overwritten by main's; as it may
\* for a request that was answered after all, in the instant of its timeout.
SilenceQuits ==
  (\E a \in Addr : /\ node[a].kind = "rpmsg"
                   /\ node[a].req \in overdue \ ({0} \union answered))
    ~> (~ keepRunning \/ ~ Running)

Quitting == ~ keepRunning \/ status # "running" \/ overdue # {}

Drawing == finger \/ touchPc = "up"
             \/ \E a \in Addr : node[a].kind = "touch" /\ node[a].st \in {"armed", "expired"}

\* The careful user's launcher implements Recognition.
Promise == INSTANCE Recognition WITH
  phase <- IF Quitting THEN "quit"
           ELSE IF HasResult THEN "result"
           ELSE IF Recognising THEN "recognising"
           ELSE IF Drawing THEN "drawing" ELSE "idle",
  letter <- IF ~ Quitting /\ HasResult
            THEN IF mainPc = "launch" THEN script ELSE character
            ELSE NoLetter,
  launched <- IF Quitting THEN NoLetter ELSE launched.got

ImplementsRecognition == Promise!Spec
=============================================================================
