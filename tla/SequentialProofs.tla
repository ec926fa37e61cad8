-------------------------- MODULE SequentialProofs --------------------------
(***************************************************************************)
(* The launcher used one drawing at a time: the user keeps off the screen  *)
(* while a drawing is recognised, and the coprocessor answers a request in *)
(* time and well, or not at all.  A drawing is then in one place between   *)
(* the screen and the launch, and that place says which thread may touch   *)
(* the array, which request is with the coprocessor and which timers are   *)
(* armed.  None of the properties below is inductive without all of it:    *)
(* what main sends depends on where the touch thread was when the pause    *)
(* was noticed, and that on the timers each handle stands for.             *)
(***************************************************************************)
EXTENDS AiLauncherProofs

\* A user who keeps off the screen while a drawing is recognised, and a
\* coprocessor that answers a request in time and well, or not at all.
Careful == ~ Overlap /\ Faults \subseteq {"drop"}

-----------------------------------------------------------------------------
(* Where a drawing is on its way: the places behind the screen, each with  *)
(* those after it.                                                         *)

\* The request the coprocessor has not handled yet.
Asked == IF txq = <<>> THEN "none" ELSE txq[1].type

AtLaunch   == mainPc \in {"show", "format", "launch"}
AtDone     == aiProcessingDone \/ AtLaunch
AtResult   == frame.type = "result" \/ AtDone
AtResultRx == rx.head.type = "result" \/ AtResult
AtStarted  == Asked = "start_nn" \/ AtResultRx
AtStart    == mainPc = "start_nn" \/ AtStarted
AtAi       == aiProcessingRequested \/ AtStart
AtAck      == frame.type = "coord_ack" \/ AtAi
AtAckRx    == rx.head.type = "coord_ack" \/ AtAck
AtSent     == Asked = "coordinates" \/ AtAckRx
AtSend     == mainPc = "send" \/ AtSent
AtTouch    == touchProcessingRequested \/ AtSend
Behind     == poller = "touch" \/ AtTouch

\* It is in one place at a time, and no other one is drawn meanwhile.
OnePlace ==
  /\ Drawing => ~ Behind
  /\ poller = "touch" => ~ AtTouch
  /\ touchProcessingRequested => ~ AtSend
  /\ mainPc = "send" => ~ AtSent
  /\ Asked = "coordinates" => ~ AtAckRx
  /\ rx.head.type = "coord_ack" => ~ AtAck
  /\ frame.type = "coord_ack" => ~ AtAi
  /\ aiProcessingRequested => ~ AtStart
  /\ mainPc = "start_nn" => ~ AtStarted
  /\ Asked = "start_nn" => ~ AtResultRx
  /\ rx.head.type = "result" => ~ AtResult
  /\ frame.type = "result" => ~ AtDone
  /\ aiProcessingDone => ~ AtLaunch

Wiping == mainPc \in {"wipe", "rewind"}

\* What main does meanwhile.
MainInv ==
  /\ mainPc = "touch_clear" => touchProcessingRequested
  /\ mainPc = "ai_clear" => aiProcessingRequested
  /\ mainPc = "done_clear" => aiProcessingDone
  /\ Wiping => ~ Drawing /\ (Behind => AtStarted)
  /\ mainPc = "returned" => status # "running"

\* The finger is down, its line break not yet entered.
Entering == {"down", "letter", "break"}

Touching == Entering \union {"down_next", "x", "y", "move_next"}

\* The finger is down while its events are handled, and has left before "up".
FingerInv ==
  /\ touchPc \in Touching => finger
  /\ touchPc = "up" => ~ finger
  /\ finger => touchPc \in Touching \union {"wait", "ended"}
  /\ touchPc = "down" => \A a \in Addr : node[a].kind = "touch" => node[a].st # "expired"

\* A request is with the coprocessor, or its answer in the tty.
Queued == txq # <<>> \/ rx # EmptyRx

\* Or its answer has been read, and its timer not yet stopped.
Pending == Queued \/ ttyPc \in Stopping

\* Nothing has happened before main's loop.
Fresh ==
  /\ ~ finger /\ touchPc \in {"none", "setup", "wait", "ended"} /\ poller = "none"
  /\ node = [a \in Addr |-> FreeNode] /\ timer1 = NULL /\ timer2 = NULL /\ timer3 = NULL
  /\ txq = <<>> /\ rx = EmptyRx /\ nreq = 0 /\ frame = NoFrame
  /\ ~ touchProcessingRequested /\ ~ aiProcessingRequested /\ ~ aiProcessingDone
  /\ draw_touch_coordinate = NoDrawing /\ touch_idx = 0 /\ drawn = <<>> /\ ~ paused

BootInv == mainPc \in Booting => Fresh

TtyInv ==
  /\ frame # NoFrame => ttyPc = "flag" \/ ttyPc \in Stopping
  /\ ttyPc = "flag" => frame.type \in {"coord_ack", "result"}
  /\ ttyPc \in Stopping => frame.type \in {"ack", "coord_ack", "result"}
  /\ mFdRpmsg => ttyPc \in {"loop", "flag"} \union Stopping
  /\ mainPc \in {"check_fw", "load_fw", "spawn_tty"} => ttyPc = "none"
  /\ mainPc \in {"finalize", "join_timer"} => ttyPc = "ended"
  /\ mainPc \in {"end", "returned"} => ttyPc = "ended" \/ Fresh

-----------------------------------------------------------------------------
(* One request is with the coprocessor at a time, the last one made. *)

LinkInv ==
  /\ txq # <<>> => /\ txq = <<txq[1]>> /\ rx = EmptyRx
                   /\ txq[1].type \in RequestTypes /\ txq[1].id + 1 = nreq
  /\ rx # EmptyRx => /\ rx.head \in Frames /\ rx.bytes = FrameBytes(rx.head)
                     /\ nreq > 0 /\ rx.ids = {nreq - 1}
                     /\ rx.head.type # "bad_ack"
  /\ ttyPc \in Stopping => txq = <<>> /\ rx = EmptyRx /\ nreq > 0
  /\ \A r \in answered \union overdue : r < nreq /\ (Queued => r + 1 # nreq)

InputPending == Asked = "input_type" \/ rx.head.type = "ack" \/ frame.type = "ack"

Finished == {"join_timer", "end", "returned"}

\* Whose timer is whose.
OwnerInv ==
  /\ \A a \in Addr : node[a].kind = "touch" => a = timer1
  /\ \A a \in Addr : node[a].kind = "gtk" => a = timer2 /\ touchPc # "letter"
  /\ mainPc \notin Finished =>
       /\ timer1 # NULL => node[timer1].kind = "touch"
       /\ timer2 # NULL /\ touchPc # "letter" => node[timer2].kind = "gtk"
  /\ ((finger /\ touchPc # "down") \/ touchPc = "up") => timer1 = NULL
  /\ /\ Drawing \/ Behind
     /\ touchPc \notin {"down", "letter"} /\ mainPc \notin {"format", "launch"}
     => timer2 = NULL
  /\ Behind /\ mainPc # "launch" => poller # "gtk"
  /\ mainPc = "format" /\ timer2 # NULL => node[timer2].st = "armed"

\* Which requests are guarded by which timers.
GuardInv ==
  /\ \A a \in Addr : node[a].kind = "rpmsg" =>
       /\ \/ node[a].req \in overdue
          \/ a = timer3 /\ Pending /\ node[a].req + 1 = nreq
       /\ node[a].st = "expired" => node[a].req \in overdue \/ ttyPc \in Stopping
       /\ node[a].st = "fired" => node[a].req \in overdue
       /\ node[a].req \in answered =>
            node[a].st = "fired" \/ (ttyPc \in Stopping /\ a = timer3)
  /\ Pending /\ mainPc \notin Finished =>
       IF timer3 = NULL THEN InputPending => Addr = {}
       ELSE node[timer3].kind = "rpmsg" /\ node[timer3].req + 1 = nreq
  /\ poller \in {"rpmsg", "launch"} => overdue # {}

\* The pause after a drawing is noticed once the input type is acknowledged.
OrderInv ==
  /\ InputPending /\ mainPc \notin Finished => ~ Behind /\ \A a \in Addr : node[a].kind =
        "touch" =>
       /\ node[a].st = "armed"
       /\ \A b \in Addr : node[b].kind = "rpmsg" /\ node[b].req + 1 = nreq =>
            b \in node[a].older
  /\ defaultInputType = 0 => nreq = 0 /\ timer1 = NULL /\ ~ Behind

-----------------------------------------------------------------------------
(* The drawing as the user made it and as main sends it. *)

\* The cells of a drawing, and no others, are filled.
Holds(cells, d) ==
  /\ Len(d) <= Depth
  /\ \A i \in Index : i < Len(d) => cells[i] = d[i + 1] /\ Filled(d[i + 1])
  /\ \A i \in Index : i >= Len(d) => ~ Filled(cells[i])

\* draw_touch_coordinate and touch_idx hold what the user drew.
Mirror ==
  /\ Holds(draw_touch_coordinate, drawn)
  /\ IF touchPc \in {"down_next", "move_next"}
     THEN /\ idx = touch_idx
          /\ touchPc = "down_next" => Filled(draw_touch_coordinate[idx])
          /\ Len(drawn) = IF Filled(draw_touch_coordinate[idx]) THEN touch_idx + 1
                          ELSE touch_idx
     ELSE Len(drawn) = touch_idx

Clean == draw_touch_coordinate = NoDrawing /\ touch_idx = 0

DrawingInv ==
  /\ Drawing /\ touchPc \notin Entering => ~ paused /\ Mirror
  /\ touchPc \in Entering \/ (~ Drawing /\ ~ Behind /\ ~ Wiping /\ overdue = {}) =>
       IF paused THEN Clean ELSE Mirror
  /\ Behind /\ ~ AtSent => Mirror
  /\ Behind \/ Wiping => paused
  /\ AtStarted /\ ~ Wiping => Clean
  /\ mainPc = "rewind" => draw_touch_coordinate = NoDrawing

SequentialInv ==
  /\ OnePlace /\ MainInv /\ FingerInv /\ BootInv /\ TtyInv
  /\ LinkInv /\ OwnerInv /\ GuardInv /\ OrderInv /\ DrawingInv

\* What each step below may count on.
Context == Careful /\ TypeOK /\ SequentialInv

-----------------------------------------------------------------------------
(* What the timer operators do, address by address. *)

\* A node that is free belongs to no callback.
LEMMA FreeKind ==
  ASSUME NEW n \in [Addr -> Nodes], NEW a \in Addr
  PROVE  /\ n[a].st = "free" <=> n[a] = FreeNode
         /\ n[a].st = "free" <=> n[a].kind = "none"
         /\ n[a].st \in {"free", "armed", "expired", "fired"}
         /\ n[a].kind \in TimerKinds \union {"none"}
         /\ n[a].req \in Nat
BY n[a] \in Nodes DEF Nodes, FreeNode, TimerKinds

\* malloc returns a free address or, when there is none, NULL.
LEMMA AllocEffect ==
  ASSUME NEW n \in [Addr -> Nodes], NEW a \in Alloc(n)
  PROVE  \/ a = NULL /\ \A b \in Addr : n[b].kind # "none"
         \/ a # NULL /\ a \in Addr /\ n[a].kind = "none"
BY FreeKind, NullIsNoAddress DEF Alloc, Live

\* timer_start changes no other node.
LEMMA StartedEffect ==
  ASSUME NEW n \in [Addr -> Nodes], NEW a \in Alloc(n), NEW kind \in TimerKinds,
         NEW req \in Nat
  PROVE  /\ Started(n, a, kind, req) \in [Addr -> Nodes]
         /\ a = NULL => Started(n, a, kind, req) = n
         /\ a # NULL =>
              /\ Started(n, a, kind, req)[a].st = "armed"
              /\ Started(n, a, kind, req)[a].kind = kind
              /\ Started(n, a, kind, req)[a].req = req
              /\ Started(n, a, kind, req)[a].older = {b \in Addr : n[b].kind # "none"}
         /\ \A b \in Addr : b # a => Started(n, a, kind, req)[b] = n[b]
<1>1. a \in Addr \union {NULL}
  BY AllocType
<1>2. Started(n, a, kind, req) \in [Addr -> Nodes]
  BY <1>1, StartedType
<1>3. Live(n) = {b \in Addr : n[b].kind # "none"}
  BY FreeKind DEF Live
<1> QED BY <1>1, <1>2, <1>3 DEF Started

\* timer_stop frees one node and takes it out of the list.
LEMMA StoppedEffect ==
  ASSUME NEW n \in [Addr -> Nodes], NEW h
  PROVE  /\ Stopped(n, h) \in [Addr -> Nodes]
         /\ h = NULL => Stopped(n, h) = n
         /\ \A b \in Addr : b # h =>
              /\ Stopped(n, h)[b].st = n[b].st
              /\ Stopped(n, h)[b].kind = n[b].kind
              /\ Stopped(n, h)[b].req = n[b].req
              /\ \A c \in n[b].older : c # h => c \in Stopped(n, h)[b].older
         /\ h \in Addr => Stopped(n, h)[h] = FreeNode
<1>1. Stopped(n, h) \in [Addr -> Nodes]
  BY StoppedType
<1>2. ASSUME NEW b \in Addr, b # h, h # NULL
      PROVE  /\ Stopped(n, h)[b].st = n[b].st
             /\ Stopped(n, h)[b].kind = n[b].kind
             /\ Stopped(n, h)[b].req = n[b].req
             /\ Stopped(n, h)[b].older = n[b].older \ {h}
  <2>1. Stopped(n, h)[b] = [n[b] EXCEPT !.older = @ \ {h}]
    BY <1>2 DEF Stopped
  <2>2. n[b] \in [st : {"free", "armed", "expired", "fired"},
                  kind : TimerKinds \union {"none"}, req : Nat, older : SUBSET Addr]
    BY n[b] \in Nodes DEF Nodes, FreeNode
  <2> QED BY <2>1, <2>2
<1>3. h \in Addr => Stopped(n, h)[h] = FreeNode
  BY NullIsNoAddress DEF Stopped
<1>4. h = NULL => Stopped(n, h) = n
  BY DEF Stopped
<1> QED BY <1>1, <1>2, <1>3, <1>4

\* The clock and the timer thread change the state of one live node.
LEMMA ExpiredEffect ==
  ASSUME NEW n \in [Addr -> Nodes], NEW a \in Addr, n[a].st # "free",
         NEW st, NEW m, m = [n EXCEPT ![a].st = st]
  PROVE  /\ m[a].st = st
         /\ \A b \in Addr : b # a => m[b] = n[b]
         /\ \A b \in Addr : /\ m[b].kind = n[b].kind
                            /\ m[b].req = n[b].req
                            /\ m[b].older = n[b].older
<1>1. n[a] \in [st : {"free", "armed", "expired", "fired"},
               kind : TimerKinds \union {"none"}, req : Nat, older : SUBSET Addr]
  BY n[a] \in Nodes DEF Nodes, FreeNode
<1>2. m[a] = [n[a] EXCEPT !.st = st]
  OBVIOUS
<1>3. m[a].st = st /\ m[a].kind = n[a].kind /\ m[a].req = n[a].req /\ m[a].older = n[a].older
  BY <1>1, <1>2
<1>4. \A b \in Addr : b # a => m[b] = n[b]
  OBVIOUS
<1> QED BY <1>3, <1>4

-----------------------------------------------------------------------------
(* What the requests and the firmware do. *)

\* A request, with none before it: it waits for the firmware, or the tty is
\* not open and it will never be answered.
LEMMA WriteEffect ==
  ASSUME LinkOK, txq = <<>>, NEW type \in RequestTypes, WriteRequest(type)
  PROVE  /\ nreq' = nreq + 1 /\ nreq \in Nat /\ UNCHANGED <<fw, mFdRpmsg, rx, answered>>
         /\ \/ /\ mFdRpmsg /\ txq' # <<>> /\ txq' = <<txq'[1]>>
               /\ txq'[1] = [type |-> type, id |-> nreq]
               /\ Asked' = type /\ overdue' = overdue
            \/ ~ mFdRpmsg /\ txq' = <<>> /\ Asked' = "none" /\ overdue' = overdue \union {nreq}
<1>1. nreq' = nreq + 1 /\ nreq \in Nat /\ UNCHANGED <<fw, mFdRpmsg, rx, answered>>
  BY DEF WriteRequest, LinkOK
<1>2. CASE mFdRpmsg
  <2> DEFINE q == [type |-> type, id |-> nreq]
  <2>1. txq' = <<q>> /\ overdue' = overdue
    BY <1>2 DEF WriteRequest
  <2>2. txq' # <<>> /\ txq'[1] = q /\ txq' = <<txq'[1]>>
    BY <2>1
  <2>3. q.type = type
    OBVIOUS
  <2> HIDE DEF q
  <2>4. Asked' = type
    BY <2>2, <2>3 DEF Asked
  <2> QED BY <1>1, <1>2, <2>1, <2>2, <2>4 DEF q
<1>3. CASE ~ mFdRpmsg
  BY <1>1, <1>3 DEF WriteRequest, Asked
<1> QED BY <1>1, <1>2, <1>3

\* The firmware answers the only request there is, or loses it.
LEMMA FirmwareEffect ==
  ASSUME Careful, LinkOK, LinkInv, Firmware
  PROVE  /\ txq # <<>> /\ txq' = <<>> /\ Asked' = "none" /\ rx = EmptyRx
         /\ nreq > 0 /\ nreq - 1 \in Nat /\ txq[1].id = nreq - 1
         /\ UNCHANGED <<fw, mFdRpmsg, nreq, answered>>
         /\ \/ /\ overdue' = overdue /\ rx' # EmptyRx
               /\ \E f \in Answers(txq[1]) :
                    rx' = [head |-> f, bytes |-> FrameBytes(f), ids |-> {nreq - 1}]
            \/ overdue' = overdue \union {nreq - 1} /\ rx' = EmptyRx
<1>1. FwAnswer \/ FwDrop
  BY DEF Careful, Firmware, FwNack, FwStall
<1>2. txq # <<>> /\ txq' = Tail(txq)
  BY <1>1 DEF FwAnswer, FwDrop, FwReceives
<1>3. txq = <<txq[1]>> /\ rx = EmptyRx /\ txq[1].id + 1 = nreq
  BY <1>2 DEF LinkInv
<1>4. Head(txq) = txq[1] /\ txq' = <<>>
  <2> DEFINE q == txq[1]
  <2>1. txq = <<q>>
    BY <1>3
  <2> HIDE DEF q
  <2>2. Head(<<q>>) = q /\ Tail(<<q>>) = <<>>
    OBVIOUS
  <2> QED BY <1>2, <2>1, <2>2 DEF q
<1>5. txq[1] \in Requests
  BY <1>2 DEF LinkOK
<1>6. nreq \in Nat /\ txq[1].id \in Nat /\ nreq > 0 /\ txq[1].id = nreq - 1
  BY <1>3, <1>5 DEF Requests, LinkOK
<1>7. CASE FwAnswer
  <2>1. PICK f \in Answers(txq[1]) : Arrive(f, txq[1].id)
    BY <1>7, <1>4 DEF FwAnswer
  <2>2. FrameBytes(f) \in Nat /\ FrameBytes(f) > 0
    BY DEF FrameBytes
  <2>3. rx.bytes = 0 /\ rx.ids = {}
    BY <1>3 DEF EmptyRx
  <2>4. rx' = [head |-> f, bytes |-> FrameBytes(f), ids |-> {nreq - 1}]
    <3>1. rx.bytes + FrameBytes(f) = FrameBytes(f)
      BY <2>2, <2>3
    <3>2. rx.ids \union {txq[1].id} = {nreq - 1}
      BY <2>3, <1>6
    <3> QED BY <2>1, <2>3, <3>1, <3>2 DEF Arrive
  <2>5. rx' # EmptyRx
    BY <2>4, <2>2 DEF EmptyRx
  <2> QED BY <1>2, <1>3, <1>4, <1>6, <1>7, <2>4, <2>5 DEF FwAnswer, Asked
<1>8. CASE FwDrop
  BY <1>2, <1>3, <1>4, <1>6, <1>8 DEF FwDrop, Asked
<1> QED BY <1>1, <1>7, <1>8

-----------------------------------------------------------------------------
(* The invariant is kept, step by step. *)

USE DEF Context, TypeOK, SequentialInv, Behind, AtTouch, AtSend, AtSent, AtAckRx, AtAck,
      AtAi, AtStart, AtStarted, AtResultRx, AtResult, AtDone, AtLaunch, Stopping, Queued,
      Entering, ctlVars, flagVars, bufVars, timerVars, userVars, linkVars, drawnVars,
      countVars, logVars

\* What the drawing and its copy are compared by.
LEMMA KeepMirror ==
  ASSUME UNCHANGED drawn, UNCHANGED <<draw_touch_coordinate, idx>>, UNCHANGED touch_idx,
         touchPc' = touchPc \/ {touchPc, touchPc'} \cap {"down_next", "move_next"} = {}
  PROVE  Mirror' = Mirror
BY DEF Mirror

BootStep ==
  MainCheckFw \/ MainLoadFw \/ MainSpawnTty \/ MainReset \/ MainSpawnTouch \/ MainClear \/
        MainTimerInit

\* Main's set-up.
LEMMA BootSafe == ASSUME Context, BootStep PROVE SequentialInv'
<1> USE DEF BootStep, MainCheckFw, stopFw, MainLoadFw, startFw, MainSpawnTty, MainReset,
      MainSpawnTouch, NextEvent, MainClear, MainTimerInit
<1>1. OnePlace'
  BY DEF OnePlace, Drawing, Asked, MainInv, FingerInv, TtyInv, BootInv, Fresh, Booting,
        EmptyRx, NoFrame
<1>2. MainInv'
  BY DEF MainInv, OnePlace, Wiping, Drawing, Asked, BootInv, Fresh, Booting, EmptyRx, NoFrame
<1>3. FingerInv'
  BY DEF FingerInv, Touching, BootInv, Fresh, Booting
<1>4. BootInv'
  BY DEF BootInv, Fresh, Booting, FingerInv, Touching, NoFrame
<1>5. TtyInv'
  BY DEF TtyInv, Fresh, BootInv, Booting, EmptyRx, NoFrame
<1>6. LinkInv'
  BY DEF LinkInv, Pending
<1>7. OwnerInv'
  BY DEF OwnerInv, Finished, Drawing, Asked, BootInv, Fresh, Booting, MainInv, OnePlace,
        EmptyRx, NoFrame
<1>8. GuardInv'
  BY DEF GuardInv, Finished, Pending, InputPending, Asked, TtyInv, NoFrame
<1>9. OrderInv'
  BY DEF OrderInv, InputPending, Finished, Asked, BootInv, Fresh, Booting, MainInv,
        EmptyRx, NoFrame
<1>10. DrawingInv'
  BY DEF DrawingInv, Wiping, Drawing, Asked, BootInv, Fresh, Booting, MainInv, FingerInv,
        Touching, OnePlace, NoFrame, EmptyRx, Mirror, Clean
<1> QED BY <1>1, <1>2, <1>3, <1>4, <1>5, <1>6, <1>7, <1>8, <1>9, <1>10

LoopStep ==
  MainPoll \/ MainTouchClear \/ MainAiClear \/ MainWipe \/ MainRewind \/ MainDoneClear \/
        MainFormat \/ MainLaunch

\* Main's loop, its requests and its timer apart.
LEMMA LoopSafe == ASSUME Context, LoopStep PROVE SequentialInv'
<1> USE DEF LoopStep, MainPoll, MainTouchClear, MainAiClear, MainWipe, MainRewind,
      MainDoneClear, MainFormat, MainLaunch, RunScript, IntHandler
<1>1. OnePlace'
  BY DEF OnePlace, Drawing, Asked, MainInv, FingerInv, TtyInv, BootInv, Fresh, Booting,
        EmptyRx, NoFrame
<1>2. MainInv'
  BY DEF MainInv, OnePlace, Wiping, Drawing, Asked, BootInv, Fresh, Booting, EmptyRx, NoFrame
<1>3. FingerInv'
  BY DEF FingerInv, Touching, BootInv, Fresh, Booting
<1>4. BootInv'
  BY DEF BootInv, Fresh, Booting, FingerInv, Touching, NoFrame
<1>5. TtyInv'
  BY DEF TtyInv, Fresh, BootInv, Booting, EmptyRx, NoFrame
<1>6. LinkInv'
  BY DEF LinkInv, Pending
<1>7. OwnerInv'
  BY DEF OwnerInv, Finished, Drawing, Asked, BootInv, Fresh, Booting, MainInv, OnePlace,
        EmptyRx, NoFrame
<1>8. GuardInv'
  BY DEF GuardInv, Finished, Pending, InputPending, Asked
<1>9. OrderInv'
  BY DEF OrderInv, InputPending, Finished, Asked, BootInv, Fresh, Booting, MainInv,
        EmptyRx, NoFrame
<1>10. DrawingInv'
  BY KeepMirror DEF DrawingInv, Wiping, Drawing, Asked, BootInv, Fresh, Booting, MainInv,
        FingerInv, Touching, OnePlace, NoFrame, EmptyRx, Clean
<1> QED BY <1>1, <1>2, <1>3, <1>4, <1>5, <1>6, <1>7, <1>8, <1>9, <1>10

LeaveStep ==
  MainJoinTty \/ MainEnd

\* The end of main, timer_finalize apart.
LEMMA LeaveSafe == ASSUME Context, LeaveStep PROVE SequentialInv'
<1> USE DEF LeaveStep, MainJoinTty, MainEnd, stopFw
<1>1. OnePlace'
  BY DEF OnePlace, Drawing, Asked, MainInv, FingerInv, TtyInv, BootInv, Fresh, Booting,
        EmptyRx, NoFrame
<1>2. MainInv'
  BY DEF MainInv, OnePlace, Wiping, Drawing, Asked, BootInv, Fresh, Booting, EmptyRx, NoFrame
<1>3. FingerInv'
  BY DEF FingerInv, Touching, BootInv, Fresh, Booting
<1>4. BootInv'
  BY DEF BootInv, Fresh, Booting, FingerInv, Touching, NoFrame
<1>5. TtyInv'
  BY DEF TtyInv, Fresh, BootInv, Booting, EmptyRx, NoFrame
<1>6. LinkInv'
  BY DEF LinkInv, Pending
<1>7. OwnerInv'
  BY DEF OwnerInv, Finished, Drawing, Asked, BootInv, Fresh, Booting, MainInv, OnePlace,
        EmptyRx, NoFrame
<1>8. GuardInv'
  BY DEF GuardInv, Finished, Pending, InputPending, Asked
<1>9. OrderInv'
  BY DEF OrderInv, InputPending, Finished, Asked, BootInv, Fresh, Booting, MainInv,
        EmptyRx, NoFrame
<1>10. DrawingInv'
  BY KeepMirror DEF DrawingInv, Wiping, Drawing, Asked, BootInv, Fresh, Booting, MainInv,
        FingerInv, Touching, OnePlace, NoFrame, EmptyRx, Clean
<1> QED BY <1>1, <1>2, <1>3, <1>4, <1>5, <1>6, <1>7, <1>8, <1>9, <1>10

TtyQuietStep ==
  TtyOpen \/ TtyClose \/ TtyCoordAck \/ TtyResult

\* The ttyRPMSG thread, the reading of an answer apart.
LEMMA TtyQuietSafe == ASSUME Context, TtyQuietStep PROVE SequentialInv'
<1> USE DEF TtyQuietStep, TtyOpen, openTtyRpmsg, TtyClose, closeTtyRpmsg, TtyCoordAck, TtyResult
<1>1. OnePlace'
  BY DEF OnePlace, Drawing, Asked, MainInv, FingerInv, TtyInv, BootInv, Fresh, Booting,
        EmptyRx, NoFrame
<1>2. MainInv'
  BY DEF MainInv, OnePlace, Wiping, Drawing, Asked, BootInv, Fresh, Booting, EmptyRx, NoFrame
<1>3. FingerInv'
  BY DEF FingerInv, Touching, BootInv, Fresh, Booting
<1>4. BootInv'
  BY DEF BootInv, Fresh, Booting, FingerInv, Touching, NoFrame
<1>5. TtyInv'
  BY DEF TtyInv, Fresh, BootInv, Booting, EmptyRx, NoFrame
<1>6. LinkInv'
  BY DEF LinkInv, Pending
<1>7. OwnerInv'
  BY DEF OwnerInv, Finished, Drawing, Asked, BootInv, Fresh, Booting, MainInv, OnePlace,
        EmptyRx, NoFrame
<1>8. GuardInv'
  BY DEF GuardInv, Finished, Pending, InputPending, Asked, TtyInv, NoFrame
<1>9. OrderInv'
  BY DEF OrderInv, InputPending, Finished, Asked, BootInv, Fresh, Booting, MainInv,
        EmptyRx, NoFrame
<1>10. DrawingInv'
  BY KeepMirror DEF DrawingInv, Wiping, Drawing, Asked, BootInv, Fresh, Booting, MainInv,
        FingerInv, Touching, OnePlace, NoFrame, EmptyRx, Clean
<1> QED BY <1>1, <1>2, <1>3, <1>4, <1>5, <1>6, <1>7, <1>8, <1>9, <1>10

TouchSetsUp == TouchSetup /\ ~ Crash("exited")

QuietStep ==
  PollerTouch \/ PollerGtk \/ PollerRpmsg \/ Signal \/ TouchSetsUp

\* The callbacks, the signals and the touch thread's set-up.
LEMMA QuietSafe == ASSUME Context, QuietStep PROVE SequentialInv'
<1> USE DEF QuietStep, PollerTouch, PollerGtk, PollerRpmsg, RunScript, IntHandler, Signal,
      TouchSetsUp, TouchSetup, NextEvent
<1>1. OnePlace'
  BY DEF OnePlace, Drawing, Asked, MainInv, FingerInv, TtyInv, BootInv, Fresh, Booting,
        EmptyRx, NoFrame
<1>2. MainInv'
  BY DEF MainInv, OnePlace, Wiping, Drawing, Asked, BootInv, Fresh, Booting, EmptyRx, NoFrame
<1>3. FingerInv'
  BY DEF FingerInv, Touching, BootInv, Fresh, Booting
<1>4. BootInv'
  BY DEF BootInv, Fresh, Booting, FingerInv, Touching, NoFrame
<1>5. TtyInv'
  BY DEF TtyInv, Fresh, BootInv, Booting, EmptyRx, NoFrame
<1>6. LinkInv'
  BY DEF LinkInv, Pending
<1>7. OwnerInv'
  BY DEF OwnerInv, Finished, Drawing, Asked, BootInv, Fresh, Booting, MainInv, OnePlace,
        EmptyRx, NoFrame
<1>8. GuardInv'
  BY DEF GuardInv, Finished, Pending, InputPending, Asked
<1>9. OrderInv'
  BY DEF OrderInv, InputPending, Finished, Asked, BootInv, Fresh, Booting, MainInv,
        EmptyRx, NoFrame
<1>10. DrawingInv'
  BY KeepMirror DEF DrawingInv, Wiping, Drawing, Asked, BootInv, Fresh, Booting, MainInv,
        FingerInv, Touching, OnePlace, NoFrame, EmptyRx, Clean
<1> QED BY <1>1, <1>2, <1>3, <1>4, <1>5, <1>6, <1>7, <1>8, <1>9, <1>10

\* Nothing but the status changes in a crash.
LEMMA CrashSafe == ASSUME Context, NEW fault, fault # "running", Crash(fault) PROVE
      SequentialInv'
<1> USE DEF Crash
<1>1. OnePlace'
  BY DEF OnePlace, Drawing, Asked, MainInv, FingerInv, TtyInv, BootInv, Fresh, Booting,
        EmptyRx, NoFrame
<1>2. MainInv'
  BY DEF MainInv, OnePlace, Wiping, Drawing, Asked, BootInv, Fresh, Booting, EmptyRx, NoFrame
<1>3. FingerInv'
  BY DEF FingerInv, Touching, BootInv, Fresh, Booting
<1>4. BootInv'
  BY DEF BootInv, Fresh, Booting, FingerInv, Touching, NoFrame
<1>5. TtyInv'
  BY DEF TtyInv, Fresh, BootInv, Booting, EmptyRx, NoFrame
<1>6. LinkInv'
  BY DEF LinkInv, Pending
<1>7. OwnerInv'
  BY DEF OwnerInv, Finished, Drawing, Asked, BootInv, Fresh, Booting, MainInv, OnePlace,
        EmptyRx, NoFrame
<1>8. GuardInv'
  BY DEF GuardInv, Finished, Pending, InputPending, Asked
<1>9. OrderInv'
  BY DEF OrderInv, InputPending, Finished, Asked, BootInv, Fresh, Booting, MainInv,
        EmptyRx, NoFrame
<1>10. DrawingInv'
  BY KeepMirror DEF DrawingInv, Wiping, Drawing, Asked, BootInv, Fresh, Booting, MainInv,
        FingerInv, Touching, OnePlace, NoFrame, EmptyRx, Clean
<1> QED BY <1>1, <1>2, <1>3, <1>4, <1>5, <1>6, <1>7, <1>8, <1>9, <1>10

\* Nor when nothing happens.
LEMMA StutterSafe == ASSUME Context, UNCHANGED vars PROVE SequentialInv'
<1> USE DEF vars
<1>1. OnePlace'
  BY DEF OnePlace, Drawing, Asked, MainInv, FingerInv, TtyInv, BootInv, Fresh, Booting,
        EmptyRx, NoFrame
<1>2. MainInv'
  BY DEF MainInv, OnePlace, Wiping, Drawing, Asked, BootInv, Fresh, Booting, EmptyRx, NoFrame
<1>3. FingerInv'
  BY DEF FingerInv, Touching, BootInv, Fresh, Booting
<1>4. BootInv'
  BY DEF BootInv, Fresh, Booting, FingerInv, Touching, NoFrame
<1>5. TtyInv'
  BY DEF TtyInv, Fresh, BootInv, Booting, EmptyRx, NoFrame
<1>6. LinkInv'
  BY DEF LinkInv, Pending
<1>7. OwnerInv'
  BY DEF OwnerInv, Finished, Drawing, Asked, BootInv, Fresh, Booting, MainInv, OnePlace,
        EmptyRx, NoFrame
<1>8. GuardInv'
  BY DEF GuardInv, Finished, Pending, InputPending, Asked
<1>9. OrderInv'
  BY DEF OrderInv, InputPending, Finished, Asked, BootInv, Fresh, Booting, MainInv,
        EmptyRx, NoFrame
<1>10. DrawingInv'
  BY KeepMirror DEF DrawingInv, Wiping, Drawing, Asked, BootInv, Fresh, Booting, MainInv,
        FingerInv, Touching, OnePlace, NoFrame, EmptyRx, Clean
<1> QED BY <1>1, <1>2, <1>3, <1>4, <1>5, <1>6, <1>7, <1>8, <1>9, <1>10

\* The firmware answers or loses the request it has.
LEMMA FirmwareSafe == ASSUME Context, FirmwareStep PROVE SequentialInv'
<1> USE DEF FirmwareStep
<1>1. /\ txq # <<>> /\ txq' = <<>> /\ Asked' = "none" /\ rx = EmptyRx
      /\ nreq > 0 /\ nreq - 1 \in Nat /\ txq[1].id = nreq - 1
      /\ UNCHANGED <<fw, mFdRpmsg, nreq, answered>>
      /\ \/ /\ overdue' = overdue /\ rx' # EmptyRx
            /\ \E f \in Answers(txq[1]) :
                 rx' = [head |-> f, bytes |-> FrameBytes(f), ids |-> {nreq - 1}]
         \/ overdue' = overdue \union {nreq - 1} /\ rx' = EmptyRx
  BY FirmwareEffect
<1>2. \/ rx' = EmptyRx
      \/ rx'.head.type = "ack" /\ Asked = "input_type"
      \/ rx'.head.type = "coord_ack" /\ Asked = "coordinates"
      \/ rx'.head.type = "result" /\ Asked = "start_nn"
  BY <1>1, txq[1].type \in RequestTypes DEF Answers, LinkInv, RequestTypes, Asked
<1>3. \A a \in Addr : node[a].req \in Nat
  BY FreeKind DEF TimersOK
<1>4. OnePlace'
  BY <1>1, <1>2 DEF OnePlace, Drawing, Asked, MainInv, FingerInv, TtyInv, BootInv, Fresh,
        Booting, EmptyRx, NoFrame
<1>5. MainInv'
  BY <1>1, <1>2 DEF MainInv, OnePlace, Wiping, Drawing, Asked, BootInv, Fresh, Booting,
        EmptyRx, NoFrame
<1>6. FingerInv'
  BY <1>1, <1>2 DEF FingerInv, Touching, BootInv, Fresh, Booting
<1>7. BootInv'
  BY <1>1, <1>2 DEF BootInv, Fresh, Booting, FingerInv, Touching, NoFrame
<1>8. TtyInv'
  BY <1>1, <1>2 DEF TtyInv, Fresh, BootInv, Booting, EmptyRx, NoFrame
<1>9. LinkInv'
  BY <1>1, <1>2 DEF LinkInv, Pending, RequestTypes, LinkOK, Frames, Answers
<1>10. OwnerInv'
  BY <1>1, <1>2 DEF OwnerInv, Finished, Drawing, Asked, BootInv, Fresh, Booting, MainInv,
        OnePlace, EmptyRx, NoFrame
<1>11. GuardInv'
  BY <1>1, <1>2, <1>3 DEF GuardInv, Finished, Pending, InputPending, Asked, LinkOK
<1>12. OrderInv'
  BY <1>1, <1>2 DEF OrderInv, InputPending, Finished, Asked, BootInv, Fresh, Booting,
        MainInv, EmptyRx, NoFrame
<1>13. DrawingInv'
  BY <1>1, <1>2, KeepMirror DEF DrawingInv, Wiping, Drawing, Asked, BootInv, Fresh,
        Booting, MainInv, FingerInv, Touching, OnePlace, NoFrame, EmptyRx, Clean
<1> QED BY <1>4, <1>5, <1>6, <1>7, <1>8, <1>9, <1>10, <1>11, <1>12, <1>13

\* The ttyRPMSG thread reads an answer.
LEMMA TtyReadSafe == ASSUME Context, TtyRead PROVE SequentialInv'
<1>1. /\ ttyPc = "loop" /\ rx.bytes > 0 /\ ReadAll /\ frame' = rx.head
      /\ ttyPc' \in Stopping
      /\ UNCHANGED <<mainPc, touchPc, poller, lock, ctlVars, flagVars, defaultInputType,
                     character, script, bufVars, timerVars, userVars, drawnVars,
                     countVars, logVars>>
  BY DEF TtyRead
<1>2. /\ rx # EmptyRx /\ txq = <<>> /\ nreq > 0 /\ rx.ids = {nreq - 1} /\ nreq \in Nat
      /\ rx.head.type \in {"ack", "coord_ack", "result"} /\ frame = NoFrame
  BY <1>1 DEF EmptyRx, LinkInv, LinkOK, TtyInv, Frames
<1>3. /\ rx' = EmptyRx /\ answered' = answered \union {nreq - 1}
      /\ UNCHANGED <<fw, mFdRpmsg, txq, nreq, overdue>>
  BY <1>1, <1>2 DEF ReadAll
<1>4. mainPc \notin Finished /\ mainPc \notin Booting
  BY <1>1, <1>2 DEF TtyInv, Finished, Fresh, BootInv
<1>5. nreq - 1 \notin overdue /\ Pending /\ Pending' /\ ~ Queued'
  BY <1>1, <1>2, <1>3 DEF LinkInv, Pending
<1>6. Asked' = Asked /\ rx'.head.type = "none" /\ frame.type = "none"
  BY <1>2, <1>3 DEF Asked, EmptyRx, NoFrame
<1>7. /\ Behind' = Behind /\ AtSent' = AtSent /\ AtStarted' = AtStarted
      /\ InputPending' = InputPending /\ Drawing' = Drawing
  BY <1>1, <1>2, <1>6 DEF InputPending, Drawing
<1>8. OnePlace'
  BY <1>1, <1>2, <1>6, <1>7 DEF OnePlace
<1>9. TtyInv'
  BY <1>1, <1>2, <1>3, <1>4 DEF TtyInv, Fresh, Booting, Finished
<1>10. LinkInv'
  BY <1>1, <1>2, <1>3, <1>5 DEF LinkInv
<1>11. GuardInv'
  BY <1>1, <1>2, <1>3, <1>4, <1>5, <1>7, FreeKind DEF GuardInv, TimersOK
<1> HIDE DEF Behind, AtTouch, AtSend, AtSent, AtAckRx, AtAck, AtAi, AtStart, AtStarted,
      AtResultRx, AtResult, AtDone, AtLaunch
<1>12. MainInv'
  BY <1>1, <1>7 DEF MainInv, Wiping
<1>13. FingerInv'
  BY <1>1 DEF FingerInv
<1>14. BootInv'
  BY <1>1, <1>4 DEF BootInv
<1>15. OwnerInv'
  BY <1>1, <1>7 DEF OwnerInv
<1>16. OrderInv'
  BY <1>1, <1>3, <1>7 DEF OrderInv
<1>17. DrawingInv'
  BY <1>1, <1>3, <1>7, KeepMirror DEF DrawingInv, Wiping, Clean
<1> QED BY <1>8, <1>9, <1>10, <1>11, <1>12, <1>13, <1>14, <1>15, <1>16, <1>17

\* It stops the timer of the request that was answered.
LEMMA TtyStopSafe ==
  ASSUME Context, TtyStop, ~ Crash("double_free"), ~ Crash("overrun")
  PROVE  SequentialInv'
<1>1. /\ ttyPc \in Stopping /\ node' = Stopped(node, timer3)
      /\ \/ frame.type \in {"coord_ack", "result"} /\ ttyPc' = "flag" /\ frame' = frame
         \/ /\ frame.type \notin {"coord_ack", "result"}
            /\ ttyPc' = "loop" /\ frame' = NoFrame
      /\ UNCHANGED <<mainPc, touchPc, poller, lock, ctlVars, flagVars, defaultInputType,
                     character, script, bufVars, timer1, timer2, timer3, userVars, linkVars,
                     drawnVars, countVars, logVars>>
  BY DEF TtyStop
<1>2. txq = <<>> /\ rx = EmptyRx /\ nreq > 0 /\ nreq \in Nat
  BY <1>1 DEF LinkInv, LinkOK
<1>3. mainPc \notin Finished /\ mainPc \notin Booting
  BY <1>1, <1>2 DEF TtyInv, Finished, Fresh, BootInv
<1>4. Pending /\ ~ Pending' /\ ttyPc' \notin Stopping
  BY <1>1, <1>2 DEF Pending
<1>5. timer3 # NULL =>
        timer3 \in Addr /\ node[timer3].kind = "rpmsg" /\ node[timer3].req + 1 = nreq
  BY <1>3, <1>4 DEF GuardInv, TimersOK
<1>6. /\ \A b \in Addr : b # timer3 =>
           /\ node'[b].st = node[b].st
           /\ node'[b].kind = node[b].kind
           /\ node'[b].req = node[b].req
           /\ \A c \in node[b].older : c # timer3 => c \in node'[b].older
      /\ timer3 \in Addr => node'[timer3].kind = "none" /\ node'[timer3].st = "free"
  BY <1>1, StoppedEffect DEF TimersOK, FreeNode
<1>7. Drawing' <=> Drawing
  <2>1. \A b \in Addr : node[b].kind = "touch" <=> node'[b].kind = "touch"
    BY <1>5, <1>6, NullIsNoAddress
  <2>2. \A b \in Addr : node[b].kind = "touch" => node'[b].st = node[b].st
    BY <1>5, <1>6, NullIsNoAddress
  <2>3. finger' = finger /\ touchPc' = touchPc
    BY <1>1
  <2> QED BY <2>1, <2>2, <2>3 DEF Drawing
<1>8. Asked' = Asked /\ rx.head.type = "none" /\ (frame'.type = frame.type \/ frame'.type = "none")
  BY <1>1, <1>2 DEF Asked, EmptyRx, NoFrame
<1>9. /\ frame'.type = "coord_ack" <=> frame.type = "coord_ack"
      /\ frame'.type = "result" <=> frame.type = "result"
      /\ frame'.type # "ack"
  BY <1>1 DEF NoFrame
<1>10. Behind' = Behind /\ AtSent' = AtSent /\ AtStarted' = AtStarted
  BY <1>1, <1>8, <1>9
<1>11. ~ InputPending'
  BY <1>1, <1>2, <1>8, <1>9 DEF InputPending, Asked
<1>12. OnePlace'
  BY <1>1, <1>7, <1>8, <1>9 DEF OnePlace
<1>13. TtyInv'
  BY <1>1, <1>2, <1>3 DEF TtyInv, Fresh, Booting, Finished
<1>14. LinkInv'
  BY <1>1, <1>2, <1>4 DEF LinkInv
<1>15. GuardInv'
  BY <1>1, <1>4, <1>5, <1>6, NullIsNoAddress DEF GuardInv
<1> HIDE DEF Behind, AtTouch, AtSend, AtSent, AtAckRx, AtAck, AtAi, AtStart, AtStarted,
      AtResultRx, AtResult, AtDone, AtLaunch
<1>16. MainInv'
  BY <1>1, <1>7, <1>10 DEF MainInv, Wiping
<1>17. FingerInv'
  BY <1>1, <1>5, <1>6, NullIsNoAddress DEF FingerInv
<1>18. BootInv'
  BY <1>1, <1>3 DEF BootInv
<1>19. OwnerInv'
  <2>1. \A a \in Addr : a # timer3 => node'[a].kind = node[a].kind /\ node'[a].st = node[a].st
    BY <1>6
  <2>2. timer3 \in Addr =>
          node'[timer3].kind = "none" /\ node[timer3].kind \notin {"touch", "gtk"}
    BY <1>5, <1>6, NullIsNoAddress
  <2>3. /\ timer1 # NULL => node'[timer1].kind = "touch"
        /\ timer2 # NULL /\ touchPc # "letter" => node'[timer2].kind = "gtk"
    BY <1>3, <1>5, <2>1, <2>2 DEF OwnerInv, TimersOK
  <2>4. mainPc = "format" /\ timer2 # NULL => node'[timer2].st = "armed"
    <3>1. mainPc = "format" => Behind /\ ~ Drawing
      BY DEF OnePlace, Behind, AtTouch, AtSend, AtSent, AtAckRx, AtAck, AtAi, AtStart,
             AtStarted, AtResultRx, AtResult, AtDone, AtLaunch
    <3>2. mainPc = "format" => touchPc # "letter"
      BY <3>1 DEF FingerInv, Touching, Drawing
    <3> QED BY <1>3, <1>5, <2>1, <2>2, <3>2 DEF OwnerInv, TimersOK
  <2> QED BY <1>1, <1>7, <1>10, <2>1, <2>2, <2>3, <2>4 DEF OwnerInv
<1>20. OrderInv'
  BY <1>1, <1>10, <1>11 DEF OrderInv
<1>21. DrawingInv'
  BY <1>1, <1>7, <1>10, KeepMirror DEF DrawingInv, Wiping, Clean
<1> QED BY <1>12, <1>13, <1>14, <1>15, <1>16, <1>17, <1>18, <1>19, <1>20, <1>21

\* The user puts the finger down only when nothing is behind the screen.
LEMMA TouchReadSafe == ASSUME Context, TouchRead PROVE SequentialInv'
<1> USE DEF TouchRead
<1>1. ~ finger /\ finger' =>
        /\ mainPc = "top" /\ overdue = {} /\ ~ HasResult /\ ~ Recognising
        /\ \A a \in Addr : node[a].kind = "touch" => node[a].st # "expired"
  BY DEF Careful, MayDraw
<1>2. Asked # "none" => 1 \in DOMAIN txq /\ Asked = txq[1].type
  BY DEF Asked, LinkOK
<1>3. ~ finger /\ finger' => ~ Behind
  BY <1>1, <1>2 DEF HasResult, Recognising
<1>4. OnePlace'
  BY <1>1, <1>3 DEF OnePlace, Drawing, Asked, MainInv, FingerInv, TtyInv, BootInv, Fresh,
        Booting, EmptyRx, NoFrame
<1>5. MainInv'
  BY <1>1, <1>3 DEF MainInv, OnePlace, Wiping, Drawing, Asked, BootInv, Fresh, Booting,
        EmptyRx, NoFrame
<1>6. FingerInv'
  BY <1>1, <1>3 DEF FingerInv, Touching, BootInv, Fresh, Booting
<1>7. BootInv'
  BY <1>1, <1>3 DEF BootInv, Fresh, Booting, FingerInv, Touching, NoFrame
<1>8. TtyInv'
  BY <1>1, <1>3 DEF TtyInv, Fresh, BootInv, Booting, EmptyRx, NoFrame
<1>9. LinkInv'
  BY <1>1, <1>3 DEF LinkInv, Pending
<1>10. OwnerInv'
  BY <1>1, <1>3 DEF OwnerInv, Finished, Drawing, Asked, BootInv, Fresh, Booting, MainInv,
        OnePlace, EmptyRx, NoFrame
<1>11. GuardInv'
  BY <1>1, <1>3 DEF GuardInv, Finished, Pending, InputPending, Asked
<1>12. OrderInv'
  BY <1>1, <1>3 DEF OrderInv, InputPending, Finished, Asked, BootInv, Fresh, Booting,
        MainInv, EmptyRx, NoFrame
<1>13. DrawingInv'
  BY <1>1, <1>3, KeepMirror DEF DrawingInv, Wiping, Drawing, Asked, BootInv, Fresh,
        Booting, MainInv, FingerInv, Touching, OnePlace, NoFrame, EmptyRx, Clean
<1> QED BY <1>4, <1>5, <1>6, <1>7, <1>8, <1>9, <1>10, <1>11, <1>12, <1>13

\* A timer expires.
LEMMA ExpireSafe == ASSUME Context, NEW i \in Addr, Expire(i) PROVE SequentialInv'
<1> USE DEF Expire
<1>1. node[i].st = "armed" /\ i # NULL
  BY NullIsNoAddress DEF Expirable
<1>2. /\ node'[i].st = "expired" /\ \A b \in Addr : b # i => node'[b] = node[b]
      /\ \A b \in Addr : /\ node'[b].kind = node[b].kind /\ node'[b].req = node[b].req
                         /\ node'[b].older = node[b].older
  BY <1>1, ExpiredEffect DEF Expired, TimersOK
<1>3. ~ Fresh
  BY <1>1 DEF Fresh, FreeNode
<1>4. node[i].kind = "touch" => touchPc # "down" /\ ttyPc \notin Stopping
  BY DEF Careful
<1>5. node[i].kind = "rpmsg" => node[i].req \in overdue \/ ttyPc \in Stopping
  BY <1>1 DEF GuardInv
<1>6. ASSUME node[i].kind = "touch", InputPending, mainPc \notin Finished PROVE FALSE
  <2>1. Queued /\ Pending
    BY <1>4, <1>6 DEF InputPending, Pending, Asked, EmptyRx, NoFrame, TtyInv
  <2>2. timer3 \in Addr /\ node[timer3].kind = "rpmsg" /\ node[timer3].req + 1 = nreq
    BY <1>6, <2>1 DEF GuardInv, TimersOK
  <2>3. timer3 \in node[i].older
    BY <1>6, <2>2 DEF OrderInv
  <2>4. node[timer3].st = "armed"
    BY <1>4, <1>6, <2>1, <2>2, FreeKind DEF GuardInv, LinkInv, TimersOK
  <2> QED BY <2>2, <2>3, <2>4 DEF Expirable
<1>7. OnePlace'
  BY <1>1, <1>2, <1>4, <1>5, <1>6 DEF OnePlace, Drawing, Asked, MainInv, FingerInv,
        TtyInv, BootInv, Fresh, Booting, EmptyRx, NoFrame, TimersOK
<1>8. MainInv'
  BY <1>1, <1>2, <1>4, <1>5, <1>6 DEF MainInv, OnePlace, Wiping, Drawing, Asked, BootInv,
        Fresh, Booting, EmptyRx, NoFrame, TimersOK
<1>9. FingerInv'
  BY <1>1, <1>2, <1>4, <1>5, <1>6 DEF FingerInv, Touching, BootInv, Fresh, Booting, TimersOK
<1>10. BootInv'
  BY <1>3 DEF BootInv, Booting
<1>11. TtyInv'
  BY <1>3 DEF TtyInv, Booting
<1>12. LinkInv'
  BY <1>1, <1>2, <1>4, <1>5, <1>6 DEF LinkInv, Pending, TimersOK
<1>13. OwnerInv'
  BY <1>1, <1>2, <1>4, <1>5, <1>6 DEF OwnerInv, Finished, Drawing, Asked, BootInv, Fresh,
        Booting, MainInv, OnePlace, EmptyRx, NoFrame, TimersOK
<1>14. GuardInv'
  BY <1>1, <1>2, <1>4, <1>5, <1>6 DEF GuardInv, Finished, Pending, InputPending, Asked, TimersOK
<1>15. OrderInv'
  BY <1>1, <1>2, <1>4, <1>5, <1>6 DEF OrderInv, InputPending, Finished, Asked, BootInv,
        Fresh, Booting, MainInv, EmptyRx, NoFrame, TimersOK
<1>16. DrawingInv'
  BY <1>1, <1>2, <1>4, KeepMirror DEF DrawingInv, Wiping, Drawing, Asked, BootInv, Fresh,
        Booting, MainInv, FingerInv, Touching, OnePlace, NoFrame, EmptyRx, Clean
<1> QED BY <1>7, <1>8, <1>9, <1>10, <1>11, <1>12, <1>13, <1>14, <1>15, <1>16

\* The timer thread notices an expiry.
LEMMA PollerFireSafe == ASSUME Context, NEW i \in Addr, PollerFire(i) PROVE SequentialInv'
<1> USE DEF PollerFire
<1>1. node[i].st = "expired" /\ i # NULL /\ node[i].kind \in TimerKinds
  BY NullIsNoAddress, KindOfLive DEF TimersOK
<1>2. /\ node'[i].st = "fired" /\ \A b \in Addr : b # i => node'[b] = node[b]
      /\ \A b \in Addr : /\ node'[b].kind = node[b].kind /\ node'[b].req = node[b].req
                         /\ node'[b].older = node[b].older
  BY <1>1, ExpiredEffect DEF Fired, TimersOK
<1>3. node[i].kind = "touch" =>
        /\ i = timer1 /\ Drawing /\ ~ finger /\ touchPc \notin {"up", "down"} \union Touching
        /\ timer2 = NULL /\ ~ Behind
  BY <1>1 DEF OwnerInv, FingerInv, Touching, Drawing, OnePlace
<1>4. node[i].kind = "touch" => ~ Drawing'
  BY <1>1, <1>2, <1>3 DEF Drawing, OwnerInv
<1>5. node[i].kind # "touch" => Drawing' = Drawing
  BY <1>1, <1>2 DEF Drawing
<1>6. node[i].kind = "gtk" => i = timer2 /\ (Behind => mainPc = "launch")
  BY <1>1 DEF OwnerInv, OnePlace, FingerInv, Touching, Drawing
<1>7. /\ node[i].kind = "rpmsg" => /\ overdue' = overdue \union {node[i].req}
                                   /\ \/ node[i].req \in overdue
                                      \/ node[i].req + 1 = nreq /\ ~ Queued
      /\ node[i].kind # "rpmsg" => overdue' = overdue
      /\ UNCHANGED <<nreq, answered, txq, rx>> /\ nreq \in Nat /\ node[i].req \in Nat
  BY <1>1, FreeKind DEF GuardInv, LinkInv, LinkOK, TimersOK
<1>8. OnePlace'
  BY <1>1, <1>2, <1>3, <1>4, <1>5, <1>6, <1>7 DEF OnePlace, Drawing, Asked, MainInv,
        FingerInv, TtyInv, BootInv, Fresh, Booting, EmptyRx, NoFrame, TimerKinds, TimersOK
<1>9. MainInv'
  BY <1>1, <1>2, <1>3, <1>4, <1>5, <1>6, <1>7 DEF MainInv, OnePlace, Wiping, Drawing,
        Asked, BootInv, Fresh, Booting, EmptyRx, NoFrame, TimerKinds, TimersOK
<1>10. FingerInv'
  BY <1>1, <1>2, <1>3, <1>4, <1>5, <1>6, <1>7 DEF FingerInv, Touching, BootInv, Fresh,
        Booting, TimerKinds, TimersOK
<1>11. BootInv'
  BY <1>1, <1>2, <1>3, <1>4, <1>5, <1>6, <1>7 DEF BootInv, Fresh, Booting, FingerInv,
        Touching, NoFrame, TimerKinds, TimersOK
<1>12. TtyInv'
  BY <1>1, <1>2, <1>3, <1>4, <1>5, <1>6, <1>7 DEF TtyInv, Fresh, BootInv, Booting,
        EmptyRx, NoFrame, TimerKinds, TimersOK
<1>13. LinkInv'
  BY <1>1, <1>2, <1>3, <1>4, <1>5, <1>6, <1>7 DEF LinkInv, Pending, TimerKinds, TimersOK
<1>14. OwnerInv'
  BY <1>1, <1>2, <1>3, <1>4, <1>5, <1>6, <1>7 DEF OwnerInv, Finished, Drawing, Asked,
        BootInv, Fresh, Booting, MainInv, OnePlace, EmptyRx, NoFrame, TimerKinds, TimersOK
<1>15. GuardInv'
  BY <1>1, <1>2, <1>3, <1>4, <1>5, <1>6, <1>7 DEF GuardInv, Finished, Pending,
        InputPending, Asked, TimerKinds, TimersOK
<1>16. OrderInv'
  BY <1>1, <1>2, <1>3, <1>4, <1>5, <1>6, <1>7 DEF OrderInv, InputPending, Finished, Asked,
        BootInv, Fresh, Booting, MainInv, EmptyRx, NoFrame, TimerKinds, TimersOK
<1>17. DrawingInv'
  BY <1>1, <1>2, <1>3, <1>4, <1>5, KeepMirror DEF DrawingInv, Wiping, Drawing, Asked,
        BootInv, Fresh, Booting, MainInv, FingerInv, Touching, OnePlace, NoFrame, EmptyRx,
        Clean, TimerKinds
<1> QED BY <1>8, <1>9, <1>10, <1>11, <1>12, <1>13, <1>14, <1>15, <1>16, <1>17

\* The timer of the letter on the screen.
LEMMA MainShowSafe == ASSUME Context, MainShow PROVE SequentialInv'
<1> USE DEF MainShow
<1>1. PICK a \in Alloc(node) : node' = Started(node, a, "gtk", 0) /\ timer2' = a
  OBVIOUS
<1>2. /\ a = NULL => node' = node
      /\ a # NULL => /\ a \in Addr /\ node[a].kind = "none"
                     /\ node'[a].st = "armed" /\ node'[a].kind = "gtk"
      /\ \A b \in Addr : b # a => node'[b] = node[b]
  BY <1>1, AllocEffect, StartedEffect DEF TimersOK, TimerKinds
<1>3. Behind /\ ~ Drawing /\ timer2 = NULL /\ touchPc \notin {"down", "letter"}
  BY DEF OnePlace, OwnerInv, Drawing, FingerInv, Touching
<1>4. OnePlace'
  BY <1>1, <1>2, <1>3 DEF OnePlace, Drawing, Asked, MainInv, FingerInv, TtyInv, BootInv,
        Fresh, Booting, EmptyRx, NoFrame, TimersOK
<1>5. MainInv'
  BY <1>1, <1>2, <1>3 DEF MainInv, OnePlace, Wiping, Drawing, Asked, BootInv, Fresh,
        Booting, EmptyRx, NoFrame, TimersOK
<1>6. FingerInv'
  BY <1>1, <1>2, <1>3 DEF FingerInv, Touching, BootInv, Fresh, Booting, TimersOK
<1>7. BootInv'
  BY <1>1, <1>2, <1>3 DEF BootInv, Fresh, Booting, FingerInv, Touching, NoFrame, TimersOK
<1>8. TtyInv'
  BY <1>1, <1>2, <1>3 DEF TtyInv, Fresh, BootInv, Booting, EmptyRx, NoFrame, TimersOK
<1>9. LinkInv'
  BY <1>1, <1>2, <1>3 DEF LinkInv, Pending, TimersOK
<1>10. OwnerInv'
  BY <1>1, <1>2, <1>3, FreeKind, NullIsNoAddress DEF OwnerInv, Finished, TimersOK
<1>11. GuardInv'
  BY <1>1, <1>2, <1>3 DEF GuardInv, Finished, Pending, InputPending, Asked, TimersOK
<1>12. OrderInv'
  BY <1>1, <1>2, <1>3 DEF OrderInv, InputPending, Finished, Asked, BootInv, Fresh,
        Booting, MainInv, EmptyRx, NoFrame, TimersOK
<1>13. DrawingInv'
  BY <1>1, <1>2, <1>3, KeepMirror DEF DrawingInv, Wiping, Drawing, Asked, BootInv, Fresh,
        Booting, MainInv, FingerInv, Touching, OnePlace, NoFrame, EmptyRx, Clean
<1> QED BY <1>4, <1>5, <1>6, <1>7, <1>8, <1>9, <1>10, <1>11, <1>12, <1>13

\* timer_finalize.
LEMMA MainFinalizeSafe == ASSUME Context, MainFinalize PROVE SequentialInv'
<1> USE DEF MainFinalize
<1>1. \A a \in Addr : node'[a] = FreeNode /\ node'[a].kind = "none" /\ node'[a].st = "free"
  BY DEF Finalized, FreeNode
<1>2. OnePlace'
  BY <1>1 DEF OnePlace, Drawing, Asked, MainInv, FingerInv, TtyInv, BootInv, Fresh,
        Booting, EmptyRx, NoFrame
<1>3. MainInv'
  BY <1>1 DEF MainInv, OnePlace, Wiping, Drawing, Asked, BootInv, Fresh, Booting, EmptyRx,
        NoFrame
<1>4. FingerInv'
  BY <1>1 DEF FingerInv, Touching, BootInv, Fresh, Booting
<1>5. BootInv'
  BY <1>1 DEF BootInv, Fresh, Booting, FingerInv, Touching, NoFrame
<1>6. TtyInv'
  BY <1>1 DEF TtyInv, Fresh, BootInv, Booting, EmptyRx, NoFrame
<1>7. LinkInv'
  BY <1>1 DEF LinkInv, Pending
<1>8. OwnerInv'
  BY <1>1 DEF OwnerInv, Finished, Drawing, Asked, BootInv, Fresh, Booting, MainInv,
        OnePlace, EmptyRx, NoFrame
<1>9. GuardInv'
  BY <1>1 DEF GuardInv, Finished, Pending, InputPending, Asked
<1>10. OrderInv'
  BY <1>1 DEF OrderInv, InputPending, Finished, Asked, BootInv, Fresh, Booting, MainInv,
        EmptyRx, NoFrame
<1>11. DrawingInv'
  BY <1>1, KeepMirror DEF DrawingInv, Wiping, Drawing, Asked, BootInv, Fresh, Booting,
        MainInv, FingerInv, Touching, OnePlace, NoFrame, EmptyRx, Clean
<1> QED BY <1>2, <1>3, <1>4, <1>5, <1>6, <1>7, <1>8, <1>9, <1>10, <1>11

\* The timer thread is cancelled.
LEMMA MainJoinTimerSafe == ASSUME Context, MainJoinTimer, ~ Crash("no_thread") PROVE
      SequentialInv'
<1> USE DEF MainJoinTimer
<1>1. OnePlace'
  BY DEF OnePlace, Drawing, Asked, MainInv, FingerInv, TtyInv, BootInv, Fresh, Booting,
        EmptyRx, NoFrame
<1>2. MainInv'
  BY DEF MainInv, OnePlace, Wiping, Drawing, Asked, BootInv, Fresh, Booting, EmptyRx, NoFrame
<1>3. FingerInv'
  BY DEF FingerInv, Touching, BootInv, Fresh, Booting
<1>4. BootInv'
  BY DEF BootInv, Fresh, Booting, FingerInv, Touching, NoFrame
<1>5. TtyInv'
  BY DEF TtyInv, Fresh, BootInv, Booting, EmptyRx, NoFrame
<1>6. LinkInv'
  BY DEF LinkInv, Pending
<1>7. OwnerInv'
  BY DEF OwnerInv, Finished, Drawing, Asked, BootInv, Fresh, Booting, MainInv, OnePlace,
        EmptyRx, NoFrame
<1>8. GuardInv'
  BY DEF GuardInv, Finished, Pending, InputPending, Asked
<1>9. OrderInv'
  BY DEF OrderInv, InputPending, Finished, Asked, BootInv, Fresh, Booting, MainInv,
        EmptyRx, NoFrame
<1>10. DrawingInv'
  BY KeepMirror DEF DrawingInv, Wiping, Drawing, Asked, BootInv, Fresh, Booting, MainInv,
        FingerInv, Touching, OnePlace, NoFrame, EmptyRx, Clean
<1> QED BY <1>1, <1>2, <1>3, <1>4, <1>5, <1>6, <1>7, <1>8, <1>9, <1>10

\* When main makes a request, none is before it.
LEMMA LinkIsIdle ==
  ASSUME Context, mainPc \in {"send", "start_nn"}
  PROVE  txq = <<>> /\ rx = EmptyRx /\ ttyPc \notin Stopping /\ frame.type # "ack"
<1>1. Asked \notin RequestTypes
  BY DEF OnePlace, OrderInv, InputPending, Finished, RequestTypes
<1>2. rx.head.type \notin {"ack", "coord_ack", "result"}
  BY DEF OnePlace, OrderInv, InputPending, Finished
<1>3. frame.type # "ack"
  BY DEF OnePlace, OrderInv, InputPending, Finished
<1>4. frame.type \notin {"coord_ack", "result"}
  BY DEF OnePlace
<1> QED BY <1>1, <1>2, <1>3, <1>4 DEF LinkInv, Asked, Frames, TtyInv

\* main sends the drawing.
LEMMA MainSendSafe == ASSUME Context, MainSend PROVE SequentialInv'
<1> USE DEF MainSend
<1>1. txq = <<>> /\ rx = EmptyRx /\ ttyPc \notin Stopping /\ frame.type # "ack"
  BY LinkIsIdle
<1>2. WriteRequest("coordinates")
  BY DEF Request
<1>3. /\ nreq' = nreq + 1 /\ nreq \in Nat /\ UNCHANGED <<fw, mFdRpmsg, rx, answered>>
      /\ \/ /\ mFdRpmsg /\ txq' # <<>> /\ txq' = <<txq'[1]>>
            /\ txq'[1] = [type |-> "coordinates", id |-> nreq]
            /\ Asked' = "coordinates" /\ overdue' = overdue
         \/ ~ mFdRpmsg /\ txq' = <<>> /\ Asked' = "none" /\ overdue' = overdue \union {nreq}
  BY <1>1, <1>2, WriteEffect DEF RequestTypes
<1>4. PICK a \in Alloc(node) : node' = Started(node, a, "rpmsg", nreq) /\ timer3' = a
  BY DEF Request
<1>5. /\ a = NULL => node' = node
      /\ a # NULL => /\ a \in Addr /\ node[a].kind = "none" /\ node'[a].st = "armed"
                     /\ node'[a].kind = "rpmsg" /\ node'[a].req = nreq
      /\ \A b \in Addr : b # a => node'[b] = node[b]
  BY <1>3, <1>4, AllocEffect, StartedEffect DEF TimersOK, TimerKinds
<1>6. Drawing' <=> Drawing
  BY <1>5, NullIsNoAddress DEF Drawing
<1>7. EmptyRx.head.type = "none"
  BY DEF EmptyRx, NoFrame
<1>8. OnePlace'
  BY <1>1, <1>3, <1>6, <1>7 DEF OnePlace, Asked
<1>9. MainInv'
  BY <1>1, <1>3, <1>6, <1>7 DEF MainInv, OnePlace, Wiping
<1>10. FingerInv'
  BY <1>1, <1>3, <1>5 DEF FingerInv, Touching, BootInv, Fresh, Booting
<1>11. BootInv'
  BY DEF BootInv, Booting
<1>12. TtyInv'
  BY <1>3 DEF TtyInv
<1>13. LinkInv'
  BY <1>1, <1>3 DEF LinkInv, Pending, LinkOK, RequestTypes
<1>14. OwnerInv'
  BY <1>1, <1>3, <1>4, <1>5, <1>6, <1>7, FreeKind, NullIsNoAddress DEF OwnerInv, Finished,
        TimersOK
<1>15. GuardInv'
  BY <1>1, <1>3, <1>4, <1>5, <1>7, FreeKind, NullIsNoAddress DEF GuardInv, Finished,
        Pending, InputPending, TimersOK, LinkInv, LinkOK
<1>16. OrderInv'
  BY <1>1, <1>3, <1>7 DEF OrderInv, InputPending
<1>17. DrawingInv'
  BY <1>1, <1>3, <1>6, <1>7, KeepMirror DEF DrawingInv, OnePlace, Wiping, Clean
<1> QED BY <1>8, <1>9, <1>10, <1>11, <1>12, <1>13, <1>14, <1>15, <1>16, <1>17

\* main starts the network.
LEMMA MainStartNnSafe == ASSUME Context, MainStartNn PROVE SequentialInv'
<1> USE DEF MainStartNn
<1>1. txq = <<>> /\ rx = EmptyRx /\ ttyPc \notin Stopping /\ frame.type # "ack"
  BY LinkIsIdle
<1>2. WriteRequest("start_nn")
  BY DEF Request
<1>3. /\ nreq' = nreq + 1 /\ nreq \in Nat /\ UNCHANGED <<fw, mFdRpmsg, rx, answered>>
      /\ \/ /\ mFdRpmsg /\ txq' # <<>> /\ txq' = <<txq'[1]>>
            /\ txq'[1] = [type |-> "start_nn", id |-> nreq]
            /\ Asked' = "start_nn" /\ overdue' = overdue
         \/ ~ mFdRpmsg /\ txq' = <<>> /\ Asked' = "none" /\ overdue' = overdue \union {nreq}
  BY <1>1, <1>2, WriteEffect DEF RequestTypes
<1>4. PICK a \in Alloc(node) : node' = Started(node, a, "rpmsg", nreq) /\ timer3' = a
  BY DEF Request
<1>5. /\ a = NULL => node' = node
      /\ a # NULL => /\ a \in Addr /\ node[a].kind = "none" /\ node'[a].st = "armed"
                     /\ node'[a].kind = "rpmsg" /\ node'[a].req = nreq
      /\ \A b \in Addr : b # a => node'[b] = node[b]
  BY <1>3, <1>4, AllocEffect, StartedEffect DEF TimersOK, TimerKinds
<1>6. Drawing' <=> Drawing
  BY <1>5, NullIsNoAddress DEF Drawing
<1>7. EmptyRx.head.type = "none"
  BY DEF EmptyRx, NoFrame
<1>8. OnePlace'
  BY <1>1, <1>3, <1>6, <1>7 DEF OnePlace, Asked
<1>9. MainInv'
  BY <1>1, <1>3, <1>6, <1>7 DEF MainInv, OnePlace, Wiping
<1>10. FingerInv'
  BY <1>1, <1>3, <1>5 DEF FingerInv, Touching, BootInv, Fresh, Booting
<1>11. BootInv'
  BY DEF BootInv, Booting
<1>12. TtyInv'
  BY <1>3 DEF TtyInv
<1>13. LinkInv'
  BY <1>1, <1>3 DEF LinkInv, Pending, LinkOK, RequestTypes
<1>14. OwnerInv'
  BY <1>1, <1>3, <1>4, <1>5, <1>6, <1>7, FreeKind, NullIsNoAddress DEF OwnerInv, Finished,
        TimersOK
<1>15. GuardInv'
  BY <1>1, <1>3, <1>4, <1>5, <1>7, FreeKind, NullIsNoAddress DEF GuardInv, Finished,
        Pending, InputPending, TimersOK, LinkInv, LinkOK
<1>16. OrderInv'
  BY <1>1, <1>3, <1>7 DEF OrderInv, InputPending
<1>17. DrawingInv'
  BY <1>1, <1>3, <1>6, <1>7, KeepMirror DEF DrawingInv, OnePlace, Wiping, Clean
<1> QED BY <1>8, <1>9, <1>10, <1>11, <1>12, <1>13, <1>14, <1>15, <1>16, <1>17

-----------------------------------------------------------------------------
(* The touch thread.  The drawing grows one cell at a time. *)

\* An empty array holds the empty drawing.
LEMMA HoldsNothing == Holds(NoDrawing, << >>)
BY LauncherAssumption DEF Holds, NoDrawing, Filled, Index

\* The next cell is filled.
LEMMA HoldsMore ==
  ASSUME NEW cells \in [Index -> Cells], NEW d \in Seq(Cells), Holds(cells, d),
         Len(d) < Depth, NEW cell \in Cells, Filled(cell)
  PROVE  /\ Holds([cells EXCEPT ![Len(d)] = cell], Append(d, cell))
         /\ Len(Append(d, cell)) = Len(d) + 1
<1> DEFINE e == Append(d, cell)
<1>1. Len(e) = Len(d) + 1 /\ Len(d) \in Nat /\ Len(d) \in Index
  BY LauncherAssumption DEF Index
<1>2. \A i \in 1 .. Len(d) : e[i] = d[i]
  OBVIOUS
<1>3. e[Len(d) + 1] = cell
  OBVIOUS
<1> HIDE DEF e
<1>4. \A i \in Index : i < Len(d) \/ i = Len(d) \/ i > Len(d)
  BY <1>1, LauncherAssumption DEF Index
<1>5. \A i \in Index : i < Len(d) => i + 1 \in 1 .. Len(d)
  BY <1>1, LauncherAssumption DEF Index
<1> DEFINE c == [cells EXCEPT ![Len(d)] = cell]
<1>6. c[Len(d)] = cell /\ \A i \in Index : i # Len(d) => c[i] = cells[i]
  BY <1>1
<1> HIDE DEF c
<1>7. ASSUME NEW i \in Index, i < Len(e)
      PROVE  c[i] = e[i + 1] /\ Filled(e[i + 1])
  <2>1. CASE i = Len(d)
    BY <1>3, <1>6, <2>1
  <2>2. CASE i < Len(d)
    <3>1. c[i] = cells[i] /\ e[i + 1] = d[i + 1]
      BY <1>1, <1>2, <1>5, <1>6, <2>2
    <3>2. cells[i] = d[i + 1] /\ Filled(d[i + 1])
      BY <2>2 DEF Holds
    <3> QED BY <3>1, <3>2
  <2> QED BY <1>1, <1>4, <1>7, <2>1, <2>2
<1>8. \A i \in Index : i >= Len(e) => ~ Filled(c[i])
  BY <1>1, <1>6, LauncherAssumption DEF Holds, Index
<1>9. Len(e) <= Depth
  BY <1>1, LauncherAssumption
<1>10. Holds(c, e)
  BY <1>7, <1>8, <1>9 DEF Holds
<1> QED BY <1>1, <1>10 DEF e, c

\* The line break a drawing begins with.
LEMMA HoldsFirst ==
  Holds([NoDrawing EXCEPT ![0] = "break"], <<"break">>) /\ Len(<<"break">>) = 1
<1> DEFINE d == << >>
<1>1. Append(d, "break") = <<"break">> /\ d \in Seq(Cells) /\ Len(d) = 0 /\ Len(<<"break">>) = 1
  OBVIOUS
<1>2. Holds(NoDrawing, d) /\ "break" \in Cells /\ Filled("break")
  BY HoldsNothing DEF Cells, Filled
<1> HIDE DEF d
<1>3. Len(d) < Depth
  BY <1>1, LauncherAssumption
<1>4. Holds([NoDrawing EXCEPT ![Len(d)] = "break"], Append(d, "break"))
  BY <1>1, <1>2, <1>3, HoldsMore, NoDrawingType
<1> QED BY <1>1, <1>4

\* The next cell is half filled.
LEMMA HoldsSame ==
  ASSUME NEW cells \in [Index -> Cells], NEW d \in Seq(Cells), Holds(cells, d),
         NEW cell, ~ Filled(cell)
  PROVE  Holds([cells EXCEPT ![Len(d)] = cell], d)
BY LauncherAssumption DEF Holds, Index

\* The finger goes down: the timers of the last stroke and letter stop.
LEMMA TouchDownSafe ==
  ASSUME Context, TouchDown, ~ Crash("double_free")
  PROVE  SequentialInv'
<1>1. /\ touchPc = "down" /\ touchPc' = IF timer2 = NULL THEN "break" ELSE "letter"
      /\ node' = Stopped(Stopped(node, timer1), timer2)
      /\ timer1' = NULL
      /\ UNCHANGED <<mainPc, ttyPc, poller, lock, ctlVars, flagVars, defaultInputType,
                     character, script, bufVars, timer2, timer3, frame, userVars, linkVars,
                     drawnVars, countVars, logVars>>
  BY DEF TouchDown
<1>2. /\ finger /\ Drawing /\ ~ Behind /\ mainPc \notin Booting /\ ~ Wiping
      /\ mainPc \notin {"format", "launch"}
  BY <1>1 DEF FingerInv, Touching, Drawing, OnePlace, BootInv, Fresh, MainInv
<1>3. ~ Behind' /\ ~ AtSent' /\ ~ AtStarted' /\ Drawing' /\ ~ Wiping'
  BY <1>1, <1>2 DEF Drawing, Asked, Wiping
<1> DEFINE n == Stopped(node, timer1)
<1>4. /\ n \in [Addr -> Nodes]
      /\ \A b \in Addr : b # timer1 =>
           n[b].st = node[b].st /\ n[b].kind = node[b].kind /\ n[b].req = node[b].req
      /\ timer1 \in Addr => n[timer1].kind = "none"
  BY StoppedEffect DEF TimersOK, FreeNode
<1> HIDE DEF n
<1>5. /\ \A b \in Addr : b # timer2 =>
           node'[b].st = n[b].st /\ node'[b].kind = n[b].kind /\ node'[b].req = n[b].req
      /\ timer2 \in Addr => node'[timer2].kind = "none"
  BY <1>1, <1>4, StoppedEffect DEF n, FreeNode
<1>6. \A b \in Addr : node'[b].kind \notin {"touch", "gtk"}
  <2>1. \A b \in Addr : /\ node[b].kind = "touch" => b = timer1
                        /\ node[b].kind = "gtk" => b = timer2
    BY DEF OwnerInv
  <2> QED BY <2>1, <1>4, <1>5
<1>7. \A b \in Addr : node'[b].kind = "rpmsg" =>
        /\ node[b].kind = "rpmsg" /\ node'[b].req = node[b].req /\ node'[b].st = node[b].st
  BY <1>4, <1>5
<1>8. mainPc \notin Finished /\ timer3 # NULL /\ node[timer3].kind = "rpmsg" =>
        node'[timer3].kind = "rpmsg" /\ node'[timer3].req = node[timer3].req
  <2> SUFFICES ASSUME mainPc \notin Finished, timer3 # NULL, node[timer3].kind = "rpmsg"
               PROVE  node'[timer3].kind = "rpmsg" /\ node'[timer3].req = node[timer3].req
    OBVIOUS
  <2>1. timer3 \in Addr /\ timer3 # timer1 /\ timer3 # timer2
    BY <1>1 DEF OwnerInv, TimersOK
  <2> QED BY <1>4, <1>5, <2>1
<1> HIDE DEF Behind, AtTouch, AtSend, AtSent, AtAckRx, AtAck, AtAi, AtStart, AtStarted,
      AtResultRx, AtResult, AtDone, AtLaunch
<1>9. OnePlace'
  BY <1>1, <1>2, <1>3 DEF OnePlace, Asked, Behind, AtTouch, AtSend, AtSent, AtAckRx,
        AtAck, AtAi, AtStart, AtStarted, AtResultRx, AtResult, AtDone, AtLaunch
<1>10. MainInv'
  BY <1>1, <1>3 DEF MainInv
<1>11. FingerInv'
  BY <1>1, <1>2 DEF FingerInv, Touching
<1>12. BootInv'
  BY <1>1, <1>2 DEF BootInv
<1>13. TtyInv'
  BY <1>1, <1>2 DEF TtyInv, Fresh
<1>14. LinkInv'
  BY <1>1 DEF LinkInv
<1>15. OwnerInv'
  BY <1>1, <1>2, <1>3, <1>6, NullIsNoAddress DEF OwnerInv
<1>16. GuardInv'
  BY <1>1, <1>7, <1>8 DEF GuardInv, Pending, InputPending, Asked, Finished
<1>17. OrderInv'
  BY <1>1, <1>3, <1>6 DEF OrderInv, InputPending, Asked
<1>18. DrawingInv'
  BY <1>1, <1>3, KeepMirror DEF DrawingInv, Wiping, Clean
<1> QED BY <1>9, <1>10, <1>11, <1>12, <1>13, <1>14, <1>15, <1>16, <1>17, <1>18

\* The letter of the last drawing leaves the screen.
LEMMA TouchLetterSafe == ASSUME Context, TouchLetter PROVE SequentialInv'
<1>1. /\ touchPc = "letter" /\ touchPc' = "break" /\ timer2' = NULL
      /\ UNCHANGED <<mainPc, ttyPc, poller, lock, ctlVars, flagVars, defaultInputType,
                     script, bufVars, node, timer1, timer3, frame, userVars, linkVars,
                     drawnVars, countVars, logVars>>
  BY DEF TouchLetter
<1>2. /\ finger /\ Drawing /\ ~ Behind /\ mainPc \notin Booting /\ ~ Wiping
      /\ mainPc \notin {"format", "launch"}
  BY <1>1 DEF FingerInv, Touching, Drawing, OnePlace, BootInv, Fresh, MainInv
<1>3. ~ Behind' /\ ~ AtSent' /\ ~ AtStarted' /\ Drawing' /\ ~ Wiping'
  BY <1>1, <1>2 DEF Drawing, Asked, Wiping
<1>4. \A b \in Addr : node[b].kind # "gtk"
  BY <1>1 DEF OwnerInv
<1> HIDE DEF Behind, AtTouch, AtSend, AtSent, AtAckRx, AtAck, AtAi, AtStart, AtStarted,
      AtResultRx, AtResult, AtDone, AtLaunch
<1>5. OnePlace'
  BY <1>1, <1>2, <1>3 DEF OnePlace, Asked, Behind, AtTouch, AtSend, AtSent, AtAckRx,
        AtAck, AtAi, AtStart, AtStarted, AtResultRx, AtResult, AtDone, AtLaunch
<1>6. MainInv'
  BY <1>1, <1>3 DEF MainInv
<1>7. FingerInv'
  BY <1>1, <1>2 DEF FingerInv, Touching
<1>8. BootInv'
  BY <1>1, <1>2 DEF BootInv
<1>9. TtyInv'
  BY <1>1, <1>2 DEF TtyInv, Fresh
<1>10. LinkInv'
  BY <1>1 DEF LinkInv
<1>11. OwnerInv'
  BY <1>1, <1>2, <1>3, <1>4 DEF OwnerInv
<1>12. GuardInv'
  BY <1>1 DEF GuardInv, Pending, InputPending, Asked, Finished
<1>13. OrderInv'
  BY <1>1, <1>3 DEF OrderInv, InputPending, Asked
<1>14. DrawingInv'
  BY <1>1, <1>3, KeepMirror DEF DrawingInv, Wiping, Clean
<1> QED BY <1>5, <1>6, <1>7, <1>8, <1>9, <1>10, <1>11, <1>12, <1>13, <1>14

\* The line break is written.
LEMMA TouchBreakSafe == ASSUME Context, TouchBreak, ~ Crash("overrun") PROVE SequentialInv'
<1>1. /\ touchPc = "break" /\ touchPc' = "down_next" /\ touch_idx < Depth
      /\ draw_touch_coordinate' = [draw_touch_coordinate EXCEPT ![touch_idx] = "break"]
      /\ idx' = touch_idx
      /\ drawn' = IF paused THEN <<"break">> ELSE Append(drawn, "break")
      /\ paused' = FALSE
      /\ UNCHANGED <<mainPc, ttyPc, poller, lock, ctlVars, flagVars, defaultInputType,
                     character, script, touch_idx, timerVars, frame, userVars, linkVars,
                     countVars, logVars>>
  BY LauncherAssumption DEF TouchBreak, DrawingOK
<1>2. /\ finger /\ Drawing /\ ~ Behind /\ mainPc \notin Booting /\ ~ Wiping
      /\ mainPc \notin {"format", "launch"}
  BY <1>1 DEF FingerInv, Touching, Drawing, OnePlace, BootInv, Fresh, MainInv
<1>3. ~ Behind' /\ ~ AtSent' /\ ~ AtStarted' /\ Drawing' /\ ~ Wiping'
  BY <1>1, <1>2 DEF Drawing, Asked, Wiping
<1>4. Mirror'
  <2>1. touch_idx \in Index /\ draw_touch_coordinate \in [Index -> Cells]
        /\ drawn \in Seq(Cells) /\ "break" \in Cells /\ Filled("break")
    BY <1>1, IndexFacts DEF DrawingOK, Cells, Filled
  <2>2. draw_touch_coordinate'[touch_idx] = "break"
    BY <1>1, <2>1
  <2>3. Holds(draw_touch_coordinate', drawn') /\ Len(drawn') = touch_idx + 1
    <3>1. CASE paused
      <4>1. draw_touch_coordinate = NoDrawing /\ touch_idx = 0
        BY <1>1, <3>1 DEF DrawingInv, Clean
      <4> QED BY <1>1, <3>1, <4>1, HoldsFirst
    <3>2. CASE ~ paused
      <4>1. Holds(draw_touch_coordinate, drawn) /\ Len(drawn) = touch_idx
        BY <1>1, <3>2 DEF DrawingInv, Mirror
      <4> QED BY <1>1, <2>1, <3>2, <4>1, HoldsMore
    <3> QED BY <3>1, <3>2
  <2> QED BY <1>1, <2>1, <2>2, <2>3 DEF Mirror
<1> HIDE DEF Behind, AtTouch, AtSend, AtSent, AtAckRx, AtAck, AtAi, AtStart, AtStarted,
      AtResultRx, AtResult, AtDone, AtLaunch
<1>5. OnePlace'
  BY <1>1, <1>2, <1>3 DEF OnePlace, Asked, Behind, AtTouch, AtSend, AtSent, AtAckRx,
        AtAck, AtAi, AtStart, AtStarted, AtResultRx, AtResult, AtDone, AtLaunch
<1>6. MainInv'
  BY <1>1, <1>3 DEF MainInv
<1>7. FingerInv'
  BY <1>1, <1>2 DEF FingerInv, Touching
<1>8. BootInv'
  BY <1>1, <1>2 DEF BootInv
<1>9. TtyInv'
  BY <1>1, <1>2 DEF TtyInv, Fresh
<1>10. LinkInv'
  BY <1>1 DEF LinkInv
<1>11. OwnerInv'
  BY <1>1, <1>2, <1>3 DEF OwnerInv
<1>12. GuardInv'
  BY <1>1 DEF GuardInv, Pending, InputPending, Asked, Finished
<1>13. OrderInv'
  BY <1>1, <1>3 DEF OrderInv, InputPending, Asked
<1>14. DrawingInv'
  BY <1>1, <1>3, <1>4 DEF DrawingInv, Wiping
<1> QED BY <1>5, <1>6, <1>7, <1>8, <1>9, <1>10, <1>11, <1>12, <1>13, <1>14

\* The line break is entered.
LEMMA TouchDownNextSafe == ASSUME Context, TouchDownNext PROVE SequentialInv'
<1>1. /\ touchPc = "down_next" /\ touchPc' \in {"wait", "ended"}
      /\ \E i \in {idx, touch_idx} : touch_idx' = i + 1
      /\ UNCHANGED <<mainPc, ttyPc, poller, ctlVars, flagVars, defaultInputType, character,
                     script, draw_touch_coordinate, idx, timerVars, frame, userVars,
                     linkVars, drawnVars, countVars, logVars>>
  BY DEF TouchDownNext, NextEvent, IndexRead
<1>2. finger /\ Drawing /\ ~ Behind /\ mainPc \notin Booting /\ ~ Wiping /\ ~ paused /\ Mirror
  BY <1>1 DEF FingerInv, Touching, Drawing, OnePlace, BootInv, Fresh, MainInv, DrawingInv
<1>3. ~ Behind' /\ Drawing' /\ ~ Wiping'
  BY <1>1, <1>2 DEF Drawing, Asked, Wiping
<1>4. Mirror'
  BY <1>1, <1>2 DEF Mirror
<1> HIDE DEF Behind, AtTouch, AtSend, AtSent, AtAckRx, AtAck, AtAi, AtStart, AtStarted,
      AtResultRx, AtResult, AtDone, AtLaunch
<1>5. OnePlace'
  BY <1>1, <1>2, <1>3 DEF OnePlace, Asked, Behind, AtTouch, AtSend, AtSent, AtAckRx,
        AtAck, AtAi, AtStart, AtStarted, AtResultRx, AtResult, AtDone, AtLaunch
<1>6. MainInv'
  BY <1>1, <1>3 DEF MainInv
<1>7. FingerInv'
  BY <1>1, <1>2 DEF FingerInv, Touching
<1>8. BootInv'
  BY <1>1, <1>2 DEF BootInv
<1>9. TtyInv'
  BY <1>1, <1>2 DEF TtyInv, Fresh
<1>10. LinkInv'
  BY <1>1 DEF LinkInv, Pending
<1>11. OwnerInv'
  BY <1>1, <1>2, <1>3 DEF OwnerInv
<1>12. GuardInv'
  BY <1>1 DEF GuardInv, Pending, InputPending, Asked, Finished
<1>13. OrderInv'
  BY <1>1, <1>3 DEF OrderInv, InputPending, Asked
<1>14. DrawingInv'
  BY <1>1, <1>2, <1>3, <1>4 DEF DrawingInv, Wiping, Behind, AtTouch, AtSend, AtSent,
        AtAckRx, AtAck, AtAi, AtStart, AtStarted, AtResultRx, AtResult, AtDone, AtLaunch
<1> QED BY <1>5, <1>6, <1>7, <1>8, <1>9, <1>10, <1>11, <1>12, <1>13, <1>14

\* An axis of the position arrives.
LEMMA TouchMoveSafe == ASSUME Context, TouchMove, ~ Crash("overrun") PROVE SequentialInv'
<1> DEFINE cell == WithAxis(draw_touch_coordinate[touch_idx], touchPc)
<1>1. /\ touchPc \in {"x", "y"} /\ touchPc' = "move_next" /\ touch_idx < Depth
      /\ draw_touch_coordinate' = [draw_touch_coordinate EXCEPT ![touch_idx] = cell]
      /\ idx' = touch_idx
      /\ drawn' = IF Filled(cell) THEN Append(drawn, cell) ELSE drawn
      /\ UNCHANGED <<mainPc, ttyPc, poller, lock, ctlVars, flagVars, defaultInputType,
                     character, script, touch_idx, timerVars, frame, userVars,
                     linkVars, paused, countVars, logVars>>
  BY LauncherAssumption DEF TouchMove, DrawingOK
<1>2. finger /\ Drawing /\ ~ Behind /\ mainPc \notin Booting /\ ~ Wiping /\ ~ paused /\ Mirror
  BY <1>1 DEF FingerInv, Touching, Drawing, OnePlace, BootInv, Fresh, MainInv, DrawingInv
<1>3. ~ Behind' /\ Drawing' /\ ~ Wiping'
  BY <1>1, <1>2 DEF Drawing, Asked, Wiping
<1>4. Mirror'
  <2>1. /\ touch_idx \in Index /\ draw_touch_coordinate \in [Index -> Cells]
        /\ drawn \in Seq(Cells)
    BY <1>1, IndexFacts DEF DrawingOK
  <2>2. cell \in Cells
    BY <1>1, <2>1, WithAxisType
  <2> HIDE DEF cell
  <2>3. Holds(draw_touch_coordinate, drawn) /\ Len(drawn) = touch_idx
    BY <1>1, <1>2 DEF Mirror
  <2>4. draw_touch_coordinate'[touch_idx] = cell
    BY <1>1, <2>1
  <2>5. CASE Filled(cell)
    BY <1>1, <2>1, <2>2, <2>3, <2>4, <2>5, HoldsMore DEF Mirror
  <2>6. CASE ~ Filled(cell)
    BY <1>1, <2>1, <2>2, <2>3, <2>4, <2>6, HoldsSame DEF Mirror
  <2> QED BY <2>5, <2>6
<1> HIDE DEF cell, Behind, AtTouch, AtSend, AtSent, AtAckRx, AtAck, AtAi, AtStart,
      AtStarted, AtResultRx, AtResult, AtDone, AtLaunch
<1>5. OnePlace'
  BY <1>1, <1>2, <1>3 DEF OnePlace, Asked, Behind, AtTouch, AtSend, AtSent, AtAckRx,
        AtAck, AtAi, AtStart, AtStarted, AtResultRx, AtResult, AtDone, AtLaunch
<1>6. MainInv'
  BY <1>1, <1>3 DEF MainInv
<1>7. FingerInv'
  BY <1>1, <1>2 DEF FingerInv, Touching
<1>8. BootInv'
  BY <1>1, <1>2 DEF BootInv
<1>9. TtyInv'
  BY <1>1, <1>2 DEF TtyInv, Fresh
<1>10. LinkInv'
  BY <1>1 DEF LinkInv, Pending
<1>11. OwnerInv'
  BY <1>1, <1>2, <1>3 DEF OwnerInv
<1>12. GuardInv'
  BY <1>1 DEF GuardInv, Pending, InputPending, Asked, Finished
<1>13. OrderInv'
  BY <1>1, <1>3 DEF OrderInv, InputPending, Asked
<1>14. DrawingInv'
  BY <1>1, <1>2, <1>3, <1>4 DEF DrawingInv, Wiping, Behind, AtTouch, AtSend, AtSent,
        AtAckRx, AtAck, AtAi, AtStart, AtStarted, AtResultRx, AtResult, AtDone, AtLaunch
<1> QED BY <1>5, <1>6, <1>7, <1>8, <1>9, <1>10, <1>11, <1>12, <1>13, <1>14

\* The point is entered, or the drawing that fills the array is dropped.
LEMMA TouchMoveNextSafe == ASSUME Context, TouchMoveNext PROVE SequentialInv'
<1>1. /\ touchPc = "move_next" /\ touchPc' \in {"wait", "ended"}
      /\ UNCHANGED <<mainPc, ttyPc, poller, ctlVars, flagVars, defaultInputType, character,
                     script, idx, timerVars, frame, userVars, linkVars, paused, countVars,
                     logVars>>
  BY DEF TouchMoveNext, NextEvent
<1>2. finger /\ Drawing /\ ~ Behind /\ mainPc \notin Booting /\ ~ Wiping /\ ~ paused /\ Mirror
  BY <1>1 DEF FingerInv, Touching, Drawing, OnePlace, BootInv, Fresh, MainInv, DrawingInv
<1>3. ~ Behind' /\ Drawing' /\ ~ Wiping'
  BY <1>1, <1>2 DEF Drawing, Asked, Wiping
<1>4. Mirror'
  <2>1. idx = touch_idx /\ idx \in Index
    BY <1>1, <1>2 DEF Mirror, DrawingOK
  <2>2. \/ /\ ~ Filled(draw_touch_coordinate[idx])
           /\ UNCHANGED <<touch_idx, draw_touch_coordinate, drawn>>
        \/ /\ Filled(draw_touch_coordinate[idx]) /\ touch_idx' = idx + 1
           /\ UNCHANGED <<draw_touch_coordinate, drawn>>
        \/ /\ draw_touch_coordinate' = [NoDrawing EXCEPT ![0] = "break"]
           /\ touch_idx' = 1 /\ drawn' = <<"break">>
    BY <2>1 DEF TouchMoveNext, IndexRead
  <2>3. Holds([NoDrawing EXCEPT ![0] = "break"], <<"break">>) /\ Len(<<"break">>) = 1
    BY HoldsFirst
  <2> QED BY <1>1, <1>2, <2>1, <2>2, <2>3 DEF Mirror
<1> HIDE DEF Behind, AtTouch, AtSend, AtSent, AtAckRx, AtAck, AtAi, AtStart, AtStarted,
      AtResultRx, AtResult, AtDone, AtLaunch
<1>5. OnePlace'
  BY <1>1, <1>2, <1>3 DEF OnePlace, Asked, Behind, AtTouch, AtSend, AtSent, AtAckRx,
        AtAck, AtAi, AtStart, AtStarted, AtResultRx, AtResult, AtDone, AtLaunch
<1>6. MainInv'
  BY <1>1, <1>3 DEF MainInv
<1>7. FingerInv'
  BY <1>1, <1>2 DEF FingerInv, Touching
<1>8. BootInv'
  BY <1>1, <1>2 DEF BootInv
<1>9. TtyInv'
  BY <1>1, <1>2 DEF TtyInv, Fresh
<1>10. LinkInv'
  BY <1>1 DEF LinkInv, Pending
<1>11. OwnerInv'
  BY <1>1, <1>2, <1>3 DEF OwnerInv
<1>12. GuardInv'
  BY <1>1 DEF GuardInv, Pending, InputPending, Asked, Finished
<1>13. OrderInv'
  BY <1>1, <1>3 DEF OrderInv, InputPending, Asked
<1>14. DrawingInv'
  BY <1>1, <1>2, <1>3, <1>4 DEF DrawingInv, Wiping, Behind, AtTouch, AtSend, AtSent,
        AtAckRx, AtAck, AtAi, AtStart, AtStarted, AtResultRx, AtResult, AtDone, AtLaunch
<1> QED BY <1>5, <1>6, <1>7, <1>8, <1>9, <1>10, <1>11, <1>12, <1>13, <1>14

\* The finger leaves the screen: the timer of the pause.
LEMMA TouchUpSafe == ASSUME Context, TouchUp, defaultInputType # 0 PROVE SequentialInv'
<1>1. /\ touchPc = "up" /\ touchPc' \in {"wait", "ended"}
      /\ UNCHANGED <<mainPc, ttyPc, poller, ctlVars, flagVars, character, script, bufVars,
                     timer2, frame, userVars, drawnVars, countVars, logVars,
                     defaultInputType, timer3, linkVars>>
  BY DEF TouchUp, NextEvent
<1>2. PICK a \in Alloc(node) : node' = Started(node, a, "touch", 0) /\ timer1' = a
  BY DEF TouchUp
<1>3. /\ ~ finger /\ Drawing /\ ~ Behind /\ mainPc \notin Booting /\ ~ Wiping
      /\ ~ paused /\ Mirror
  BY <1>1 DEF FingerInv, Drawing, OnePlace, BootInv, Fresh, MainInv, DrawingInv
<1>4. ~ Behind' /\ ~ Wiping' /\ Asked' = Asked /\ Mirror'
  BY <1>1, <1>3, KeepMirror DEF Asked, Wiping
<1>5. timer1 = NULL /\ timer2 = NULL /\ \A b \in Addr : node[b].kind \notin {"touch", "gtk"}
  BY <1>1, <1>3, NullIsNoAddress DEF OwnerInv
<1>6. /\ a = NULL => node' = node
      /\ a # NULL => /\ a \in Addr /\ node[a].kind = "none" /\ node'[a].st = "armed"
                     /\ node'[a].kind = "touch"
                     /\ node'[a].older = {b \in Addr : node[b].kind # "none"}
      /\ \A b \in Addr : b # a => node'[b] = node[b]
  BY <1>2, AllocEffect, StartedEffect DEF TimersOK, TimerKinds
<1> HIDE DEF Behind, AtTouch, AtSend, AtSent, AtAckRx, AtAck, AtAi, AtStart, AtStarted,
      AtResultRx, AtResult, AtDone, AtLaunch
<1>7. OnePlace'
  BY <1>1, <1>3, <1>4 DEF OnePlace, Asked, Behind, AtTouch, AtSend, AtSent, AtAckRx,
        AtAck, AtAi, AtStart, AtStarted, AtResultRx, AtResult, AtDone, AtLaunch
<1>8. MainInv'
  BY <1>1, <1>4 DEF MainInv
<1>9. FingerInv'
  BY <1>1, <1>3 DEF FingerInv, Touching
<1>10. BootInv'
  BY <1>1, <1>3 DEF BootInv
<1>11. TtyInv'
  BY <1>1 DEF TtyInv, Fresh
<1>12. LinkInv'
  BY <1>1 DEF LinkInv, Pending
<1>13. OwnerInv'
  BY <1>1, <1>2, <1>3, <1>4, <1>5, <1>6, NullIsNoAddress DEF OwnerInv
<1>14. GuardInv'
  BY <1>1, <1>6, NullIsNoAddress DEF GuardInv, Pending, InputPending, Asked, Finished, TimersOK
<1>15. OrderInv'
  BY <1>1, <1>3, <1>4, <1>5, <1>6 DEF OrderInv, InputPending
<1>16. DrawingInv'
  BY <1>1, <1>3, <1>4 DEF DrawingInv, Wiping, Behind, AtTouch, AtSend, AtSent, AtAckRx,
        AtAck, AtAi, AtStart, AtStarted, AtResultRx, AtResult, AtDone, AtLaunch
<1> QED BY <1>7, <1>8, <1>9, <1>10, <1>11, <1>12, <1>13, <1>14, <1>15, <1>16

\* The first time, the input type is requested too.
LEMMA FirstTouchUpSafe == ASSUME Context, TouchUp, defaultInputType = 0 PROVE SequentialInv'
<1>1. /\ touchPc = "up" /\ touchPc' \in {"wait", "ended"}
      /\ defaultInputType' = 1 /\ WriteRequest("input_type")
      /\ UNCHANGED <<mainPc, ttyPc, poller, ctlVars, flagVars, character, script, bufVars,
                     timer2, frame, userVars, drawnVars, countVars, logVars>>
  BY DEF TouchUp, NextEvent
<1>2. PICK a \in Alloc(node) : LET n == Started(node, a, "rpmsg", nreq) IN
        /\ timer3' = a
        /\ \E b \in Alloc(n) : node' = Started(n, b, "touch", 0) /\ timer1' = b
  BY DEF TouchUp
<1> DEFINE n == Started(node, a, "rpmsg", nreq)
<1>3. PICK b \in Alloc(n) : node' = Started(n, b, "touch", 0) /\ timer1' = b /\ timer3' = a
  BY <1>2
<1>4. /\ ~ finger /\ Drawing /\ ~ Behind /\ mainPc \notin Booting /\ ~ Wiping
      /\ ~ paused /\ Mirror
  BY <1>1 DEF FingerInv, Drawing, OnePlace, BootInv, Fresh, MainInv, DrawingInv
<1>5. timer1 = NULL /\ timer2 = NULL /\ nreq = 0 /\ txq = <<>> /\ rx = EmptyRx
      /\ overdue = {} /\ answered = {}
  <2>1. timer1 = NULL /\ timer2 = NULL /\ nreq = 0
    BY <1>1, <1>4 DEF OwnerInv, OrderInv
  <2>2. txq # <<>> => txq[1] \in Requests
    BY DEF LinkOK
  <2>3. txq # <<>> => txq[1].id \in Nat
    BY <2>2 DEF Requests
  <2> QED BY <2>1, <2>3 DEF LinkInv, LinkOK
<1>6. \A c \in Addr : node[c].kind = "none"
  BY <1>5, FreeKind, NullIsNoAddress DEF OwnerInv, GuardInv, Pending, TimersOK, TimerKinds
<1>7. /\ n \in [Addr -> Nodes]
      /\ a = NULL => n = node /\ Addr = {}
      /\ a # NULL => /\ a \in Addr /\ n[a].st = "armed" /\ n[a].kind = "rpmsg" /\ n[a].req = 0
      /\ \A c \in Addr : c # a => n[c].kind = "none"
  BY <1>5, <1>6, AllocEffect, StartedEffect DEF TimersOK, TimerKinds
<1> HIDE DEF n
<1>8. /\ b = NULL => node' = n
      /\ b # NULL => /\ b \in Addr /\ n[b].kind = "none" /\ node'[b].st = "armed"
                     /\ node'[b].kind = "touch"
                     /\ node'[b].older = {c \in Addr : n[c].kind # "none"}
      /\ \A c \in Addr : c # b => node'[c] = n[c]
  BY <1>3, <1>7, AllocEffect, StartedEffect DEF TimerKinds
<1>9. /\ \A c \in Addr : node'[c].kind \in {"none", "touch", "rpmsg"}
      /\ \A c \in Addr : node'[c].kind = "touch" => c = b /\ node'[c].st = "armed"
      /\ \A c \in Addr : node'[c].kind = "rpmsg" => c = a /\ node'[c].st = "armed" /\
            node'[c].req = 0
      /\ b # NULL => node'[b].kind = "touch" /\ a \in node'[b].older
      /\ a # NULL => node'[a].kind = "rpmsg" /\ node'[a].req = 0
  BY <1>7, <1>8, NullIsNoAddress
<1>10. /\ nreq' = 1 /\ UNCHANGED <<fw, mFdRpmsg, rx, answered>>
      /\ \/ /\ mFdRpmsg /\ txq' # <<>> /\ txq' = <<txq'[1]>>
            /\ txq'[1] = [type |-> "input_type", id |-> 0]
            /\ Asked' = "input_type" /\ overdue' = overdue
         \/ ~ mFdRpmsg /\ txq' = <<>> /\ Asked' = "none" /\ overdue' = overdue \union {0}
  BY <1>1, <1>5, WriteEffect DEF RequestTypes
<1>11. Asked = "none" /\ rx.head.type = "none"
  BY <1>5 DEF Asked, EmptyRx, NoFrame
<1>12. ~ Behind' /\ ~ Wiping' /\ Mirror'
  BY <1>1, <1>4, <1>10, <1>11, KeepMirror DEF Wiping
<1> HIDE DEF Behind, AtTouch, AtSend, AtSent, AtAckRx, AtAck, AtAi, AtStart, AtStarted,
      AtResultRx, AtResult, AtDone, AtLaunch
<1>13. OnePlace'
  BY <1>1, <1>4, <1>10, <1>11, <1>12 DEF OnePlace, Behind, AtTouch, AtSend, AtSent,
        AtAckRx, AtAck, AtAi, AtStart, AtStarted, AtResultRx, AtResult, AtDone, AtLaunch
<1>14. MainInv'
  BY <1>1, <1>12 DEF MainInv
<1>15. FingerInv'
  BY <1>1, <1>4 DEF FingerInv, Touching
<1>16. BootInv'
  BY <1>1, <1>4 DEF BootInv
<1>17. TtyInv'
  BY <1>1, <1>10 DEF TtyInv, Fresh
<1>18. LinkInv'
  BY <1>1, <1>5, <1>10 DEF LinkInv, Pending, RequestTypes
<1>19. OwnerInv'
  BY <1>1, <1>3, <1>4, <1>5, <1>9, <1>12, NullIsNoAddress DEF OwnerInv
<1>20. GuardInv'
  BY <1>1, <1>3, <1>5, <1>7, <1>9, <1>10 DEF GuardInv, Pending, InputPending, Finished
<1>21. OrderInv'
  BY <1>1, <1>9, <1>10, <1>12, NullIsNoAddress DEF OrderInv
<1>22. DrawingInv'
  BY <1>1, <1>4, <1>12 DEF DrawingInv, Wiping, Behind, AtTouch, AtSend, AtSent, AtAckRx,
        AtAck, AtAi, AtStart, AtStarted, AtResultRx, AtResult, AtDone, AtLaunch
<1> QED BY <1>13, <1>14, <1>15, <1>16, <1>17, <1>18, <1>19, <1>20, <1>21, <1>22

-----------------------------------------------------------------------------
(* The invariant of the specification. *)

\* Before anything is drawn.
LEMMA InitSafe == Init => SequentialInv
<1> SUFFICES ASSUME Init PROVE SequentialInv
  OBVIOUS
<1> USE DEF Init, LinkInit
<1>1. \A a \in Addr : node[a].kind = "none" /\ node[a].st = "free"
  BY DEF FreeNode
<1>2. frame.type = "none" /\ rx.head.type = "none" /\ ~ Pending /\ Asked = "none"
  BY DEF NoFrame, EmptyRx, Pending, Asked
<1>3. ~ Drawing /\ ~ Behind /\ ~ InputPending
  BY <1>1, <1>2 DEF Drawing, InputPending
<1>4. Mirror
  BY HoldsNothing DEF Mirror
<1>5. OnePlace /\ MainInv /\ FingerInv
  BY <1>1, <1>2, <1>3 DEF OnePlace, MainInv, Wiping, FingerInv, Touching
<1>6. BootInv /\ TtyInv
  BY <1>2 DEF BootInv, Fresh, TtyInv
<1>7. LinkInv /\ GuardInv /\ OrderInv
  BY <1>1, <1>2, <1>3 DEF LinkInv, GuardInv, OrderInv
<1>8. OwnerInv /\ DrawingInv
  BY <1>1, <1>2, <1>3, <1>4 DEF OwnerInv, DrawingInv, Wiping
<1> QED BY <1>5, <1>6, <1>7, <1>8

\* Every step of main.
LEMMA MainSafe == ASSUME Context, MainStep PROVE SequentialInv'
<1>1. CASE MainJoinTimer
  BY <1>1, MainJoinTimerSafe, CrashSafe
<1>2. CASE ~ MainJoinTimer
  BY <1>2, BootSafe, LoopSafe, LeaveSafe, MainSendSafe, MainStartNnSafe, MainShowSafe,
     MainFinalizeSafe
  DEF MainStep, BootStep, LoopStep, LeaveStep
<1> QED BY <1>1, <1>2

\* Every event of the touch screen.
LEMMA TouchSafe == ASSUME Context, TouchHandle PROVE SequentialInv'
<1>1. CASE TouchDown \/ TouchBreak \/ TouchMove
  BY <1>1, TouchDownSafe, TouchBreakSafe, TouchMoveSafe, CrashSafe
<1>2. CASE TouchDownNext \/ TouchMoveNext
  BY <1>2, TouchDownNextSafe, TouchMoveNextSafe
<1>3. CASE TouchUp
  BY <1>3, TouchUpSafe, FirstTouchUpSafe
<1>4. CASE TouchSetup \/ TouchLetter
  BY <1>4, TouchLetterSafe, QuietSafe, CrashSafe DEF QuietStep, TouchSetsUp
<1> QED BY <1>1, <1>2, <1>3, <1>4 DEF TouchHandle

\* Every step of the tty's thread.
LEMMA TtyThreadSafe == ASSUME Context, TtyStep PROVE SequentialInv'
<1>1. CASE TtyRead \/ TtyStop
  BY <1>1, TtyReadSafe, TtyStopSafe, CrashSafe
<1>2. CASE ~ TtyRead /\ ~ TtyStop
  BY <1>2, TtyQuietSafe DEF TtyStep, TtyQuietStep
<1> QED BY <1>1, <1>2

\* Every step.
LEMMA NextSafe == ASSUME Context, [Next]_vars PROVE SequentialInv'
BY MainSafe, TouchSafe, TouchReadSafe, TtyThreadSafe, ExpireSafe, PollerFireSafe, QuietSafe,
   FirmwareSafe, StutterSafe
DEF Next, MainThread, TouchThread, User, TtyThread, Clock, TimerThread, PollerStep, Kill,
    Coprocessor, Gone, QuietStep

\* One drawing at a time is somewhere between the screen and the launch, one
\* request is with the coprocessor, every timer has its owner and its handle,
\* and the array holds what the user drew.
THEOREM SequentialCorrect ==
  ASSUME Careful PROVE Spec => []SequentialInv
<1>1. Init => SequentialInv
  BY InitSafe
<1>2. TypeOK /\ SequentialInv /\ [Next]_vars => SequentialInv'
  BY NextSafe
<1> HIDE DEF TypeOK, SequentialInv
<1> QED BY <1>1, <1>2, TypeCorrect, PTL DEF Spec

-----------------------------------------------------------------------------
(* What main sends. *)

\* The loops over the drawing stop where it ends.
LEMMA FrameLengthOfDrawing ==
  ASSUME DrawingOK, Holds(draw_touch_coordinate, drawn)
  PROVE  FrameLength = Len(drawn)
<1> DEFINE Ends(n) == /\ \A i \in 0 .. n - 1 : Filled(draw_touch_coordinate[i])
                      /\ n < Depth => ~ Filled(draw_touch_coordinate[n])
<1>1. Len(drawn) \in 0 .. Depth
  BY LauncherAssumption DEF DrawingOK, Holds
<1>2. \A i \in Index : Filled(draw_touch_coordinate[i]) <=> i < Len(drawn)
  BY <1>1, LauncherAssumption DEF DrawingOK, Holds, Index
<1>3. Ends(Len(drawn))
  BY <1>1, <1>2, LauncherAssumption DEF Index
<1>4. ASSUME NEW n \in 0 .. Depth, Ends(n) PROVE n = Len(drawn)
  <2>1. CASE n < Len(drawn)
    BY <1>1, <1>2, <1>4, <2>1, LauncherAssumption DEF Index
  <2>2. CASE n > Len(drawn)
    BY <1>1, <1>2, <1>4, <2>2, LauncherAssumption DEF Index
  <2> QED BY <1>1, <2>1, <2>2, LauncherAssumption
<1> HIDE DEF Ends
<1>5. (CHOOSE n \in 0 .. Depth : Ends(n)) = Len(drawn)
  BY <1>1, <1>3, <1>4
<1> QED BY <1>5 DEF FrameLength, Ends

\* Half the length byte: never more than the cells there are.
LEMMA LengthByte ==
  ASSUME NEW n \in Nat
  PROVE  /\ ((2 * n) % LenRange) \div 2 \in 0 .. n
         /\ 2 * n < LenRange => ((2 * n) % LenRange) \div 2 = n
<1> DEFINE r == (2 * n) % LenRange
<1>1. LenRange \in Nat /\ LenRange > 0
  BY LauncherAssumption
<1>2. r \in 0 .. LenRange - 1
  BY <1>1
<1>3. 2 * n < LenRange => r = 2 * n
  BY <1>1
<1>4. r <= 2 * n
  BY <1>1, <1>2, <1>3
<1> HIDE DEF r
<1>5. r \in Nat /\ r \div 2 \in 0 .. n /\ (r = 2 * n => r \div 2 = n)
  BY <1>1, <1>2, <1>4
<1> QED BY <1>3, <1>5 DEF r

\* What main sends is what the user drew: no cell of an earlier drawing, none
\* that main had wiped or not yet wiped, whatever the threads' order.
THEOREM FrameOfTheDrawing ==
  ASSUME Careful PROVE Spec => []FrameIsDrawing
<1>1. TypeOK /\ SequentialInv => FrameIsDrawing
  <2> SUFFICES ASSUME TypeOK, SequentialInv, mainPc = "send"
               PROVE  SentCells = SubSeq(drawn, 1, ((2 * Len(drawn)) % LenRange) \div 2)
    BY DEF FrameIsDrawing
  <2> DEFINE m == ((2 * Len(drawn)) % LenRange) \div 2
  <2>1. Mirror
    BY DEF DrawingInv, OnePlace
  <2>2. FrameLength = Len(drawn)
    BY <2>1, FrameLengthOfDrawing DEF Mirror
  <2>3. drawn \in Seq(Cells) /\ Len(drawn) \in Nat /\ Len(drawn) <= Depth
    BY <2>1 DEF DrawingOK, Mirror, Holds
  <2>4. m \in 0 .. Len(drawn)
    BY <2>3, LengthByte
  <2>5. SentCells = [i \in 1 .. m |-> draw_touch_coordinate[i - 1]]
    BY <2>2 DEF SentCells
  <2> HIDE DEF m
  <2>6. \A i \in 1 .. m : draw_touch_coordinate[i - 1] = drawn[i]
    <3> SUFFICES ASSUME NEW i \in 1 .. m PROVE draw_touch_coordinate[i - 1] = drawn[i]
      OBVIOUS
    <3>1. i - 1 \in Index /\ i - 1 < Len(drawn) /\ (i - 1) + 1 = i
      BY <2>3, <2>4, LauncherAssumption DEF Index
    <3> QED BY <2>1, <3>1 DEF Mirror, Holds
  <2>7. SubSeq(drawn, 1, m) = [i \in 1 .. m |-> drawn[i]]
    BY <2>3, <2>4
  <2> QED BY <2>5, <2>6, <2>7 DEF m
<1> HIDE DEF TypeOK, SequentialInv
<1> QED BY <1>1, TypeCorrect, SequentialCorrect, PTL

\* A drawing whose length fits the byte is sent whole.
THEOREM WholeFrame ==
  ASSUME Careful
  PROVE  Spec => [](mainPc = "send" /\ 2 * Len(drawn) < LenRange => SentCells = drawn)
<1>1. TypeOK /\ FrameIsDrawing /\ mainPc = "send" /\ 2 * Len(drawn) < LenRange =>
        SentCells = drawn
  <2> SUFFICES ASSUME DrawingOK, FrameIsDrawing, mainPc = "send", 2 * Len(drawn) < LenRange
               PROVE  SentCells = drawn
    OBVIOUS
  <2>1. drawn \in Seq(Cells) /\ Len(drawn) \in Nat
    BY DEF DrawingOK
  <2>2. SentCells = SubSeq(drawn, 1, Len(drawn))
    BY <2>1, LengthByte DEF FrameIsDrawing
  <2> QED BY <2>1, <2>2
<1> HIDE DEF TypeOK
<1> QED BY <1>1, TypeCorrect, FrameOfTheDrawing, PTL

-----------------------------------------------------------------------------
(* The timers. *)

\* A step that ends in a double free is a finger put down after timer_finalize.
LEMMA DoubleFreeNext ==
  ASSUME Context, NoDoubleFree, [Next]_vars
  PROVE  NoDoubleFree'
<1>1. CASE status # "running"
  BY <1>1 DEF NoDoubleFree, Next, MainThread, TouchThread, User, TtyThread, Clock,
     TimerThread, Kill, Coprocessor, Gone, Running, vars
<1>2. CASE status = "running" /\ TouchThread
  <2>1. CASE TouchDown
    <3>1. timer1 # NULL /\ mainPc \notin Finished =>
            timer1 \in Addr /\ node[timer1].st # "free"
      BY FreeKind DEF OwnerInv, TimersOK
    <3>2. timer2 # NULL /\ mainPc \notin Finished =>
            timer2 \in Addr /\ timer2 # timer1 /\ node[timer2].st # "free"
      BY <2>1, FreeKind DEF OwnerInv, TimersOK, TouchDown
    <3>3. timer2 \in Addr /\ timer2 # timer1 =>
            Stopped(node, timer1)[timer2].st = node[timer2].st
      BY StoppedEffect DEF TimersOK
    <3>4. mainPc \notin Finished =>
            ~ StaleHandle(node, timer1) /\ ~ StaleHandle(Stopped(node, timer1), timer2)
      BY <3>1, <3>2, <3>3 DEF StaleHandle
    <3>5. mainPc # "returned"
      BY <1>2 DEF MainInv
    <3> QED BY <1>2, <2>1, <3>4, <3>5 DEF TouchDown, Crash, NoDoubleFree, Finished
  <2>2. CASE ~ TouchDown
    BY <1>2, <2>2 DEF TouchThread, TouchHandle, TouchSetup, TouchLetter, TouchBreak,
       TouchDownNext, TouchMove, TouchMoveNext, TouchUp, Crash, NoDoubleFree
  <2> QED BY <2>1, <2>2
<1>3. CASE status = "running" /\ TtyThread
  <2>1. CASE TtyStop
    <3>1. ttyPc \in Stopping /\ mainPc \notin Finished
      BY <2>1 DEF TtyStop, LinkInv, TtyInv, Finished, Fresh
    <3>2. timer3 # NULL => timer3 \in Addr /\ node[timer3].kind = "rpmsg"
      BY <3>1 DEF GuardInv, Pending, TimersOK
    <3>3. ~ StaleHandle(node, timer3)
      BY <3>2, FreeKind DEF StaleHandle, TimersOK
    <3> QED BY <1>3, <2>1, <3>3 DEF TtyStop, Crash, NoDoubleFree
  <2>2. CASE ~ TtyStop
    BY <1>3, <2>2 DEF TtyThread, TtyStep, TtyOpen, TtyClose, TtyRead, TtyCoordAck,
       TtyResult, NoDoubleFree
  <2> QED BY <2>1, <2>2
<1>4. CASE status = "running" /\ ~ TouchThread /\ ~ TtyThread
  <2>1. status' # "double_free"
    BY <1>4 DEF Next, MainThread, User, Clock, TimerThread, Kill, Coprocessor, Gone, Running,
       vars, MainStep, MainCheckFw, MainLoadFw, MainSpawnTty, MainReset, MainSpawnTouch,
       MainClear, MainTimerInit, MainPoll, MainTouchClear, MainSend, MainAiClear,
       MainStartNn, MainWipe, MainRewind, MainDoneClear, MainShow, MainFormat, MainLaunch,
       RunScript, IntHandler, MainJoinTty, MainFinalize, MainJoinTimer, Crash, MainEnd,
       TouchRead, Expire, PollerStep, PollerFire, PollerTouch, PollerGtk, PollerRpmsg,
       Signal, FirmwareStep
  <2> QED BY <2>1 DEF NoDoubleFree
<1> QED BY <1>1, <1>2, <1>3, <1>4

\* No node is freed twice, as long as one drawing is made at a time and no
\* answer is late: the handles main, the touch thread and the ttyRPMSG thread
\* stop are those of timers still in the list.
THEOREM FreedOnce ==
  ASSUME Careful PROVE Spec => []NoDoubleFree
<1>1. Init => NoDoubleFree
  BY DEF Init, NoDoubleFree
<1>2. TypeOK /\ SequentialInv /\ NoDoubleFree /\ [Next]_vars => NoDoubleFree'
  BY DoubleFreeNext
<1> HIDE DEF TypeOK, SequentialInv
<1> QED BY <1>1, <1>2, TypeCorrect, SequentialCorrect, PTL DEF Spec

\* Every timer in the list can still be stopped by whoever armed it, while no
\* request has been lost.
THEOREM TimersInReach ==
  ASSUME Careful PROVE Spec => []NoOrphanTimer
<1>1. TypeOK /\ SequentialInv => NoOrphanTimer
  <2> SUFFICES ASSUME TypeOK, SequentialInv, overdue = {}, NEW a \in Addr, node[a].st # "free"
               PROVE  a \in {timer1, timer2, timer3}
    BY DEF NoOrphanTimer, Live
  <2>1. node[a].kind \in TimerKinds
    BY KindOfLive DEF TimersOK
  <2> QED BY <2>1 DEF TimerKinds, OwnerInv, GuardInv
<1> HIDE DEF TypeOK, SequentialInv
<1> QED BY <1>1, TypeCorrect, SequentialCorrect, PTL

\* Whatever the timer thread does between the read of an answer and timer_stop,
\* timer3 names the timer of the request that was answered, and once it is
\* stopped rpmsg_timeout_callback is not called for that request.
THEOREM TimeoutIsStopped ==
  ASSUME Careful PROVE Spec => AnswerStopsTimeout
<1>1. SequentialInv =>
        [\A a \in Addr : node[a].st = "expired" /\ node[a].kind = "rpmsg"
                           /\ node'[a].st = "fired" =>
           node[a].req \notin answered \/ ttyPc \in Stopping]_vars
  BY DEF GuardInv
<1> HIDE DEF SequentialInv
<1> QED BY <1>1, SequentialCorrect, PTL DEF AnswerStopsTimeout

=============================================================================
