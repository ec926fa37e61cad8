---------------------------- MODULE SplashProofs ----------------------------
(***************************************************************************)
(* What holds of the splash for any number of scripts and signals, by one  *)
(* inductive invariant, SplashInv.                                         *)
(***************************************************************************)
EXTENDS Splash, TLAPS

\* While psplash-drm may open its FIFO, something is there to be opened.
HasPath ==
  pc \in {"open", "modeset", "frame", "draw", "select", "drop", "reopen", "cleanup", "close",
          "unlink"} => path # "none"

\* There is no screen before modeset_prepare and after modeset_cleanup, and no
\* pipe before open() and after the last close().
Released ==
  /\ pc \in {"off", "remove", "mkfifo", "open", "modeset", "close", "unlink", "exited"}
       => ~ modeset_list
  /\ pc \in {"off", "remove", "mkfifo", "open", "unlink", "exited"} => pipe_fd = "closed"
  /\ pc = "exited" => path # "fifo" \/ ret = NotOpened

\* What is in the FIFO was written since it was made, and only a signal closes
\* the pipe of a splash that may still read it.
Told ==
  /\ lines > 0 => quits > 0 \/ pc \in {"off", "remove", "failed", "killed"}
  /\ pc \in {"modeset", "frame", "draw", "select"} => pipe_fd # "closed" \/ caught # {}
  /\ pc \in {"cleanup", "close", "unlink", "exited"} /\ ret = 0 => quits > 0 \/ caught # {}

SplashInv == TypeOK /\ HasPath /\ Released /\ Told

\* A script moved by another process stays a script.
LEMMA ScriptsMove ==
  ASSUME TypeOK
  PROVE  /\ Orphaned \in [Scripts -> ScriptPlaces]
         /\ Woken \in [Scripts -> ScriptPlaces]
<1>1. ASSUME NEW s \in Scripts
      PROVE  /\ (CASE script[s] = "blocked" -> "stuck"
                   [] script[s] = "file"    -> "gone"
                   [] OTHER                 -> script[s]) \in ScriptPlaces
             /\ (IF script[s] = "blocked" THEN "pipe" ELSE script[s]) \in ScriptPlaces
  BY DEF TypeOK, ScriptPlaces
<1> QED BY <1>1 DEF Orphaned, Woken

LEMMA SplashInvInit == Init => SplashInv
<1> SUFFICES ASSUME Init PROVE SplashInv
  OBVIOUS
<1>1. TypeOK BY SplashAssumption DEF Init, TypeOK, Places, ScriptPlaces, NoPipe, NotOpened
<1>2. HasPath /\ Released /\ Told BY DEF Init, HasPath, Released, Told
<1> QED BY <1>1, <1>2 DEF SplashInv

LEMMA SplashInvNext == SplashInv /\ [Next]_vars => SplashInv'
<1> SUFFICES ASSUME SplashInv, [Next]_vars PROVE SplashInv'
  OBVIOUS
<1> USE DEF SplashInv, TypeOK, Places, HasPath, Released, Told, fifoVars, NoPipe, NotOpened
<1>1. CASE Psplash
  <2>1. CASE Start BY <2>1 DEF Start
  <2>2. CASE Remove
    <3>1. script' \in [Scripts -> ScriptPlaces] BY <2>2, ScriptsMove DEF Remove
    <3>2. TypeOK' BY <2>2, <3>1 DEF Remove
    <3>3. HasPath' BY <2>2 DEF Remove
    <3>4. Released' BY <2>2 DEF Remove
    <3>5. Told' BY <2>2 DEF Remove
    <3> QED BY <3>2, <3>3, <3>4, <3>5
  <2>3. CASE Mkfifo
    <3>1. CASE pc' = "open" /\ UNCHANGED ret BY <2>3, <3>1 DEF Mkfifo
    <3>2. CASE pc' = "exited" /\ ret' = NoPipe /\ UNCHANGED path /\ path = "none"
      <4>1. TypeOK' BY <2>3, <3>2 DEF Mkfifo
      <4>2. HasPath' /\ Released' /\ Told' BY <2>3, <3>2 DEF Mkfifo
      <4> QED BY <4>1, <4>2
    <3> QED BY <2>3, <3>1, <3>2 DEF Mkfifo
  <2>4. CASE Open
    <3>1. script' \in [Scripts -> ScriptPlaces] BY <2>4, ScriptsMove DEF Open
    <3>2. pipe_fd' = path /\ path \in {"fifo", "file"} BY <2>4 DEF Open
    <3>3. hup' = FALSE BY <2>4 DEF Open
    <3>4. pc' \in {"modeset", "select"} BY <2>4 DEF Open
    <3>5. pipe_fd' \in {"fifo", "file"} /\ hup' \in BOOLEAN /\ pc' \in {"modeset", "select"}
      BY <3>2, <3>3, <3>4
    <3>6. UNCHANGED <<ret, mode, modeset_list, path, lines, quits, caught>> BY <2>4 DEF Open
    <3>7. TypeOK' BY <3>1, <3>5, <3>6
    <3>8. HasPath' BY <2>4 DEF Open
    <3>9. Released' BY <2>4 DEF Open
    <3>10. Told' BY <2>4 DEF Open
    <3> QED BY <3>7, <3>8, <3>9, <3>10
  <2>5. CASE OpenFails
    <3>1. TypeOK' BY <2>5 DEF OpenFails
    <3>2. HasPath' BY <2>5 DEF OpenFails
    <3>3. Released' BY <2>5 DEF OpenFails
    <3>4. Told' BY <2>5 DEF OpenFails
    <3> QED BY <3>1, <3>2, <3>3, <3>4
  <2>6. CASE Modeset
    <3>1. modeset_list' \in BOOLEAN BY <2>6, SplashAssumption DEF Modeset
    <3>2. CASE ret' = 1 /\ pc' = "close" /\ UNCHANGED modeset_list BY <2>6, <3>2 DEF Modeset
    <3>3. CASE pc' \in {"frame", "draw"} /\ UNCHANGED ret BY <2>6, <3>1, <3>3 DEF Modeset
    <3>4. \/ ret' = 1 /\ pc' = "close" /\ UNCHANGED modeset_list
          \/ pc' \in {"frame", "draw"} /\ UNCHANGED ret
      BY <2>6 DEF Modeset
    <3> QED BY <3>2, <3>3, <3>4
  <2>7. CASE Frame BY <2>7 DEF Frame
  <2>8. CASE Draw BY <2>8 DEF Draw
  <2>9. CASE SelectNothing BY <2>9 DEF SelectNothing
  <2>10. CASE Read BY <2>10 DEF Read
  <2>11. CASE Drop
    <3>1. TypeOK' BY <2>11 DEF Drop, ClosePipe
    <3>2. HasPath' BY <2>11 DEF Drop, ClosePipe
    <3>3. Released' BY <2>11 DEF Drop, ClosePipe
    <3>4. Told' BY <2>11 DEF Drop, ClosePipe
    <3> QED BY <3>1, <3>2, <3>3, <3>4
  <2>12. CASE Cleanup
    <3>1. modeset_list' = FALSE /\ pc' = "close"
          /\ UNCHANGED <<ret, mode, fifoVars, script, quits, caught>>
      BY <2>12 DEF Cleanup
    <3>2. ret' \in {0, 1, NotOpened, NoPipe} /\ pc' \in Places BY <3>1
    <3>3. UNCHANGED <<ret, mode, pipe_fd, path, lines, hup, script, quits, caught>> BY <3>1
    <3>4. modeset_list' \in BOOLEAN BY <3>1
    <3> HIDE DEF Places, NoPipe, NotOpened
    <3>5. TypeOK' BY <3>2, <3>3, <3>4
    <3>6. HasPath' /\ Released' /\ Told' BY <2>12 DEF Cleanup
    <3> QED BY <3>5, <3>6
  <2>13. CASE Close
    <3>1. TypeOK' BY <2>13 DEF Close, ClosePipe
    <3>2. HasPath' BY <2>13 DEF Close, ClosePipe
    <3>3. Released' BY <2>13 DEF Close, ClosePipe
    <3>4. Told' BY <2>13 DEF Close, ClosePipe
    <3> QED BY <3>1, <3>2, <3>3, <3>4
  <2>14. CASE Unlink
    <3>1. script' \in [Scripts -> ScriptPlaces] BY <2>14, ScriptsMove DEF Unlink
    <3>2. TypeOK' BY <2>14, <3>1 DEF Unlink
    <3>3. HasPath' BY <2>14 DEF Unlink
    <3>4. Released' BY <2>14 DEF Unlink
    <3>5. Told' BY <2>14 DEF Unlink
    <3> QED BY <3>2, <3>3, <3>4, <3>5
  <2> QED BY <1>1, <2>1, <2>2, <2>3, <2>4, <2>5, <2>6, <2>7, <2>8, <2>9, <2>10, <2>11, <2>12,
             <2>13, <2>14 DEF Psplash
<1>2. CASE Signal
  <2>1. caught' \subseteq Places /\ modeset_list' = FALSE BY <1>2 DEF Signal
  <2>2. pipe_fd' \in {"lost", "closed"} BY <1>2 DEF Signal, ClosePipe
  <2>3. hup' \in BOOLEAN BY <1>2 DEF Signal, ClosePipe
  <2>4. lines' \in Nat BY <1>2 DEF Signal, ClosePipe
  <2>5. /\ pipe_fd' \in {"lost", "closed"} /\ hup' \in BOOLEAN /\ lines' \in Nat
        /\ caught' \subseteq Places /\ modeset_list' = FALSE
    BY <2>1, <2>2, <2>3, <2>4
  <2>6. pc' \in Places /\ UNCHANGED <<ret, mode, path, script, quits>> BY <1>2 DEF Signal
  <2>7. TypeOK' BY <2>5, <2>6
  <2>8. HasPath' BY <1>2 DEF Signal, ClosePipe, Alive, Ended
  <2>9. Released' BY <1>2 DEF Signal, ClosePipe, Alive, Ended
  <2>10. Told' BY <1>2 DEF Signal, ClosePipe, Alive, Ended
  <2> QED BY <2>7, <2>8, <2>9, <2>10
<1>3. CASE \E s \in Scripts : Pidof(s) \/ Script(s)
  <2> PICK s \in Scripts : Pidof(s) \/ Script(s)
    BY <1>3
  <2>1. CASE Pidof(s)
    <3>1. script' \in [Scripts -> ScriptPlaces] BY <2>1 DEF Pidof, Goes, ScriptPlaces
    <3>2. TypeOK' BY <2>1, <3>1 DEF Pidof
    <3>3. HasPath' BY <2>1 DEF Pidof
    <3>4. Released' BY <2>1 DEF Pidof
    <3>5. Told' BY <2>1 DEF Pidof
    <3> QED BY <3>2, <3>3, <3>4, <3>5
  <2>2. CASE OpenPath(s)
    <3>1. script' \in [Scripts -> ScriptPlaces] BY <2>2 DEF OpenPath, Goes, ScriptPlaces
    <3>2. TypeOK' BY <2>2, <3>1 DEF OpenPath
    <3>3. HasPath' BY <2>2 DEF OpenPath
    <3>4. Released' BY <2>2 DEF OpenPath
    <3>5. Told' BY <2>2 DEF OpenPath
    <3> QED BY <3>2, <3>3, <3>4, <3>5
  <2>3. CASE Echo(s)
    <3>1. script' \in [Scripts -> ScriptPlaces] BY <2>3 DEF Echo, Goes, ScriptPlaces
    <3>2. TypeOK' BY <2>3, <3>1 DEF Echo
    <3>3. HasPath' BY <2>3 DEF Echo
    <3>4. Released' BY <2>3 DEF Echo
    <3>5. Told' BY <2>3 DEF Echo
    <3> QED BY <3>2, <3>3, <3>4, <3>5
  <2>4. CASE CloseWriter(s)
    <3>1. script' \in [Scripts -> ScriptPlaces] BY <2>4 DEF CloseWriter, Goes, ScriptPlaces
    <3>2. TypeOK' BY <2>4, <3>1 DEF CloseWriter
    <3>3. HasPath' BY <2>4 DEF CloseWriter
    <3>4. Released' BY <2>4 DEF CloseWriter
    <3>5. Told' BY <2>4 DEF CloseWriter
    <3> QED BY <3>2, <3>3, <3>4, <3>5
  <2>5. CASE Kill(s)
    <3>1. script' \in [Scripts -> ScriptPlaces] BY <2>5 DEF Kill, Goes, ScriptPlaces
    <3>2. CASE Alive /\ s \in Root
      <4>1. lines' \in {0, lines} BY <2>5, <3>2 DEF Kill, ClosePipe
      <4>2. /\ pc' = "killed" /\ ~ modeset_list' /\ pipe_fd' = "closed" /\ ~ hup'
            /\ UNCHANGED <<ret, mode, path, quits, caught>>
            /\ modeset_list' \in BOOLEAN /\ hup' \in BOOLEAN
        BY <2>5, <3>2 DEF Kill, ClosePipe
      <4> QED BY <3>1, <4>1, <4>2
    <3>3. CASE ~ (Alive /\ s \in Root) BY <2>5, <3>1, <3>3 DEF Kill
    <3> QED BY <3>2, <3>3
  <2> QED BY <2>1, <2>2, <2>3, <2>4, <2>5 DEF Script
<1>4. CASE UNCHANGED vars BY <1>4 DEF vars
<1> QED BY <1>1, <1>2, <1>3, <1>4 DEF Next

LEMMA SplashInvHolds == Spec => []SplashInv
BY SplashInvInit, SplashInvNext, PTL DEF Spec

\* Type correctness: every descriptor is that of a FIFO or a file that is there.
THEOREM SplashTypeCorrect == Spec => []TypeOK
<1>1. SplashInv => TypeOK
  BY DEF SplashInv
<1> QED BY <1>1, SplashInvHolds, PTL

\* The splash keeps the screen until a QUIT or a signal.
THEOREM SplashStays == Spec => []StaysUntilQuit
<1>1. SplashInv => StaysUntilQuit
  BY DEF SplashInv, Told, StaysUntilQuit
<1> QED BY <1>1, SplashInvHolds, PTL

\* A splash that exits by itself leaves no screen, and no FIFO unless it could
\* not open it.
THEOREM SplashLeavesNothing == Spec => []LeavesNothing
<1>1. SplashInv => LeavesNothing
  BY DEF SplashInv, Released, LeavesNothing
<1> QED BY <1>1, SplashInvHolds, PTL
=============================================================================
