------------------------------- MODULE Splash -------------------------------
(***************************************************************************)
(* The boot splash: psplash-drm draws a picture or an animation and waits  *)
(* for QUIT on /tmp/splash_fifo; psplash-drm-quit, which the weston        *)
(* session and the splash's own unit run, writes it.  A step is one system *)
(* call that the other processes, or a signal handler, can tell from the   *)
(* next.                                                                   *)
(***************************************************************************)
EXTENDS Naturals, FiniteSets

CONSTANTS Scripts,    \* the runs of psplash-drm-quit
          Root,       \* those that may kill the splash: root's, not weston's
          NoScreen,   \* may modeset_prepare find no usable connector?
          FifoFails,  \* may mkfifo() and open() fail?
          MaxSignals  \* bound: the number of SIGHUP, SIGINT and SIGQUIT, at different steps

ASSUME SplashAssumption ==
  Root \subseteq Scripts /\ {NoScreen, FifoFails} \subseteq BOOLEAN /\ MaxSignals \in Nat

VARIABLES
  pc, ret,      \* where psplash-drm is, its exit status
  mode,         \* "animation": drawing frames, "wait": on the last picture
  modeset_list, \* is a screen set up?
  pipe_fd,      \* what it reads: the "fifo" or a regular "file"; "closed", or "lost": -1
  path,         \* what /tmp/splash_fifo is: "none", "fifo", "file"
  lines,        \* the QUIT lines in it
  hup,          \* all who wrote since pipe_fd was opened have closed
  script,       \* where each script is
  quits,        \* History: the QUITs written since the last remove(),
  caught        \* and the steps at which a signal was caught

vars == <<pc, ret, mode, modeset_list, pipe_fd, path, lines, hup, script, quits, caught>>
fifoVars == <<pipe_fd, path, lines, hup>>

Ended == pc \in {"failed", "exited", "crashed", "killed"}
Alive == pc # "off" /\ ~ Ended

NoPipe == 255  \* the status of exit(-1): mkfifo() failed
NotOpened == 254  \* that of exit(-2): open() failed

Init ==
  /\ pc = "off" /\ ret = 0
  /\ mode \in {"animation", "wait"}
  /\ modeset_list = FALSE
  /\ pipe_fd = "closed" /\ hup = FALSE
  /\ path \in {"none", "fifo", "file"}  \* left by an earlier run, or by a script
  /\ lines = IF path = "file" THEN 1 ELSE 0
  /\ script = [s \in Scripts |-> "idle"]
  /\ quits = 0 /\ caught = {}

\* The scripts that hold the write end.
Writers == {s \in Scripts : script[s] \in {"pipe", "written"}}

\* What a FIFO holds is lost when the last end of it is closed.
ClosePipe ==
  /\ pipe_fd' = "closed" /\ hup' = FALSE
  /\ lines' = IF pipe_fd = "fifo" /\ Writers = {} THEN 0 ELSE lines

\* A script waiting for a reader of an unlinked FIFO waits for ever; what is
\* written into an unlinked file is read by nobody.
Orphaned == [s \in Scripts |-> CASE script[s] = "blocked" -> "stuck"
                                 [] script[s] = "file"    -> "gone"
                                 [] OTHER                 -> script[s]]

Woken == [s \in Scripts |-> IF script[s] = "blocked" THEN "pipe" ELSE script[s]]

-----------------------------------------------------------------------------
(* psplash-drm *)

\* get_valid_dri_card, the options, the signal handlers.
Start ==
  /\ pc = "off"
  /\ pc' \in {"remove", "failed"}
  /\ UNCHANGED <<ret, mode, modeset_list, fifoVars, script, quits, caught>>

Remove ==
  /\ pc = "remove"
  /\ path' = "none" /\ lines' = 0 /\ quits' = 0
  /\ script' = Orphaned
  /\ pc' = "mkfifo"
  /\ UNCHANGED <<ret, mode, modeset_list, pipe_fd, hup, caught>>

\* Mutation of Mkfifo: its failure goes unnoticed.
MkfifoFails ==
  /\ pc = "mkfifo"
  /\ pc' = "open"
  /\ UNCHANGED <<ret, mode, modeset_list, fifoVars, script, quits, caught>>

\* EEXIST: a script has made a regular file since.  Another error ends it.
Mkfifo ==
  /\ pc = "mkfifo"
  /\ \/ /\ path' = IF path = "none" THEN "fifo" ELSE path
        /\ pc' = "open"
        /\ UNCHANGED ret
     \/ /\ FifoFails /\ path = "none"
        /\ pc' = "exited" /\ ret' = NoPipe
        /\ UNCHANGED path
  /\ UNCHANGED <<mode, modeset_list, pipe_fd, lines, hup, script, quits, caught>>

\* Mutation of Open: the FIFO is opened, but not for reading.
OpenNotRead ==
  /\ pc \in {"open", "reopen"}
  /\ pipe_fd' = path /\ hup' = FALSE
  /\ pc' = IF pc = "open" THEN "modeset" ELSE "select"
  /\ UNCHANGED <<ret, mode, modeset_list, path, lines, script, quits, caught>>

\* The first open() exits, with the FIFO made.  The second's -1 is a descriptor
\* no FD_SET is defined for: it crashes, or select() watches nothing.
OpenFails ==
  /\ FifoFails
  /\ \/ /\ pc = "open"
        /\ pc' = "exited" /\ ret' = NotOpened
        /\ UNCHANGED pipe_fd
     \/ /\ pc = "reopen"
        /\ pc' \in {"select", "crashed"} /\ pipe_fd' = "lost"
        /\ UNCHANGED ret
  /\ UNCHANGED <<mode, modeset_list, path, lines, hup, script, quits, caught>>

\* open(SPLASH_FIFO, O_RDONLY|O_NONBLOCK), at the start or after an end of file.
Open ==
  /\ pc \in {"open", "reopen"}
  /\ pipe_fd' = path /\ hup' = FALSE
  /\ script' = IF path = "fifo" THEN Woken ELSE script
  /\ pc' = IF pc = "open" THEN "modeset" ELSE "select"
  /\ UNCHANGED <<ret, mode, modeset_list, path, lines, quits, caught>>

\* SplashModeset has its steps.  A signal among them may leave no screen.
Modeset ==
  /\ pc = "modeset"
  /\ \/ /\ modeset_list' \in (IF NoScreen \/ "modeset" \in caught THEN BOOLEAN ELSE {TRUE})
        /\ pc' = IF mode = "animation" THEN "frame" ELSE "draw"
        /\ UNCHANGED ret
     \/ /\ ret' = 1 /\ pc' = "close"
        /\ UNCHANGED modeset_list
  /\ UNCHANGED <<mode, fifoVars, script, quits, caught>>

\* The animation's inner loop: one frame on one screen.  Without a screen the
\* outer loop turns and does nothing else.
Frame ==
  /\ pc = "frame" /\ modeset_list
  /\ \/ pc' = "select" /\ UNCHANGED mode
     \/ pc' = "draw" /\ mode' = "wait"
  /\ UNCHANGED <<ret, modeset_list, fifoVars, script, quits, caught>>

Draw ==
  /\ pc = "draw"
  /\ pc' = "select"
  /\ UNCHANGED <<ret, mode, modeset_list, fifoVars, script, quits, caught>>

\* select() reports data or an end of file.
Readable ==
  \/ pipe_fd = "fifo" /\ (lines > 0 \/ (hup /\ Writers = {}))
  \/ pipe_fd = "file"

\* Mutation of SelectNothing: the final splash_processing has a timeout.
SelectTimeout ==
  /\ pc = "select" /\ ~ Readable
  /\ pc' = IF mode = "animation" THEN "frame" ELSE "cleanup"
  /\ UNCHANGED <<ret, mode, modeset_list, fifoVars, script, quits, caught>>

\* splash_processing returns 0: its 5 us are over, or a signal has closed
\* pipe_fd.
SelectNothing ==
  /\ pc = "select" /\ ~ Readable
  /\ mode = "animation" \/ pipe_fd = "closed"
  /\ pc' = IF mode = "animation" THEN "frame" ELSE "cleanup"
  /\ UNCHANGED <<ret, mode, modeset_list, fifoVars, script, quits, caught>>

\* Mutation of Read: the line end is compared too.
ReadWithNewline ==
  /\ pc = "select" /\ Readable
  /\ lines' = IF pipe_fd = "fifo" THEN 0 ELSE lines
  /\ pc' = IF lines > 0 THEN "select" ELSE "drop"
  /\ UNCHANGED <<ret, mode, modeset_list, pipe_fd, path, hup, script, quits, caught>>

\* read() takes all there is; parse_command compares it, as one string, with
\* QUIT.
Read ==
  /\ pc = "select" /\ Readable
  /\ lines' = IF pipe_fd = "fifo" THEN 0 ELSE lines
  /\ pc' = IF lines = 1 THEN "cleanup" ELSE IF lines > 1 THEN "select" ELSE "drop"
  /\ UNCHANGED <<ret, mode, modeset_list, pipe_fd, path, hup, script, quits, caught>>

\* End of file: close, then open again.
Drop ==
  /\ pc = "drop"
  /\ ClosePipe
  /\ pc' = "reopen"
  /\ UNCHANGED <<ret, mode, modeset_list, path, script, quits, caught>>

Cleanup ==
  /\ pc = "cleanup"
  /\ modeset_list' = FALSE
  /\ pc' = "close"
  /\ UNCHANGED <<ret, mode, fifoVars, script, quits, caught>>

Close ==
  /\ pc = "close"
  /\ ClosePipe
  /\ pc' = "unlink"
  /\ UNCHANGED <<ret, mode, modeset_list, path, script, quits, caught>>

\* Mutation of Unlink: the FIFO is left.
UnlinkNot ==
  /\ pc = "unlink"
  /\ pc' = "exited"
  /\ UNCHANGED <<ret, mode, modeset_list, fifoVars, script, quits, caught>>

Unlink ==
  /\ pc = "unlink"
  /\ path' = "none" /\ lines' = 0
  /\ script' = Orphaned
  /\ pc' = "exited"
  /\ UNCHANGED <<ret, mode, modeset_list, pipe_fd, hup, quits, caught>>

Psplash ==
  \/ Start \/ Remove \/ Mkfifo \/ Open \/ OpenFails \/ Modeset \/ Frame \/ Draw
  \/ SelectNothing \/ Read \/ Drop \/ Cleanup \/ Close \/ Unlink

\* Mutation of Signal: the pipe is left open.
SignalKeepsPipe ==
  /\ Alive /\ Cardinality(caught) < MaxSignals
  /\ caught' = caught \union {pc}
  /\ modeset_list' = FALSE
  /\ UNCHANGED <<pc, fifoVars, ret, mode, path, script, quits>>

\* splash_exit cleans up, closes, and returns to what it interrupted, which may
\* be using the screen just freed: that crashes, or finds no screen any more.
\* A screen that is not yet set up crashes the clean-up itself.  A descriptor
\* of -1 stays what it is; a select() that watches nothing is interrupted.
Signal ==
  /\ Alive /\ Cardinality(caught) < MaxSignals
  /\ caught' = caught \union {pc}
  /\ modeset_list' = FALSE
  /\ IF pipe_fd = "lost" THEN UNCHANGED <<pipe_fd, lines, hup>> ELSE ClosePipe
  /\ \/ UNCHANGED pc
     \/ pipe_fd = "lost" /\ mode = "wait" /\ pc = "select" /\ pc' = "cleanup"
     \/ /\ \/ pc = "modeset"
           \/ modeset_list /\ pc = "draw"
           \/ modeset_list /\ mode = "animation" /\ pc \in {"frame", "select", "drop", "reopen"}
        /\ pc' = "crashed"
  /\ UNCHANGED <<ret, mode, path, script, quits>>

-----------------------------------------------------------------------------
(* psplash-drm-quit *)

Goes(s, to) == script' = [script EXCEPT ![s] = to]

Pidof(s) ==
  /\ script[s] = "idle"
  /\ Goes(s, IF Alive THEN "open" ELSE "done")
  /\ UNCHANGED <<pc, ret, mode, modeset_list, fifoVars, quits, caught>>

\* > /tmp/splash_fifo: opening a FIFO waits for a reader; a regular file is
\* created, or emptied.
OpenPath(s) ==
  /\ script[s] = "open"
  /\ \/ /\ path = "fifo"
        /\ Goes(s, IF pipe_fd = "fifo" THEN "pipe" ELSE "blocked")
        /\ UNCHANGED <<path, lines>>
     \/ /\ path # "fifo"
        /\ Goes(s, "file")
        /\ path' = "file" /\ lines' = 0
  /\ UNCHANGED <<pc, ret, mode, modeset_list, pipe_fd, hup, quits, caught>>

\* echo QUIT; with no reader left it fails and the script goes on.
Echo(s) ==
  /\ \/ /\ script[s] = "pipe"
        /\ Goes(s, "written")
        /\ lines' = IF pipe_fd = "fifo" THEN lines + 1 ELSE lines
        /\ quits' = IF pipe_fd = "fifo" THEN quits + 1 ELSE quits
     \/ /\ script[s] = "file"
        /\ Goes(s, "kill")
        /\ lines' = 1 /\ quits' = quits + 1
     \/ /\ script[s] = "gone"
        /\ Goes(s, "kill")
        /\ UNCHANGED <<lines, quits>>
  /\ UNCHANGED <<pc, ret, mode, modeset_list, pipe_fd, path, hup, caught>>

CloseWriter(s) ==
  /\ script[s] = "written"
  /\ Goes(s, "kill")
  /\ LET last == Writers = {s} IN
     /\ hup' = (hup \/ (last /\ pipe_fd = "fifo"))
     /\ lines' = IF last /\ pipe_fd \in {"closed", "lost"} THEN 0 ELSE lines
  /\ UNCHANGED <<pc, ret, mode, modeset_list, pipe_fd, path, quits, caught>>

\* pidof again, and kill -9 if psplash-drm is still there and belongs to us.
Kill(s) ==
  /\ script[s] = "kill"
  /\ Goes(s, "done")
  /\ IF Alive /\ s \in Root
     THEN pc' = "killed" /\ modeset_list' = FALSE /\ ClosePipe
     ELSE UNCHANGED <<pc, modeset_list, pipe_fd, lines, hup>>
  /\ UNCHANGED <<ret, mode, path, quits, caught>>

Script(s) == OpenPath(s) \/ Echo(s) \/ CloseWriter(s) \/ Kill(s)

-----------------------------------------------------------------------------
Next ==
  \/ Psplash
  \/ Signal
  \/ \E s \in Scripts : Pidof(s) \/ Script(s)

\* psplash-drm and the scripts that have been started get the CPU.  No script
\* has to be started and no signal sent.
Spec ==
  /\ Init /\ [][Next]_vars
  /\ WF_vars(Psplash)
  /\ \A s \in Scripts : WF_vars(Script(s))

-----------------------------------------------------------------------------
(* Properties. *)

Places == {"off", "remove", "mkfifo", "open", "modeset", "frame", "draw", "select", "drop",
           "reopen", "cleanup", "close", "unlink", "failed", "exited", "crashed", "killed"}

ScriptPlaces == {"idle", "open", "blocked", "stuck", "pipe", "written", "file", "gone", "kill",
                 "done"}

\* Type correctness.
TypeOK ==
  /\ pc \in Places
  /\ ret \in {0, 1, NotOpened, NoPipe} /\ mode \in {"animation", "wait"} /\ modeset_list \in BOOLEAN
  /\ pipe_fd \in {"closed", "lost", "fifo", "file"} /\ path \in {"none", "fifo", "file"}
  /\ lines \in Nat /\ hup \in BOOLEAN
  /\ script \in [Scripts -> ScriptPlaces]
  /\ quits \in Nat /\ caught \subseteq Places

\* The loop that draws frames, with no screen left to draw them on.
Spinning == pc = "frame" /\ ~ modeset_list

\* The FIFO could not be opened again: its QUITs are read no more.
Lost == pipe_fd = "lost"

\* A QUIT that is in the FIFO ends the splash, whether it draws or waits, if it
\* is the only one, no signal has come, there is a screen and the FIFO, once
\* closed at an end of file, could be opened again.
QuitEnds ==
  (pipe_fd = "fifo" /\ lines = 1) ~> (Ended \/ quits > 1 \/ caught # {} \/ Spinning \/ Lost)

\* A splash that waits is ended by a signal, although its handler does not exit,
\* unless it could not open its FIFO again.
SignalEnds ==
  (mode = "wait" /\ caught \intersect {"draw", "select"} # {}) ~> (Ended \/ quits > 1 \/ Lost)

\* A script that waits for a reader while the splash opens, or opens again, its
\* FIFO gets through and ends, unless the opening fails.
ScriptServed ==
  \A s \in Scripts : (script[s] = "blocked" /\ pc \in {"open", "reopen"})
                       ~> \/ script[s] = "done"
                           \/ pc \in {"killed", "crashed"} \/ ret = NotOpened \/ Lost

\* The splash keeps the screen until it is told to quit.
StaysUntilQuit ==
  pc \in {"cleanup", "close", "unlink", "exited"} /\ ret = 0 => quits > 0 \/ caught # {}

\* A splash that exits by itself, whichever of its calls failed, leaves no
\* screen and no FIFO on which a later script would wait for ever.  The one
\* exception is its exit(-2), which does not remove the FIFO just made.
LeavesNothing ==
  pc = "exited" => /\ pipe_fd = "closed" /\ ~ modeset_list
                   /\ path = "fifo" => ret = NotOpened

\* "Wait until we are stopped via /tmp/splash_fifo, echo QUIT > /tmp/splash_fifo"
StoppedByQuit == (pipe_fd = "fifo" /\ lines > 0 /\ caught = {}) ~> Ended
=============================================================================
