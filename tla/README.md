# TLA+ models of meta-st-openstlinux

meta-st-openstlinux is ST's OpenEmbedded layer for STM32MP boards. Most of its 545 files are
recipes, patches, licences and pictures; about ten thousand lines are programs and scripts that
run on the board. This directory models the ones that have a state of their own, several
processes or threads, or a failure to survive. Paths below are relative to `src/`.

## Inventory

| # | component | state | operations | talks to | what is hard | what makes it correct |
|---|---|---|---|---|---|---|
| 1 | AI character recognition launcher, `recipes-samples/ai-nn-application/ai-hand-char-reco-launcher/` (`ai_char_reco_launcher.c`, `timer.c`, `copro.c`, `apps_launcher_example.sh`) | the drawing and `touch_idx`; three request flags; three timer handles; the letter and the script's command line; `keepRunning`, `threadClosingRequested` | touch events, three requests, frames from the firmware, timer callbacks, the launch script, signals | the Cortex-M4 firmware over ttyRPMSG, the script through `system()`, which kills it for the quit letter | four threads, one mutex that a part of the accesses takes; lost and late answers; heap nodes named by stale handles | the drawing sent is the one made; the letter launched is the one recognised; silence and signals end the process; no timer leaked or freed twice |
| 2 | boot splash, `recipes-core/psplash/` | `/tmp/splash_fifo`, the list of screens with their CRTCs, buffers and mappings, what `read()` returned | `modeset_prepare`, draw, `modeset_cleanup`, `splash_processing`, `splash_exit`, exit; the quit script | the weston session and systemd through the FIFO and `kill`; the kernel's DRM device | a FIFO's open/close/unlink races, a signal handler that returns, QUITs read together; connectors that share CRTCs, device calls that fail half-way | it stays until told, goes when told, leaves nothing; every screen that can be lit shows the same whole picture, on a CRTC of its own |
| 3 | first-boot storage: `resize-helper`, `init-resize.sh`, `mount-partitions.sh`, `userfs-cleanup-package.sh` | partition tables and file systems, marker files, mounts, `apt` state | resize, mount, unmount, clean up | systemd ordering | power cut between two steps, a step that is redone or skipped at the next boot | every partition is resized, once, and mounted in the end; only packages that are not there are purged |
| 4 | GTK demo launcher, `demo_launcher.py` | a lock file, the button pressed and since when, the page shown, a child process | press, long press, swipe, launch, SIGINT | application scripts | a long-press timer racing the release, a stale lock file | one application at a time; a page that exists |
| 5 | netdata and hotspot demo (`netdata.py`, `st-hotspot-wifi-service.sh`) | network interface, hostapd/dnsmasq, displayed QR code | start, stop | systemd services | partial failure of a start | what was started is stopped |
| 6 | bluetooth demo (`bluetooth_audio.py`, `wrap_blctl.py`) | devices seen, paired, connected; the dialogue with `bluetoothctl` | scan, connect, disconnect | `bluetoothctl` through pexpect | timeouts in the dialogue, stale device lists | what is displayed is what is connected |
| 7 | USB gadget scripts | configfs trees | start, stop | udev, kernel | a stop after a partial start | stop undoes start |
| 8 | remote shutdown (`m33td-reset/remote_shutdown.sh`) | one sysfs node | poll | remoteproc | | a request is acted on |
| 9 | weston session, GPU check, audio switch | environment | start | the splash (2) | | the splash is gone before weston starts |
| 10 | usbip, net alias, host name, tee-supplicant environment | one file each | one shot | udev, systemd | | |
| 11 | sensor demo | none | read, draw | sysfs | | |
| 12 | camera, video, cube, M33 demos | command lines | launch | gstreamer | | |
| 13 | netdata charts, DDR counters | counters | read, print | sysfs | | |
| 14 | `qrenc.c`, bbclasses, recipes, patches, configuration | | | | third party or build time | |

`PROJECT.json` lists the same components with their files, and under `hazards` each place where
the code is hard to test.

## Modules

| module | models | grain |
|---|---|---|
| `TimerService` | `timer.c`, one call at a time, as operators on the map from heap addresses to timer nodes | a call |
| `CoproLink` | `copro.c` (remoteproc, the tty) and, as environment, the firmware that `readme.txt` describes | a `write()` or `read()` |
| `AiLauncher` (EXTENDS both) | `ai_char_reco_launcher.c` and the quit branch of `apps_launcher_example.sh` | the code between two points where another thread can see a difference |
| `Recognition` | what the launcher promises: draw, pause, recognise, launch that letter once, or quit | abstract |
| `MCAiLauncher` | two letters for TLC | |
| `AiLauncherProofs` | theorems of `AiLauncher`, whatever the user and the coprocessor do | |
| `SequentialProofs` (EXTENDS it) | theorems of `AiLauncher` used one drawing at a time | |
| `RecognitionProofs` (EXTENDS it) | `AiLauncher` implements `Recognition`, as far as safety goes; the letter launched is the right one | |
| `TimerList` | `timer.c` again, without the assumption of atomic calls | one access to shared memory |
| `TimerListProofs` | theorems of `TimerList` | |
| `Splash` | `basic_splash_drm.c` from start to exit, `psplash-drm-quit` | a system call |
| `SplashProofs` | theorems of `Splash` | |
| `SplashImage` | `splash_draw_image_center` and the decoder of the built-in picture, as functions of the encoding and the screen | pure |
| `SplashModeset` (EXTENDS it) | `modeset_prepare` to `modeset_cleanup`, the drawing, the signal handler, and the DRM device | a call of the device |
| `MCSplashModeset` | boards, encodings and pictures for TLC | |
| `SplashModesetProofs` | theorems of `SplashModeset` | |
| `SplashScreensProofs` (EXTENDS it) | further theorems of `SplashModeset`: what the screens show, and that the decoder draws the built-in picture whole | |
| `FirstBoot` | `init-resize.sh`, `mount-partitions.sh`, `resize-helper`, `userfs-cleanup-package.sh`, their services, the power | a command |
| `MCFirstBoot` | boards for TLC | |
| `FirstBootProofs` | theorems of `FirstBoot` | |

### AiLauncher

Variables carry the C names. `mainPc`, `touchPc`, `ttyPc` and `poller` say where main, the touch
thread, the ttyRPMSG thread and the timer thread are; `lock` is the mutex where a thread keeps it
across steps that others can see (only the touch thread does). The actions follow the code top
to bottom: `MainCheckFw` to `MainTimerInit` are `copro_start` and main's set-up, `MainPoll` to
`MainLaunch` the loop, the `Main...` actions after it the tear-down; `Touch...` is
`read_touch_event_thread`, `Tty...` is the ttyRPMSG thread with
`copro_virtual_tty_process_read_data`, `Poller...` the timer thread with the three callbacks. `IntHandler` is the body of the signal handler, `Signal` its arrival.

What is abstracted, and why the properties do not see it:

- A cell of the drawing is empty, half filled, a point or a line break; coordinates are not kept.
  The frame is the cells up to the first that is not filled, as the C loops have it, and its length
  byte wraps at `LenRange`.
- main tests its three flags one after the other with no lock; between two tests any thread may
  run, so `MainPoll` may take any flag that is set. A thread's read of `touch_idx` without the
  mutex is a step of its own (`idx` is the copy it goes on with).
- `Request` does `timer_start` and `write` in one step. The timer is armed for 500 ms at least and
  the firmware can answer only what was written, so nobody sees the state in between. `timer_start`
  fails here when the heap is full only; its other failures are in `TimerList`.
- The answer is read in one step (`TtyRead`) and its request's timer stopped in another (`TtyStop`).
  In between the timer may expire and the timer thread call `rpmsg_timeout_callback` (`Expire`,
  `PollerFire`): the launcher then quits over a request that was answered, which no document
  excludes. Such a request is `overdue` from then on, like one that is answered too late.
- Two timers of equal interval expire in the order they were started (`Expirable`); the timer of a
  letter, 2 s, does not expire between its start and the `sprintf` two lines further. Nor does the
  timer of the careful user's drawing expire between `TtyRead` and `TtyStop`: it was armed right after
  that of the request being answered, for the same 500 ms.
- Frames arrive whole; two frames in one `read()` are modelled (the second is lost, and more than
  `UartRxSize` bytes overrun the buffer).
- A short read of the touch screen ends the touch thread with the mutex locked for good
  (`ShortReads`, `LockLeft`); its set-up may call `exit()` for the process (`TouchSetup`), which also
  stands for the two `exit(1)` after `popen`. A read that returns -1 is no short one to the code, which
  compares unsigned numbers: it handles the event before once more. That is left out.
- Undefined behaviour ends the modelled behaviour in a status of its own: `overrun`,
  `double_free`, `no_thread`; `exited` is a regular end, that of main or one of those `exit()`.
- GTK drawing and the mouse's window geometry are left out.

### TimerList

`timer_start`, `timer_stop` and the timer thread's scan, `poll`, `read`, look-up and call, each load
and store of `g_head` and `next` a step, descriptors with the kernel's lowest-free-number rule.
A `timer_start` whose `malloc` or `timerfd_create` fails returns 0 (`StartFails`).
Reading a node that is freed or not filled yet ends the behaviour (`use_after_free`). A timer does
not expire during the call that starts it (100 ns against 500 ms). `timer_finalize` is in
`TimerService` only; `MAX_TIMER_COUNT`, 1000, is out of a three-timer program's reach and left out.

### Splash

`path` is the directory entry `/tmp/splash_fifo`, `pipe_fd` what psplash-drm holds, `lines` the QUITs in
it, `hup` whether `select()` reports the end of file; `script[s]` is a run of `psplash-drm-quit`: idle, opening,
blocked in `open()`, holding the FIFO or a regular file it created, about to kill, done, or *stuck* on
an unlinked FIFO. `Root` are the runs whose `kill -9` is permitted: systemd's `ExecStop`, not the
`ExecStartPre` of the weston session, which runs as the weston user. `Signal` runs `splash_exit` at any
step and returns; when the interrupted code is using the screens just freed it may crash or go
on with an empty list. Setting up the screens, `SplashModeset`'s
matter, is one step that succeeds, finds no screen, or fails; after a signal in it, it may leave none.
`mkfifo()` and `open()` may fail (`FifoFails`): the first exits with -1, the second with -2 and *leaves
the FIFO* for the next splash to remove, which `LeavesNothing` names as its exception. When the FIFO cannot
be opened again after an end of file, the descriptor -1 goes to `FD_SET`: a crash, or a `select()` that watches
nothing until a signal (`lost`); QUITs are not read any more, so `QuitEnds`, `SignalEnds` and `ScriptServed` except it.
`ScriptServed` says that a script blocked in `open()` when the splash (re)opens the FIFO comes to its end;
a script that blocks on a FIFO which is then unlinked is the one that does not. A failing `pidof` or a PID that is reused is left out. `echo` on a pipe without a reader fails and
the script goes on (systemd ignores SIGPIPE for services).

### SplashModeset

A connector, the `modeset_dev` made for it and its buffer, framebuffer and mapping bear one index, so
that `buffers`, `fbs` and `maps` (what the kernel holds for the process) can be compared with
`modeset_list` (what the process knows of). `board` is the device: each connector's type, modes, current
encoder and encoders, each encoder's CRTCs. The places of `pc` follow `main`: `card` to `connector`
(`get_valid_dri_card`, `modeset_open`, `modeset_prepare`), `create` to `err_destroy`
(`modeset_create_fb` with its two error labels), `getcrtc` and `setcrtc` (the loop of main), `frame`,
`draw`, `wait`, then `off` to `destroy` (one turn of `modeset_cleanup`) and `close`. `Signal` is
`splash_exit`, once, at any step: it frees everything and returns, and what main does next finds an empty
list, a closed descriptor, or memory just freed (`crashed`).

`SplashImage` counts the pixels that `splash_draw_image_for_modeset` draws of an encoding, with the
bound as the C has it: the offset in the *encoded* data against the length of the *decoded* picture. Colours
are not kept; a screen shows `black`, a `frame`, the file's `picture`, the `builtin` one, or `garbled`.

What the model makes visible, and no document of the repository denies:

- The CRTC is chosen greedily: the first connector may take the only one the second could have had, and
  the second stays dark although another choice lights both. `EveryScreenLit` holds in the form "dark
  only if all its CRTCs are in use".
- If the file's picture is too large for one screen, the built-in one is drawn on all, over the file's
  picture where that one fitted and without the background drawn again.
- The built-in picture is not compared with the screen: on a smaller one it is drawn outside the mapping.
- A signal during the set-up, or a `drmModeGetCrtc` that failed, leaves a device without `saved_crtc`,
  which `modeset_cleanup` dereferences. `CrashReasons` lists these, and says there are no others.

The two encodings in `image_header.h` are of exactly 480 by 272 pixels, in 25 325 and 18 953 bytes
instead of 391 680: `EncodingAssumption` holds of them. It is as weak as the bound allows: an encoding may exceed its picture by two
bytes, as one of those in the run does, before its tail is lost.

### FirstBoot

`board` says where the root is (`mmc`, `nand`, `nfs`), whether the command line names its device (`named`)
and not its UUID or label, whether there is an initrd, `systemd-growfs` and `findmnt`, which partitions there
are, and whether a NAND's user volume is called `userfs` or, as `mount-partitions.sh` accepts, `user`. The
root's type is known with `findmnt` or from the command line (`RootKnown`); otherwise nothing is mounted, and
the clean-up, which finds no user partition, purges the packages. It purges them too where the volume is `user`, mounted
or not: the clean-up greps for `userfs` alone (`ShortName`). No document promises otherwise, so `PurgedIfAbsent`
names both. On the medium are `grown` (file systems that fill their
partition), `broken` (those e2fsck has to correct), `mark` (`/etc/.resized`), `helper` and `cleanup` (the
services' links) and `packages`; a file that was changed is `cached` until it is written back (`sync`,
`WriteBack`, a shutdown), and a power cut undoes it, all that is not written back at once, as a journal does.
Volatile are `pc`, the loops' `todo` and `part`, and `mounted`. The order of the scripts is systemd's
(`Before=`, `After=`), so the places of `pc` are one sequence; `PowerCut` comes between any two.

e2fsck, resize2fs, apt and the kernel are environment: e2fsck on a file system in need of it corrects
and returns an error, which is what makes `e2fsck && resize2fs` skip the resizing; resize2fs may refuse an
unmounted file system that was not checked; apt may refuse after an interruption; `systemctl disable` may
fail, and `resize-helper` goes on. The label of a file system and the name of its partition are taken as
agreeing, the NAND's user volume apart. `"data"` in the runs stands for a partition
that the image mounts but whose label no script knows: it is never resized.

## Runs

| run | expects | question | bounds |
|---|---|---|---|
| `launcher_sequential` | pass | a careful user (no touch while a drawing is being recognised), a firmware that may lose one request, an answer read in the instant of its timeout: `FrameIsDrawing` (the cells sent are those drawn, up to where the length byte wraps), `NoDoubleFree`, `NoOrphanTimer`, `LaunchedIsRecognised`, `AnswerStopsTimeout` (the timer stopped for an answer is the one of its request), `SilenceQuits`, and `ImplementsRecognition`: the launcher refines `Recognition` | 3 cells and a length byte modulo 6, so that a full array is cut (220 and 256 in the code, where 128 cells are too many), 3 heap nodes (all three timers at once), 6 events: two strokes, so two drawings one after the other, or a drawing that fills the array |
| `launcher_overlap` | pass | touches at any time, short reads, a late answer, a bad acknowledge or a timeout between `TtyRead` and `TtyStop`, signals, failing `pthread_create`: `TypeOK`, `StartNeedsAck`, `PauseIsServed`, `QuitTerminates` | 2 cells and 2 nodes, so that both run out; 3 events: a drawing and the start of the next; one letter, since none of the four depends on which; `MaxFaults` 1: nothing goes wrong any more once one request has timed out |
| `launcher_ctrl_c` | violation | `QuitTerminates` with a signal while the launcher starts | the same, `EarlySignal` |
| `launcher_overrun` | violation | `TouchInBounds` | |
| `launcher_wrong_letter` | violation | `LaunchedIsRecognised` when the finger comes down during the launch | |
| `timer_list` | pass | one caller against the timer thread: `ListIsStarted`, `Fires` | 3 nodes, 3 starts: head, middle and last are stopped, and an address and a descriptor are reused |
| `timer_list_race` | violation | `StartedIsListed` with two callers | 2 starts |
| `splash` | pass | root's script, the weston user's, one signal, a failing or empty set-up, a FIFO that cannot be made or opened: `TypeOK`, `StaysUntilQuit`, `LeavesNothing`, `QuitEnds`, `SignalEnds`, `ScriptServed` | two scripts are the ones a board runs |
| `splash_two_quits` | violation | `StoppedByQuit` with two scripts that may not kill | |
| `splash_modeset` | pass | whatever is plugged in, whichever calls fail, a signal at any step: `TypeOK`, `CrtcExclusive`, `NothingLost`, `EveryScreenLit`, `BuiltInWhole`, `ScreensAgree`, `CrashReasons`, `OffBeforeFree`, `SetsUp`, `GivesBack` | 3 connectors on 2 CRTCs, so that one may stay without; 6 boards: shared CRTCs, a current encoder whose CRTC is taken, a portrait, a large and a too small screen, no card; 2 failing calls, so that one can follow another; pictures of 6 pixels, in encodings that save and that cost bytes |
| `first_boot` | pass | power cuts between any two commands: `TypeOK`, `ExecutedOnce`, `OfflineOnly`, `MarkAfterWork`, `GrownIfLeftAlone`, `MountedUnlessHelper`, `PurgedIfAbsent`, `CutsOnlyDelay`, `CleanedInTheEnd` | 3 boots, 2 of them cut (what is undone, and the damage of the first found in the second), 1 failing command; 3 partitions: one that `resize-helper` looks at, one that the clean-up looks at, one no script knows; `MCFirstBoot` varies the names and `findmnt` where they matter |
| `first_boot_nfs` | violation | `NfsUntouched` | 1 boot |

`CHECK_DEADLOCK FALSE` is set where the system really may stop: a launcher that waits for a touch or
for a thread (`launcher_*`), a splash that waits for a QUIT nobody owes or has ended (`splash*`), a board
that is up (`first_boot*`). `TimerList` never stops:
its timer thread turns for ever, and deadlock is checked there.

### What the violations show

- *Ctrl-C during start-up.* main resets `threadClosingRequested` after the handler may have set it;
  the loop is skipped and `pthread_join` waits for a thread nobody told to end.
- *Overrun.* A stroke that begins in the last cell moves `touch_idx` past the array in the branch
  without a test.
- *Wrong letter.* The letter is zeroed by the touch thread before main formats the command.
- *Lost timer.* Two unprotected insertions keep one node of the two.
- *Two QUITs.* Both lines are read at once and compared as one string.
- *NFS root.* The clean-up script says twice "nfs file system, do nothing", but neither of its two ways to
  find the device ever answers so: the type is `unknown` when `findmnt` is there, and `$_device=...` is not an
  assignment when it is not. The packages of `/usr/local` are purged.

Where a liveness property of the launcher names an exception, the code does stop there, and no document
says otherwise: `PauseIsServed` and `QuitTerminates` a mutex left locked by a short read; `PauseIsServed` also a
timer thread that could not be made, whose result `main` ignores; `SilenceQuits` request 0, whose quit letter
`main` may overwrite in `script_launcher`, as it may that of a request answered in the instant of its timeout.

`first_boot` also shows what a comment of `resize-helper` hides: "force to mount partitions" stands over
`mount-partitions.sh stop`. `MountedUnlessHelper` and `GrownIfLeftAlone` name that case as their exception.
And a power cut during an off-line `resize2fs` costs that file system its resizing for good: it is the
`repaired` in `MarkAfterWork` and `CutsOnlyDelay`.

### Fairness

Weak fairness of each thread (the scheduler is fair, and a thread blocked in `read()`, `poll()` or
`pthread_join()` is not enabled), of the clock as a whole, and of the firmware's answer to a request
it has not lost. The user, signals, faults and new timer calls owe nothing. In `TimerList` a call that
was begun returns; in `Splash` the process and the scripts that were started run. In
`SplashModeset` the process runs; whoever would tell it to quit owes nothing. In `FirstBoot` a board that
has power boots; power cuts, reboots and write-back are not owed, and the cuts are finitely many, as the
bounds of the run have it. No property needs strong fairness.

## Proofs

`tlapm` proves, for every value of the constants that satisfies the named assumptions:

- `TypeCorrect`: `Spec => []TypeOK` of the launcher. `TypeOK` is inductive as it stands once the index
  the touch thread copied is tied to `touch_idx` (`DrawingOK`); the proof has a lemma per thread, one
  step per action.
- `StartIsAcknowledged`: `[]StartNeedsAck`. The inequality is not inductive: the acknowledge travels
  through a flag and a program counter before it becomes a start. `AckInv` counts both as starts
  already spent.
- `StopReachesTty`: without an early signal, `[](keepRunning \/ threadClosingRequested)`. `StopInv` adds
  that nothing clears `keepRunning` while main is booting. It is the safety half of `QuitTerminates`, and
  its assumption is exactly what `launcher_ctrl_c` drops.
- `SequentialCorrect` (`SequentialProofs`): the launcher used *one drawing at a time*, `Careful`: the user keeps off the
  screen while a drawing is recognised, and the coprocessor answers a request in time and well, or never. `SequentialInv`
  lists the places a drawing passes between the screen and the launch (a flag, a frame, a request, a place of
  main) and says that it is in one of them at a time (`OnePlace`). The rest hangs on that: which
  request is with the coprocessor (`LinkInv`), which timer each handle names (`OwnerInv`) and which request a timer guards
  (`GuardInv`), that the array mirrors the user's drawing from the first cell to the send (`DrawingInv`), and that the
  pause is not noticed before the input type is acknowledged (`OrderInv`). From it:
  - `FrameOfTheDrawing`: `[]FrameIsDrawing`; `WholeFrame`: a drawing of fewer than `LenRange` / 2 cells is not cut;
  - `FreedOnce`, `TimersInReach`, `TimeoutIsStopped`: `[]NoDoubleFree`, `[]NoOrphanTimer`, `AnswerStopsTimeout`. The last
    two see the step between the reading of an answer and `timer_stop`: `GuardInv` says that `timer3` still names
    the timer of that request, whether it runs, has expired or was fired;
  - `ImplementsPromise` (`RecognitionProofs`): `Spec => Promise!Safety`, the safety part of `ImplementsRecognition`. `View`
    maps the places to the phases of `Recognition`, and each step `Sees` one of its actions or nothing. It takes
    a heap with room for two timers (`TwoTimers`): a finger lifted without a timer leaves a drawing nobody sends;
  - `LetterIsRight`: `[]LaunchedIsRecognised`, which `launcher_wrong_letter` refutes for the user who is not careful.

  None of `Careful` can be left out. A late answer breaks `NoDoubleFree` and `AnswerStopsTimeout`; a bad acknowledge
  leaves a drawing in the array and breaks `FrameIsDrawing` and the refinement; a user who draws meanwhile breaks
  `FrameIsDrawing`, `NoDoubleFree`, `NoOrphanTimer`, `AnswerStopsTimeout` and `LaunchedIsRecognised`. A lost request is
  allowed: its timer quits the application, and `NoOrphanTimer` and `LaunchedIsRecognised` speak of the time before.
- `ListCorrect` (`TimerListProofs`): `timer.c` access by access, as long as its calls do not overlap (`OneAtATime`, which is what
  `TimerService` assumes of them). `ListInv` describes the chain without following it: each node of the list leads to
  the youngest of those older than itself, and `Linked` says when the node of the call in hand is one of them. From it:
  - `StopReadsStarted`: the walk of `timer_stop` stays on nodes that are in the list. The timer thread has no such
    guarantee: it may read a freed node, and does, in `timer_list` too;
  - `ListHoldsStarted`: `[]ListIsStarted`, for any number of timers and of threads that take turns; `timer_list_race` is
    what happens when they do not;
  - `OneCaller`: a single caller takes turns with nobody.
- `SplashTypeCorrect`, `SplashStays`, `SplashLeavesNothing`: the three invariants of `splash`, for any number
  of scripts and signals, and whichever calls fail, by one inductive invariant `SplashInv`: what there is to open
  (`HasPath`), when there is no screen and no pipe (`Released`), and where a QUIT can have come from (`Told`).
- `ModesetTypeCorrect`, `ModesetCrtcExclusive`, `ModesetNothingLost`, `ModesetOffBeforeFree`: for any number of
  connectors, CRTCs, encoders and failing calls, by `ModesetInv`, which adds to the properties which
  devices are on the list at each place (`Where`: those before the connector in hand) and that the CRTC
  chosen for the device being made is nobody's (`Chosen`). `FoundIsFree` is the lemma about
  `modeset_find_crtc`. For the action property `Lit` is added: as long as no call failed, a CRTC scans out only
  what is on the list.
- `FirstBootTypeCorrect`, `HelperExecutedOnce`, `ResizeOffline`, `MarkIsTrue`, `CleanupIsRight`: for any partitions, boards
  and number of boots, power cuts and failing commands, by `FirstBootInv`. `OnceInv` ties the work of
  `resize-helper` to the disabled link *on the disk* (the `sync` is what makes it inductive; each disabling that
  failed allows one boot more), `MarkInv` what the loop
  of `95-resize` is through with, `PurgeInv` what the clean-up has tried.
- `MountsExplained`, `LeftAloneIsGrown`: two more conjuncts of `FirstBootInv`. `MountInv` follows the mount loop and
  names the two things that undo it; `AloneInv` follows a board without power cuts and failures from the initrd, or
  from `resize-helper`, to the grown file systems (`Outcome`).
- `ModesetScreensAgree`, `ModesetCrashReasons`, `ModesetEveryScreenLit` (`SplashScreensProofs`): by `ScreensInv` on top of
  `ModesetInv`. `Saved` says that what `main` has been through has a `saved_crtc` and a mode, `LitSoFar` that each
  connector looked at is served or finds all of its CRTCs in use. The lemmas `ModeIsASize` and `NotFoundIsUsed` show that
  the code's searches (the first mode not too high, the first free CRTC) find something whenever there is
  something; their minima exist because `<` on the naturals is well-founded (`SmallestOf`, `SmallestPair`).
- `ModesetBuiltInWhole`: `[]BuiltInWhole`, for any screen, picture and encoding within `EncodingAssumption`. `DecodedWhole` shows that the
  decoder's bound cuts no block of such an encoding, `CellsFill` that the pixels, wrapped at the picture's width, fill its
  rectangle. `BuiltInFits` adds that a screen that shows it whole is large enough for it (what a smaller one shows is
  `garbled`).

Recursive functions (`Chain`, which follows `g_head`, and `Sums`, which adds up an encoding) need induction, and no
installed prover can use the library's induction theorems. What is proved of them is proved by a minimal
counterexample: the least place where the claim fails, whose predecessor is a contradiction.

So every invariant of a passing run is a theorem. Model-checked only are the liveness properties (`PauseIsServed`, `QuitTerminates`, `SilenceQuits`,
`Fires`, `QuitEnds`, `SignalEnds`, `ScriptServed`, `SetsUp`, `GivesBack`, `CutsOnlyDelay`, `CleanedInTheEnd`) and the
fairness of `ImplementsRecognition` (what is paused is recognised and launched), which need `ENABLED` and are out of the
prover's reach. No module declares a RECURSIVE operator.

## Not modelled

- Of the launcher and the splash: GTK and libpng, colours and frame timing, the mouse's window geometry, and
  `copro_computeCRC`, on whose result nothing in the programs depends.
- `psplash-via-m33/psplash-drm-quit` and `remote_shutdown.sh`: they make an rpmsg endpoint, wait for it and send or read
  one message; one actor, and the other side is firmware that is not in the repository.
- The GTK demo launcher, the bluetooth and the hotspot demo: their transitions are Gtk's events, the text
  that `bluetoothctl` prints, and what hostapd and networkd do, none of which the source defines. A model
  would be of those programs.
- The USB gadget scripts: sequences of configfs writes whose order and failures are the kernel's rules.
- Components 9 to 14 otherwise: no state between two steps, third-party (`qrenc.c`), data
  (`image_header.h`), or only there at build time.
