--------------------------- MODULE SplashModeset ---------------------------
(***************************************************************************)
(* psplash-drm and the kernel's DRM device: how a screen is set up for     *)
(* every connector, drawn on and given back.  A step is one call of the    *)
(* device, which may fail; a signal may come between any two.              *)
(*                                                                         *)
(* A connector, the modeset_dev made for it, its dumb buffer, framebuffer  *)
(* and mapping all bear the connector's index in res->connectors, a CRTC   *)
(* its index in res->crtcs.  modeset_list is the set of its members: a     *)
(* member is put at the head, so the newest is the one of highest index.   *)
(***************************************************************************)
EXTENDS SplashImage, FiniteSets

CONSTANTS
  NConns, NCrtcs,   \* how many connectors and CRTCs the device has
  Boards,           \* what may be on them, see BoardType
  MaxSize,          \* display_max_size
  ImgWidth,         \* SPLASH_IMG_WIDTH and _HEIGHT; the rotated picture's are
  ImgHeight,        \* these two swapped
  RleData,          \* the built-in picture's possible encodings
  Pictures,         \* the sizes of the files that -f may name
  MaxFails          \* bound: how many calls of the device fail

Conns == 1 .. NConns
Crtcs == 1 .. NCrtcs
Size  == [w : Nat \ {0}, h : Nat \ {0}]

\* An encoder: the CRTC it is bound to (0: none) and those it can be bound to.
Encoder == [crtc : 0 .. NCrtcs, possible : SUBSET Crtcs]

\* encoder is the index of the current encoder (0: none).
ConnectorType ==
  [hdmi : BOOLEAN, connected : BOOLEAN, modes : Seq(Size), encoder : Nat, encoders : Seq(Encoder)]

\* cards[n] is /dev/dri/card<n - 1>: absent, not to be opened, or opened and KMS or not.
BoardType ==
  [cards : Seq({"absent", "denied", "other", "kms"}), conns : [Conns -> ConnectorType]]

ASSUME ModesetAssumption ==
  /\ NConns \in Nat /\ NCrtcs \in Nat /\ MaxSize \in Nat /\ MaxFails \in Nat
  /\ ImgWidth \in Nat \ {0} /\ ImgHeight \in Nat \ {0}
  /\ Boards \subseteq BoardType /\ Pictures \subseteq Size

ASSUME EncodingAssumption == \A r \in RleData : Encodes(r, ImgWidth * ImgHeight)

NoFile == [w |-> 0, h |-> 0]  \* no -f, or a file that cannot be read

VARIABLES
  board, force_hdmi, force_no_hdmi, file, animation, rle,  \* the device and the options
  pc,           \* where psplash-drm is
  i,            \* the connector being looked at
  modeset_list, \* the devices set up
  crtc,         \* each one's CRTC
  saved_crtc,   \* the devices whose saved_crtc is not NULL
  todo,         \* the devices that the loop over modeset_list has still to visit
  iter,         \* the one in hand
  drm_open,     \* is drm_fd open?
  buffers, fbs, \* the kernel's: dumb buffers, framebuffers,
  scan,         \* what each CRTC scans out (0: nothing of ours),
  maps,         \* the process's mappings
  shown,        \* what was drawn last on each screen
  fails, caught \* the calls that failed; has a signal been caught?

options == <<board, force_hdmi, file, animation, rle>>
devVars == <<modeset_list, crtc, saved_crtc, todo, iter>>
kernel  == <<drm_open, buffers, fbs, scan, maps>>
vars    == <<options, force_no_hdmi, pc, i, devVars, kernel, shown, fails, caught>>

Ended == pc \in {"failed", "exited", "crashed"}

Init ==
  /\ board \in Boards
  /\ force_hdmi \in BOOLEAN /\ force_no_hdmi \in BOOLEAN
  /\ file \in Pictures \union {NoFile}
  /\ animation \in BOOLEAN
  /\ rle \in RleData
  /\ pc = "card" /\ i = 1
  /\ modeset_list = {} /\ saved_crtc = {} /\ todo = {} /\ iter = 0
  /\ crtc = [c \in Conns |-> 0]
  /\ drm_open = FALSE
  /\ buffers = {} /\ fbs = {} /\ maps = {}
  /\ scan = [x \in Crtcs |-> 0]
  /\ shown = [c \in Conns |-> "nothing"]
  /\ fails = 0 /\ caught = FALSE

-----------------------------------------------------------------------------
(* Finding what to set up *)

\* A call of the device that succeeds, and one that does not.  On a closed
\* descriptor none succeeds.
Succeeds == drm_open /\ UNCHANGED fails
Fails    == IF drm_open THEN fails < MaxFails /\ fails' = fails + 1 ELSE UNCHANGED fails

Conn(c) == board.conns[c]

Wanted(c) == CASE force_hdmi    -> Conn(c).hdmi
               [] force_no_hdmi -> ~ Conn(c).hdmi
               [] OTHER         -> TRUE

Usable(c) == Wanted(c) /\ Conn(c).connected /\ Conn(c).modes # <<>>

\* The first mode not above the limit; the first of all if there is none.
Mode(c) ==
  LET modes == Conn(c).modes
      Low   == {m \in DOMAIN modes : modes[m].h <= MaxSize}
  IN  IF Low = {} THEN modes[1] ELSE modes[CHOOSE m \in Low : \A k \in Low : m <= k]

Used == {crtc[d] : d \in modeset_list}

\* The CRTC that c's current encoder is bound to.
Current(c) ==
  IF Conn(c).encoder \in DOMAIN Conn(c).encoders THEN Conn(c).encoders[Conn(c).encoder].crtc ELSE 0

\* The CRTCs that c can be given, by encoder.
Free(c, got) ==
  {p \in (got \ {0}) \X Crtcs : p[2] \in Conn(c).encoders[p[1]].possible /\ p[2] \notin Used}

\* The calls of GetEncoder for c.
Asked(c) ==
  DOMAIN Conn(c).encoders \union (IF Conn(c).encoder # 0 THEN {0} ELSE {})

\* Mutation of FindCrtc: the current encoder's CRTC is taken without a look at the list.
FindCrtcBlind(c, got, x) ==
  IF 0 \in got /\ Current(c) # 0 THEN x = Current(c)
  ELSE \E p \in Free(c, got) : x = p[2]

\* Mutation of FindCrtc: only the first encoder is tried.
FindCrtcFirst(c, got, x) ==
  IF 0 \in got /\ Current(c) # 0 /\ Current(c) \notin Used THEN x = Current(c)
  ELSE \E p \in Free(c, got \intersect {1}) : x = p[2]

\* x is the CRTC found for c when GetEncoder answers the calls got: 0 is the
\* one for the current encoder.
FindCrtc(c, got, x) ==
  IF 0 \in got /\ Current(c) # 0 /\ Current(c) \notin Used THEN x = Current(c)
  ELSE \E p \in Free(c, got) :
         /\ \A q \in Free(c, got) : p[1] < q[1] \/ (p[1] = q[1] /\ p[2] <= q[2])
         /\ x = p[2]

-----------------------------------------------------------------------------
(* modeset_prepare *)

\* get_valid_dri_card tries card0 to card7; the options; the signal handlers.
Start ==
  /\ pc = "card"
  /\ pc' = IF \E n \in DOMAIN board.cards : n <= 8 /\ board.cards[n] = "kms"
           THEN "open" ELSE "failed"
  /\ force_no_hdmi' = (force_no_hdmi /\ ~ force_hdmi)
  /\ UNCHANGED <<options, i, devVars, kernel, shown, fails, caught>>

\* open, and GetCap: can the device make dumb buffers?
ModesetOpen ==
  /\ pc = "open"
  /\ \/ drm_open' = TRUE /\ pc' = "resources" /\ UNCHANGED fails
     \/ fails < MaxFails /\ fails' = fails + 1 /\ pc' = "failed" /\ UNCHANGED drm_open
  /\ UNCHANGED <<options, force_no_hdmi, i, devVars, buffers, fbs, scan, maps, shown, caught>>

GetResources ==
  /\ pc = "resources"
  /\ \/ Succeeds /\ pc' = "connector"
     \/ Fails /\ pc' = "close"
  /\ UNCHANGED <<options, force_no_hdmi, i, devVars, kernel, shown, caught>>

\* Mutation of Skip: i is incremented at the continue too.
SkipTwice == i' = i + 2 /\ pc' = "connector" /\ UNCHANGED crtc

\* Mutation of Skip: the same connector again.
SkipNot == i' = i /\ pc' = "connector" /\ UNCHANGED crtc

\* On to the next connector.
Skip == i' = i + 1 /\ pc' = "connector" /\ UNCHANGED crtc

\* One connector, up to the CRTC chosen for it.  GetEncoder may fail for some
\* of its encoders, which are then passed over.
Connector ==
  /\ pc = "connector" /\ i <= NConns
  /\ \/ Fails /\ Skip
     \/ Succeeds /\ ~ Usable(i) /\ Skip
     \/ /\ Usable(i)
        /\ \E got \in SUBSET Asked(i) :
             /\ IF got = Asked(i) THEN Succeeds ELSE drm_open /\ Fails
             /\ \/ \E x \in Crtcs : /\ FindCrtc(i, got, x)
                                    /\ crtc' = [crtc EXCEPT ![i] = x]
                                    /\ pc' = "create" /\ UNCHANGED i
                \/ (\A x \in Crtcs : ~ FindCrtc(i, got, x)) /\ Skip
  /\ UNCHANGED <<options, force_no_hdmi, modeset_list, saved_crtc, todo, iter, kernel, shown, caught>>

CreateDumb ==
  /\ pc = "create"
  /\ \/ /\ Succeeds
        /\ buffers' = buffers \union {i}
        /\ pc' = "addfb" /\ UNCHANGED <<i, crtc>>
     \/ Fails /\ Skip /\ UNCHANGED buffers
  /\ UNCHANGED <<options, force_no_hdmi, modeset_list, saved_crtc, todo, iter, drm_open, fbs, scan,
                 maps, shown, caught>>

AddFB ==
  /\ pc = "addfb"
  /\ \/ Succeeds /\ fbs' = fbs \union {i} /\ pc' = "map"
     \/ Fails /\ pc' = "err_destroy" /\ UNCHANGED fbs
  /\ UNCHANGED <<options, force_no_hdmi, i, devVars, drm_open, buffers, scan, maps, shown, caught>>

\* MAP_DUMB and mmap; the device goes to the head of modeset_list.
Map ==
  /\ pc = "map"
  /\ \/ /\ Succeeds
        /\ maps' = maps \union {i}
        /\ modeset_list' = modeset_list \union {i}
        /\ shown' = [shown EXCEPT ![i] = "black"]
        /\ Skip
     \/ /\ Fails
        /\ pc' = "err_fb"
        /\ UNCHANGED <<i, modeset_list, crtc, maps, shown>>
  /\ UNCHANGED <<options, force_no_hdmi, saved_crtc, todo, iter, drm_open, buffers, fbs, scan, caught>>

\* What the kernel removes with a framebuffer: a CRTC that scans it out goes off.
RmFB(c) ==
  IF drm_open
  THEN /\ fbs' = fbs \ {c}
       /\ scan' = [x \in Crtcs |-> IF scan[x] = c THEN 0 ELSE scan[x]]
  ELSE UNCHANGED <<fbs, scan>>

\* Mutation of ErrFb: it does not fall through.
ErrFbOnly ==
  /\ pc = "err_fb"
  /\ RmFB(i)
  /\ Skip
  /\ UNCHANGED <<options, force_no_hdmi, modeset_list, saved_crtc, todo, iter, drm_open, buffers,
                 maps, shown, fails, caught>>

ErrFb ==
  /\ pc = "err_fb"
  /\ RmFB(i)
  /\ pc' = "err_destroy"
  /\ UNCHANGED <<options, force_no_hdmi, i, devVars, drm_open, buffers, maps, shown, fails, caught>>

ErrDestroy ==
  /\ pc = "err_destroy"
  /\ buffers' = buffers \ {i}
  /\ Skip
  /\ UNCHANGED <<options, force_no_hdmi, modeset_list, saved_crtc, todo, iter, drm_open, fbs, scan,
                 maps, shown, fails, caught>>

\* After the last connector.
Prepared ==
  /\ pc = "connector" /\ i > NConns
  /\ todo' = modeset_list
  /\ pc' = "getcrtc"
  /\ UNCHANGED <<options, force_no_hdmi, i, modeset_list, crtc, saved_crtc, iter, kernel, shown,
                 fails, caught>>

-----------------------------------------------------------------------------
(* main: the screens are switched on, drawn on, and given back *)

Newest(c, devs) == c \in devs /\ \A d \in devs : d <= c

GetCrtc ==
  /\ pc = "getcrtc"
  /\ IF todo = {}
     THEN /\ pc' = IF animation THEN "frame" ELSE "draw"
          /\ UNCHANGED <<saved_crtc, iter, fails>>
     ELSE /\ \E c \in todo :
               /\ Newest(c, todo) /\ iter' = c
               /\ \/ Succeeds /\ saved_crtc' = saved_crtc \union {c}
                  \/ Fails /\ UNCHANGED saved_crtc
          /\ pc' = "setcrtc"
  /\ UNCHANGED <<options, force_no_hdmi, i, modeset_list, crtc, todo, kernel, shown, caught>>

\* A failure is printed, and the splash goes on.
SetCrtc ==
  /\ pc = "setcrtc"
  /\ \/ Succeeds /\ scan' = [scan EXCEPT ![crtc[iter]] = iter]
     \/ Fails /\ UNCHANGED scan
  /\ todo' = todo \ {iter}
  /\ pc' = "getcrtc"
  /\ UNCHANGED <<options, force_no_hdmi, i, modeset_list, crtc, saved_crtc, iter, drm_open, buffers,
                 fbs, maps, shown, caught>>

\* The process dies: the kernel takes back all it had.
Die ==
  /\ pc' = "crashed"
  /\ drm_open' = FALSE
  /\ buffers' = {} /\ fbs' = {} /\ maps' = {}
  /\ scan' = [x \in Crtcs |-> 0]

\* The animation loop: draw_frame on each screen, clipped to it, and a look at
\* the FIFO; a frame that cannot be loaded ends it, and so may the last frame.
Frame ==
  /\ pc = "frame"
  /\ IF todo = {}
     THEN /\ todo' = modeset_list
          /\ pc' \in {"frame", "draw"}
          /\ UNCHANGED shown
     ELSE \/ /\ \E c \in todo : /\ Newest(c, todo)
                                /\ todo' = todo \ {c}
                                /\ shown' = [shown EXCEPT ![c] = "frame"]
             /\ pc' \in {"frame", "off"}
          \/ pc' = "draw" /\ UNCHANGED <<todo, shown>>
  /\ UNCHANGED <<options, force_no_hdmi, i, modeset_list, crtc, saved_crtc, iter, kernel, fails,
                 caught>>

\* Mutation of BuiltIn: never turned.
BuiltInFlat(c) == [w |-> ImgWidth, h |-> ImgHeight]

\* The built-in picture, turned by 90 degrees for a portrait screen.
BuiltIn(c) ==
  IF Mode(c).w >= Mode(c).h THEN [w |-> ImgWidth, h |-> ImgHeight]
  ELSE [w |-> ImgHeight, h |-> ImgWidth]

Fits(img, c) == img.w <= Mode(c).w /\ img.h <= Mode(c).h

\* Mutation of Fallback: each screen has its own.
FallbackAlone(c) == animation \/ file = NoFile \/ ~ Fits(file, c)

\* bad_size, or no picture: the built-in one is drawn, on all screens.
Fallback(c) ==
  animation \/ file = NoFile \/ \E d \in modeset_list : ~ Fits(file, d)

\* Background and picture.  The built-in one is not compared with the screen:
\* it may be drawn outside of it, which may crash.
Draw ==
  /\ pc = "draw"
  /\ LET Outside == {c \in modeset_list : Fallback(c) /\ ~ Fits(BuiltIn(c), c)} IN
     \/ /\ shown' = [c \in Conns |-> IF c \notin modeset_list THEN shown[c]
                                     ELSE IF c \in Outside THEN "garbled"
                                     ELSE IF Fallback(c) THEN "builtin" ELSE "picture"]
        /\ pc' = "wait"
        /\ UNCHANGED kernel
     \/ Outside # {} /\ Die /\ UNCHANGED shown
  /\ UNCHANGED <<options, force_no_hdmi, i, devVars, fails, caught>>

\* QUIT, two seconds, or a signal.
Told ==
  /\ pc = "wait"
  /\ pc' = "off"
  /\ UNCHANGED <<options, force_no_hdmi, i, devVars, kernel, shown, fails, caught>>

\* Mutation of Off: the CRTC is left as it is.
OffNot ==
  /\ pc = "off" /\ modeset_list # {}
  /\ \E c \in modeset_list : Newest(c, modeset_list) /\ iter' = c
                             /\ modeset_list' = modeset_list \ {c}
  /\ pc' = "unmap"
  /\ UNCHANGED <<options, force_no_hdmi, i, crtc, saved_crtc, todo, kernel, shown, fails, caught>>

\* Mutation of Off: the device stays on the list.
OffKeeps ==
  /\ pc = "off" /\ modeset_list # {}
  /\ \E c \in modeset_list : Newest(c, modeset_list) /\ iter' = c
                             /\ scan' = [scan EXCEPT ![crtc[c]] = 0]
  /\ pc' = "unmap"
  /\ UNCHANGED <<options, force_no_hdmi, i, modeset_list, crtc, saved_crtc, todo, drm_open, buffers,
                 fbs, maps, shown, fails, caught>>

\* modeset_cleanup, for the device at the head of the list: its CRTC, which it
\* takes from saved_crtc, goes off.
Off ==
  /\ pc = "off" /\ modeset_list # {}
  /\ \E c \in modeset_list :
       /\ Newest(c, modeset_list)
       /\ modeset_list' = modeset_list \ {c} /\ iter' = c
       /\ IF c \in saved_crtc
          THEN /\ \/ Succeeds /\ scan' = [scan EXCEPT ![crtc[c]] = 0]
                  \/ Fails /\ UNCHANGED scan
               /\ pc' = "unmap"
               /\ UNCHANGED <<drm_open, buffers, fbs, maps>>
          ELSE Die /\ UNCHANGED fails
  /\ UNCHANGED <<options, force_no_hdmi, i, crtc, saved_crtc, todo, shown, caught>>

Unmap ==
  /\ pc = "unmap"
  /\ maps' = maps \ {iter}
  /\ pc' = "rmfb"
  /\ UNCHANGED <<options, force_no_hdmi, i, devVars, drm_open, buffers, fbs, scan, shown, fails,
                 caught>>

CleanupRmFB ==
  /\ pc = "rmfb"
  /\ RmFB(iter)
  /\ pc' = "destroy"
  /\ UNCHANGED <<options, force_no_hdmi, i, devVars, drm_open, buffers, maps, shown, fails, caught>>

CleanupDestroy ==
  /\ pc = "destroy"
  /\ buffers' = buffers \ {iter}
  /\ pc' = "off"
  /\ UNCHANGED <<options, force_no_hdmi, i, devVars, drm_open, fbs, scan, maps, shown, fails, caught>>

Cleaned ==
  /\ pc = "off" /\ modeset_list = {}
  /\ pc' = "close"
  /\ UNCHANGED <<options, force_no_hdmi, i, devVars, kernel, shown, fails, caught>>

\* What a descriptor still owned goes with it.
CloseDrm == /\ drm_open' = FALSE
            /\ buffers' = {} /\ fbs' = {}
            /\ scan' = [x \in Crtcs |-> 0]

Close ==
  /\ pc = "close"
  /\ CloseDrm
  /\ pc' = "exited"
  /\ UNCHANGED <<options, force_no_hdmi, i, devVars, maps, shown, fails, caught>>

Main ==
  \/ Start \/ ModesetOpen \/ GetResources \/ Connector \/ CreateDumb \/ AddFB \/ Map \/ ErrFb
  \/ ErrDestroy \/ Prepared \/ GetCrtc \/ SetCrtc \/ Frame \/ Draw \/ Off \/ Unmap \/ CleanupRmFB
  \/ CleanupDestroy \/ Cleaned \/ Close

\* splash_exit cleans up, closes, and returns.  A device without a saved_crtc
\* crashes it; what main was doing with a device just freed crashes, or fails on
\* the closed descriptor and finds the list empty.
Signal ==
  /\ ~ Ended /\ pc # "card" /\ ~ caught
  /\ caught' = TRUE
  /\ \/ /\ modeset_list \subseteq saved_crtc
        /\ CloseDrm
        /\ maps' = maps \ modeset_list
        /\ modeset_list' = {} /\ todo' = {}
        /\ UNCHANGED <<pc, crtc, saved_crtc, iter>>
     \/ /\ modeset_list # {}
        /\ ~ (modeset_list \subseteq saved_crtc) \/ pc \in {"setcrtc", "frame", "draw"}
        /\ Die
        /\ UNCHANGED devVars
  /\ UNCHANGED <<options, force_no_hdmi, i, shown, fails>>

Next == Main \/ Told \/ Signal

\* psplash-drm gets the CPU.  Nobody has to tell it to quit.
Spec == Init /\ [][Next]_vars /\ WF_vars(Main)

-----------------------------------------------------------------------------
(* Properties. *)

Places ==
  {"card", "open", "resources", "connector", "create", "addfb", "map", "err_fb", "err_destroy",
   "getcrtc", "setcrtc", "frame", "draw", "wait", "off", "unmap", "rmfb", "destroy", "close",
   "failed", "exited", "crashed"}

Layers == {"nothing", "black", "frame", "picture", "builtin", "garbled"}

FlagsOK ==
  /\ force_hdmi \in BOOLEAN /\ force_no_hdmi \in BOOLEAN /\ animation \in BOOLEAN
  /\ drm_open \in BOOLEAN /\ caught \in BOOLEAN

PlaceOK ==
  /\ board \in Boards /\ rle \in RleData /\ file \in Pictures \union {NoFile}
  /\ pc \in Places
  /\ i \in 1 .. NConns + 1 /\ iter \in 0 .. NConns
  /\ fails \in 0 .. MaxFails

ListOK ==
  /\ modeset_list \subseteq Conns /\ saved_crtc \subseteq Conns /\ todo \subseteq Conns
  /\ crtc \in [Conns -> 0 .. NCrtcs]
  /\ shown \in [Conns -> Layers]

KernelOK ==
  /\ buffers \subseteq Conns /\ fbs \subseteq Conns /\ maps \subseteq Conns
  /\ scan \in [Crtcs -> 0 .. NConns]

\* Type correctness.
TypeOK == FlagsOK /\ PlaceOK /\ ListOK /\ KernelOK

\* The CRTCs that c's encoders can be, or are, bound to.
Allowed(c) ==
  ({Current(c)} \ {0}) \union UNION {Conn(c).encoders[e].possible : e \in DOMAIN Conn(c).encoders}

\* No CRTC is given to two screens (modeset_find_crtc looks through the list of
\* those that have one), and none to a connector it cannot drive.
CrtcExclusive ==
  \A c \in modeset_list : /\ crtc[c] \in Allowed(c)
                          /\ \A d \in modeset_list : c # d => crtc[c] # crtc[d]

\* The device whose buffer, framebuffer or mapping is in hand at this step.
Holds(places, c) == pc \in places /\ c = (IF pc \in {"unmap", "rmfb", "destroy"} THEN iter ELSE i)

\* Every buffer, framebuffer and mapping is that of a device on the list or of
\* the one being made or taken down, whatever call failed before: no error path
\* of modeset_create_fb and no turn of modeset_cleanup forgets one.  Once the
\* device is closed there is nothing left, and no CRTC shows anything of ours.
NothingLost ==
  /\ buffers = IF ~ drm_open THEN {}
               ELSE modeset_list \union
                    {c \in Conns : Holds({"addfb", "map", "err_fb", "err_destroy", "unmap", "rmfb",
                                          "destroy"}, c)}
  /\ fbs = IF ~ drm_open THEN {}
           ELSE modeset_list \union
                {c \in Conns : Holds({"map", "err_fb", "unmap", "rmfb"}, c)}
  /\ pc # "crashed" => maps = modeset_list \union {c \in Conns : Holds({"unmap"}, c)}
  /\ \A x \in Crtcs : scan[x] \in fbs \union {0}

\* A framebuffer on the screen is never removed under it: its CRTC is switched
\* off before ("do not restore saved CRTC configuration but clear it").
OffBeforeFree ==
  [][\A c \in fbs \ fbs' : drm_open' /\ fails' = 0 => \A x \in Crtcs : scan[x] # c]_vars

\* A usable screen stays dark only when every CRTC it could have is in use: a
\* connector or encoder that is passed over costs the others nothing.
EveryScreenLit ==
  pc \in {"frame", "draw", "wait"} /\ fails = 0 /\ ~ caught =>
    \A c \in Conns : Usable(c) =>
      IF c \in modeset_list THEN scan[crtc[c]] = c ELSE Allowed(c) \subseteq Used

\* The cells that the built-in picture fills on c's screen.
BuiltInCells(c) ==
  LET img == BuiltIn(c) IN
  Cells(Centre(Mode(c).w, img.w), Centre(Mode(c).h, img.h), img.w,
        Decoded(rle, img.w * img.h * BytesPerPixel))

\* The built-in picture is drawn whole and in the middle of the screen: the
\* bound on its encoding cuts nothing off as long as the encoding saves space,
\* or costs no more than two header bytes.
BuiltInWhole ==
  \A c \in modeset_list : shown[c] = "builtin" =>
    \E x, y \in 0 .. Most(Mode(c).w, Mode(c).h) :
      /\ BuiltInCells(c) = Rectangle(x, y, BuiltIn(c).w, BuiltIn(c).h)
      /\ Mode(c).w - BuiltIn(c).w - 2 * x \in {0, 1}
      /\ Mode(c).h - BuiltIn(c).h - 2 * y \in {0, 1}

\* All the screens end up with the same picture, and the file's only if it is
\* smaller than each: "use fallback picture" goes for all.
ScreensAgree ==
  pc = "wait" => \A c, d \in modeset_list :
    \/ shown[c] = shown[d] /\ (shown[c] = "picture" => Fits(file, c))
    \/ "garbled" \in {shown[c], shown[d]} /\ "picture" \notin {shown[c], shown[d]}

\* What can crash the splash: a signal, a failed GetCrtc when it cleans up, or
\* a screen that the built-in picture fits in neither way.  Nothing else does.
CrashReasons ==
  pc = "crashed" => caught \/ fails > 0 \/ \E c \in modeset_list :
    Least(Mode(c).w, Mode(c).h) < ImgHeight \/ Most(Mode(c).w, Mode(c).h) < ImgWidth

\* Whatever is plugged in, and whatever fails, the set-up comes to an end.
SetsUp == <>(pc \in {"frame", "wait"} \/ Ended)

\* A splash told to quit gives all its screens back and ends.
GivesBack == pc = "off" ~> Ended
=============================================================================
