-------------------------- MODULE CameraParameters --------------------------
(***************************************************************************)
(* The parameters of the camera: setParameters() and                       *)
(* initDefaultParameters() of libcamera/SecCameraHWInterface.cpp and the   *)
(* setters of libcamera/SecCamera.cpp.                                     *)
(*                                                                         *)
(* A setting is kept three times: in mParameters, which getParameters()    *)
(* reports; in the SecCamera object, which outlives the HAL object and     *)
(* sends a setting only when it differs from what it has stored and        *)
(* preview has started; and in the sensor.  startPreview() sends all of    *)
(* them.  The subject is how the three, and what has been laid out for     *)
(* frames of one size, go apart and come together again.                   *)
(*                                                                         *)
(* Each HAL call is one step: CameraService serialises them, and that the  *)
(* preview thread has stopped when a stop returns is what CameraPreview    *)
(* shows.  Memory and window calls do not fail here.                       *)
(***************************************************************************)
EXTENDS SecCamera, Sequences, FiniteSets

CONSTANTS
  Plain,        \* the settings that are validated, set and reported alone
  PlainValues,  \* the values these can have
  DefaultValue, \* the one initDefaultParameters() gives them
  SceneNames, FlashNames, FocusNames,  \* what a client may ask for
  Sizes,        \* preview sizes
  BackSize, FrontSize,  \* the largest ones of the two cameras
  KeepsSize,    \* TRUE: clients keep the size while preview is on
  MaxOpens,     \* bound: how often a camera is opened
  MaxEdits,     \* bound: in how many keys a request differs from the last report
  MaxFaults     \* bound: how many settings of a request the driver refuses

Unset == "unset"      \* the -1 of SecCamera's constructor
Absent == "absent"    \* a key that is not in the parameters
Invalid == "invalid"  \* what no branch recognises

ASSUME ParametersAssumption ==
  /\ Plain \subseteq {"white_balance", "iso", "effect"}
  /\ DefaultValue \in PlainValues
  /\ {Unset, Absent, Invalid} \cap PlainValues = {}
  /\ {Unset, Absent, Invalid} \cap Sizes = {}
  /\ {BackSize, FrontSize} \subseteq Sizes
  /\ KeepsSize \in BOOLEAN
  /\ MaxOpens \in Nat
  /\ MaxEdits \in Nat
  /\ MaxFaults \in Nat

VARIABLES
  open,         \* which camera the HAL object is for: "none", "back", "front"
  hal,          \* mParameters
  accepted,     \* what the last setParameters() returned was NO_ERROR
  dev,          \* the SecCamera object and the sensor
  mPreviewRunning,
  mPreviewStartDeferred,
  mPreviewWindow,      \* there is a window
  geometry,            \* the size its buffers have
  heap,                \* the frame size that mPreviewHeap is for
  atWork,              \* the preview thread takes frames
  mRecordRunning,
  mCaptureInProgress,
  opens                \* bound: how often a camera was opened

preview == <<mPreviewRunning, mPreviewStartDeferred, mPreviewWindow, geometry,
             heap, atWork>>
vars == <<open, hal, accepted, dev, preview, mRecordRunning, mCaptureInProgress,
          opens>>

Settings == Plain \cup {"scene_mode", "focus_mode", "flash_mode"}

-----------------------------------------------------------------------------
(* SecCamera and the sensor.  Fields of dev:                                 *)
(*   cam     the driver state of module SecCamera                            *)
(*   size    m_preview_width and m_preview_height                            *)
(*   frames  the size the preview node was last started with                 *)
(*   stored  m_params                                                        *)
(*   sensor  what the sensor was last told                                   *)
(*   missed  history: settings the sensor was to be told, but for a failure  *)

\* SecCamera's constructor.
NewDevice ==
  [cam |-> NewCamera, size |-> Unset, frames |-> Unset,
   stored |-> [s \in Settings |-> Unset], sensor |-> [s \in Settings |-> Unset],
   missed |-> {}]

(* The setters: those of the settings in "want" that differ are stored, and  *)
(* then, once preview has started, sent to the sensor.  The driver refuses   *)
(* the ones in "bad", and these the setters report.                          *)
Differ(d, want) == {s \in DOMAIN want : d.stored[s] # want[s]}
Sent(d, want) == IF d.cam.started THEN Differ(d, want) ELSE {}
Refused(d, want, bad) == Sent(d, want) \cap bad

Put(d, want, bad) ==
  LET told == Sent(d, want) \ bad
  IN  [d EXCEPT !.stored = [s \in Settings |-> IF s \in DOMAIN want THEN want[s] ELSE @[s]],
                !.sensor = [s \in Settings |-> IF s \in told THEN want[s] ELSE @[s]],
                !.missed = (@ \ told) \cup Refused(d, want, bad)]

\* Which of the settings in S the driver may refuse.
Failures(S) == IF DriverFaults THEN SUBSET S ELSE {{}}

Only(s, v) == [x \in {s} |-> v]

(* startPreview() sends the settings in this order, to the back camera, and  *)
(* then to both the whole of m_params with fimc_v4l2_s_parm().               *)
SendOrder == <<"scene_mode", "white_balance", "effect", "focus_mode", "iso", "flash_mode">>

\* The settings that the first calls have sent when the next one fails.
Prefixes(camera) ==
  IF camera = "back"
    THEN {{SendOrder[i] : i \in 1..n} \cap Settings : n \in 0..Len(SendOrder)}
    ELSE {{}, Settings}

Tell(d, S) ==
  [d EXCEPT !.sensor = [s \in Settings |-> IF s \in S THEN d.stored[s] ELSE @[s]],
            !.missed = {s \in Settings \ S : s \in @ \/ d.sensor[s] # d.stored[s]}]

(* startPreview().  A call that fails after the stream-on leaves the stream  *)
(* running and the rest of the settings unsent.                              *)
StartSensor(camera, d) ==
  UNION {LET on == [d EXCEPT !.cam = r.cam,
                             !.frames = IF r.cam.streaming THEN d.size ELSE @]
         IN  CASE r.cam = d.cam               -> {[ret |-> r.ret, dev |-> d]}
               [] r.cam # d.cam /\ r.ret = 0  -> {[ret |-> 0, dev |-> Tell(on, Settings)]}
               [] r.cam # d.cam /\ r.ret # 0  -> {[ret |-> r.ret, dev |-> Tell(on, S)] :
                                                    S \in Prefixes(camera)} :
           r \in StartPreview(d.cam)}

(* What a sensor at rest was told is of no account, since startPreview()     *)
(* sends everything; only the torch may burn.                                *)
Idle(d) ==
  LET burns == {s \in {"flash_mode"} : d.sensor[s] = "torch"}
  IN  [d EXCEPT !.sensor = [s \in Settings |-> IF s \in burns THEN @[s] ELSE Unset],
                !.missed = @ \cap burns,
                !.frames = Unset]

(* stopPreview() puts the torch out first. *)
StopSensor_Bug(d) ==
  UNION {LET x == [d EXCEPT !.cam = r.cam]
         IN  IF d.cam.started /\ d.stored["flash_mode"] = "torch"
               THEN {Put(x, Only("flash_mode", "off"), bad) :
                       bad \in Failures({"flash_mode"})}
               ELSE {x} : r \in StopPreview(d.cam)}
StopSensor(d) ==
  LET dark == IF d.cam.started /\ d.stored["flash_mode"] = "torch"
                THEN {Put(d, Only("flash_mode", "off"), bad) :
                        bad \in Failures({"flash_mode"})}
                ELSE {d}
  IN  {[(IF r.cam.streaming THEN x ELSE Idle(x)) EXCEPT !.cam = r.cam] :
         x \in dark, r \in StopPreview(d.cam)}

(* stopRecord() makes the lens of the back camera focus again after          *)
(* continuous focus, by way of another focus mode.  Whether the recording    *)
(* node streams is the subject of CameraRecording and left out here.         *)
NoStream(c) == [c EXCEPT !.recStreaming = FALSE]

Refocus_Bug(d) ==
  {[Put(d, Only("focus_mode", "macro"), b) EXCEPT !.stored = d.stored] :
     b \in Failures({"focus_mode"})}
Refocus(d) ==
  {Put(Put(d, Only("focus_mode", "macro"), b1),
       Only("focus_mode", d.stored["focus_mode"]), b2) :
     b1 \in Failures({"focus_mode"}), b2 \in Failures({"focus_mode"})}

StopRecorder(camera, d, r) ==
  {[x EXCEPT !.cam = NoStream(r.cam)] :
     x \in IF camera = "back" /\ d.cam.recStarted /\ ~r.cam.recStarted
             THEN Refocus(d) ELSE {d}}

\* A sensor that is powered off, or restarted, has forgotten what it was told.
Forget(d, S) ==
  [d EXCEPT !.sensor = [s \in Settings |-> Unset], !.missed = S]

-----------------------------------------------------------------------------
(* The HAL object's parameters.  hal.val has the keys of a request, with the *)
(* value that getParameters() reports; the others are                        *)
(*   flashes    KEY_SUPPORTED_FLASH_MODES                                    *)
(*   distances  KEY_FOCUS_DISTANCES, by the focus mode they are for          *)

Keys == Settings \cup {"size", "fps"}

AllFlashes == {"on", "off", "auto", "torch"}
BackFocusModes == {"auto", "macro", "infinity"}
AutoFlashScenes == {"portrait", "party"}
NoFlashScenes == {"landscape", "sports", "beach", "snow", "sunset", "night",
                  "fireworks", "candlelight"}
KnownScenes == {"auto"} \cup AutoFlashScenes \cup NoFlashScenes

\* initDefaultParameters().  Scene and flash are keys of the back camera only.
Defaults(camera) ==
  LET back == camera = "back"
  IN  [val |-> [k \in Keys |->
                  CASE k \in Plain       -> DefaultValue
                    [] k = "scene_mode"  -> IF back THEN "auto" ELSE Absent
                    [] k = "flash_mode"  -> IF back THEN "off" ELSE Absent
                    [] k = "focus_mode"  -> IF back THEN "auto" ELSE "fixed"
                    [] k = "size"        -> IF back THEN BackSize ELSE FrontSize
                    [] k = "fps"         -> IF back THEN "15-30" ELSE "7.5-30"],
       flashes |-> IF back THEN AllFlashes ELSE {},
       distances |-> IF back THEN "auto" ELSE "fixed"]

(* What a client may submit for a key.  Clients start from what              *)
(* getParameters() reports, so the back camera's scene is always there.      *)
Names(camera, k) ==
  CASE k \in Plain       -> PlainValues \cup {Invalid}
    [] k = "scene_mode"  -> IF camera = "back" THEN SceneNames ELSE {Absent}
    [] k = "flash_mode"  -> IF camera = "back" THEN FlashNames ELSE {Absent}
    [] k = "focus_mode"  -> FocusNames
    [] k = "size"        -> Sizes \cup {Invalid}
    [] k = "fps"         -> IF camera = "back" THEN {"15-30", "4-30"}
                                                ELSE {"7.5-30", Invalid}

AllNames == UNION {Names(camera, k) : camera \in {"back", "front"}, k \in Keys}

\* Some keys, each with the value it is to have.
Edits ==
  [camera \in {"back", "front"} |->
     UNION {{e \in [K -> AllNames] : \A k \in K : e[k] \in Names(camera, k)} :
              K \in {K \in SUBSET Keys : Cardinality(K) <= MaxEdits}}]

\* A request is the last report with some keys changed.
Requests(camera, v) ==
  {[k \in Keys |-> IF k \in DOMAIN e THEN e[k] ELSE v[k]] : e \in Edits[camera]}

(* A scene other than "auto" decides on flash and focus; a scene that no     *)
(* branch knows does so as well.                                             *)
AskedFor(p) ==
  LET scene == p["scene_mode"]
  IN  [p EXCEPT
         !["focus_mode"] = IF scene = "auto" THEN @ ELSE "auto",
         !["flash_mode"] = CASE scene = "auto"            -> @
                             [] scene \in AutoFlashScenes -> "auto"
                             [] OTHER                     -> "off"]

\* The settings whose value some branch recognises.
Recognised_Bug(camera, v) ==
  {s \in Plain : v[s] \in PlainValues}
    \cup IF camera = "back" THEN {"scene_mode", "focus_mode", "flash_mode"} ELSE {}
Recognised(camera, v) ==
  {s \in Plain : v[s] \in PlainValues}
    \cup IF camera = "back"
           THEN {s \in {"scene_mode", "focus_mode", "flash_mode"} :
                   v[s] \in CASE s = "scene_mode" -> KnownScenes
                              [] s = "focus_mode" -> BackFocusModes
                              [] s = "flash_mode" -> AllFlashes}
           ELSE {}

\* Two scenes share a mode of the sensor.
Coded(name) == IF name \in {"beach", "snow"} THEN "beach_snow" ELSE name

\* The requested frame rates are only checked, never set.
FpsRefused(camera, h, p) ==
  IF camera = "back"
    THEN p["scene_mode"] = h.val["scene_mode"] /\ p["fps"] # h.val["fps"]
    ELSE p["fps"] = Invalid

FpsFor_Bug(camera, h, p) ==
  IF camera = "back" /\ p["scene_mode"] = "night" THEN "4-30" ELSE h.val["fps"]
FpsFor(camera, h, p) ==
  CASE camera = "front"                                  -> h.val["fps"]
    [] camera = "back" /\ p["scene_mode"] = "night"      -> "4-30"
    [] camera = "back" /\ p["scene_mode"] # "night"      -> "15-30"

FlashesFor(camera, h, scene) ==
  CASE camera = "back" /\ scene = "auto"              -> AllFlashes
    [] camera = "back" /\ scene \in AutoFlashScenes   -> {"auto"}
    [] camera = "back" /\ scene \in NoFlashScenes     -> {"off"}
    [] OTHER                                          -> h.flashes

\* set_buffers_geometry(): the buffers of the window, if there is one, follow.
GeometryFor_Bug(resize, size) == geometry
GeometryFor(resize, size) == IF resize /\ mPreviewWindow THEN size ELSE geometry

-----------------------------------------------------------------------------
(* setParameters(p), with mParameters h and device d, past its wait for a    *)
(* picture and the test of the preview format.  It goes on after each        *)
(* failure: what can be set is set, and reported.  "bad" are the settings    *)
(* that the driver refuses, with "other" for those that are not modelled.    *)
ApplyTo(camera, h, d, p, bad) ==
  LET asked   == AskedFor(p)
      good    == Recognised(camera, asked)
      want    == [s \in good |-> Coded(asked[s])]
      done    == good \ Refused(d, want, bad)
      resize  == p["size"] # Invalid /\ p["size"] # d.size
      lens    == camera = "back" /\ "focus_mode" \in good
  IN  [ok  |-> /\ p["size"] # Invalid
               /\ ~(resize /\ mPreviewWindow /\ mPreviewRunning /\ ~mPreviewStartDeferred)
               /\ Plain \subseteq good
               /\ ~FpsRefused(camera, h, p)
               /\ IF camera = "back" THEN good = Settings ELSE p["focus_mode"] = "fixed"
               /\ done = good
               /\ "other" \notin bad,
       dev |-> [Put(d, want, bad) EXCEPT !.size = IF resize THEN p["size"] ELSE @],
       geometry |-> GeometryFor(resize, p["size"]),
       hal |-> [val |-> [k \in Keys |->
                           CASE k \in done                -> asked[k]
                             [] k \in Settings \ done     -> h.val[k]
                             [] k = "size"               -> IF resize THEN p[k] ELSE h.val[k]
                             [] k = "fps"                -> FpsFor(camera, h, p)],
                flashes |-> FlashesFor(camera, h, p["scene_mode"]),
                distances |-> IF lens THEN asked["focus_mode"] ELSE h.distances]]

\* What the driver may refuse of p.
Faults(d) ==
  {bad \in Failures(IF d.cam.started THEN Settings \cup {"other"} ELSE {}) :
     Cardinality(bad \cup d.missed) <= MaxFaults \/ bad = {}}

-----------------------------------------------------------------------------
(* The calls.                                                                *)
Init ==
  /\ open = "none"
  /\ hal = Defaults("back")
  /\ accepted = FALSE
  /\ dev = NewDevice
  /\ mPreviewRunning = FALSE
  /\ mPreviewStartDeferred = FALSE
  /\ mPreviewWindow = FALSE
  /\ geometry = Unset
  /\ heap = Unset
  /\ atWork = FALSE
  /\ mRecordRunning = FALSE
  /\ mCaptureInProgress = FALSE
  /\ opens = 0

(* The constructor, when the camera can be opened: SecCamera is given all    *)
(* the defaults, as far as it will take them.                                *)
Open(camera) ==
  /\ open = "none" /\ opens < MaxOpens
  /\ \E r \in InitCamera(dev.cam) : \E bad \in Faults([dev EXCEPT !.cam = r.cam]) :
       LET h == Defaults(camera)
           a == ApplyTo(camera, h, [dev EXCEPT !.cam = r.cam], h.val, bad)
       IN  /\ r.ret = 0
           /\ hal' = a.hal
           /\ dev' = a.dev
           /\ accepted' = a.ok
  /\ open' = camera
  /\ opens' = opens + 1
  /\ UNCHANGED <<preview, mRecordRunning, mCaptureInProgress>>

SetParameters ==
  /\ open # "none" /\ ~mCaptureInProgress
  /\ \E p \in Requests(open, hal.val) : \E bad \in Faults(dev) :
       LET a == ApplyTo(open, hal, dev, p, bad)
       IN  /\ KeepsSize /\ (atWork \/ dev.cam.started) => p["size"] = dev.size
           /\ hal' = a.hal
           /\ dev' = a.dev
           /\ geometry' = a.geometry
           /\ accepted' = a.ok
  /\ UNCHANGED <<open, mPreviewRunning, mPreviewStartDeferred, mPreviewWindow,
                 heap, atWork, mRecordRunning, mCaptureInProgress, opens>>

(* A call that finds a picture being taken waits for it, and gives up in the *)
(* end with nothing changed; so does one with another preview format.        *)
RefuseParameters ==
  /\ open # "none"
  /\ accepted' = FALSE
  /\ UNCHANGED <<open, hal, dev, preview, mRecordRunning, mCaptureInProgress, opens>>

(* startPreviewInternal(): memory of a frame's size, as the driver has it,   *)
(* and on success the thread is sent to work.                                *)
StartInternal(d) ==
  \E r \in StartSensor(open, d) :
    /\ dev' = r.dev
    /\ atWork' = (r.ret = 0)
    /\ heap' = IF r.ret = 0 THEN r.dev.size ELSE heap
    /\ mPreviewStartDeferred' = (mPreviewRunning /\ mPreviewStartDeferred /\ r.ret # 0)

\* startPreview().
StartPreviewCall ==
  /\ open # "none" /\ ~mCaptureInProgress /\ ~mPreviewRunning
  /\ mPreviewRunning' = TRUE
  /\ IF mPreviewWindow
       THEN StartInternal(dev)
       ELSE mPreviewStartDeferred' = TRUE /\ UNCHANGED <<dev, heap, atWork>>
  /\ UNCHANGED <<open, hal, accepted, mPreviewWindow, geometry, mRecordRunning,
                 mCaptureInProgress, opens>>

(* The thread stops the sensor when it is told to, unless it was never       *)
(* started.  The heap is of no use until the next start replaces it.         *)
Stop ==
  IF mPreviewRunning /\ ~mPreviewStartDeferred
    THEN dev' \in StopSensor(dev) /\ atWork' = FALSE /\ heap' = Unset
    ELSE UNCHANGED <<dev, atWork, heap>>

StopPreviewCall ==
  /\ open # "none"
  /\ Stop
  /\ mPreviewRunning' = FALSE
  /\ UNCHANGED <<open, hal, accepted, mPreviewStartDeferred, mPreviewWindow, geometry,
                 mRecordRunning, mCaptureInProgress, opens>>

(* setPreviewWindow() with a window: a preview at work is stopped and stays  *)
(* so, a deferred one starts.                                                *)
SetPreviewWindow ==
  /\ open # "none"
  /\ mPreviewWindow' = TRUE
  /\ geometry' = hal.val["size"]
  /\ IF mPreviewRunning /\ mPreviewStartDeferred
       THEN StartInternal(dev) /\ UNCHANGED mPreviewRunning
       ELSE Stop /\ mPreviewRunning' = FALSE /\ UNCHANGED mPreviewStartDeferred
  /\ UNCHANGED <<open, hal, accepted, mRecordRunning, mCaptureInProgress, opens>>

\* setPreviewWindow(NULL).
ClearPreviewWindow ==
  /\ open # "none"
  /\ mPreviewWindow' = FALSE
  /\ geometry' = Unset
  /\ UNCHANGED <<open, hal, accepted, dev, mPreviewRunning, mPreviewStartDeferred,
                 heap, atWork, mRecordRunning, mCaptureInProgress, opens>>

(* The preview thread finds the camera stalled.  The stop is followed by a   *)
(* restart only if fimc_v4l2_enuminput() fails (see ResetPreview).           *)
Reset ==
  /\ atWork
  /\ \E d \in StopSensor(dev) :
       \/ dev' = d
       \/ /\ DriverFaults
          /\ \E r \in StartSensor(open, Forget(d, Settings)) : dev' = r.dev
  /\ UNCHANGED <<open, hal, accepted, preview, mRecordRunning, mCaptureInProgress, opens>>

\* takePicture() stops preview; the picture thread tries again if that failed.
TakePicture ==
  /\ open # "none" /\ ~mCaptureInProgress
  /\ Stop
  /\ mPreviewRunning' = FALSE
  /\ mCaptureInProgress' = TRUE
  /\ UNCHANGED <<open, hal, accepted, mPreviewStartDeferred, mPreviewWindow, geometry,
                 mRecordRunning, opens>>

PictureTaken ==
  /\ mCaptureInProgress
  /\ dev' \in StopSensor(dev)
  /\ mCaptureInProgress' = FALSE
  /\ UNCHANGED <<open, hal, accepted, preview, mRecordRunning, opens>>

StartRecording ==
  /\ open # "none" /\ ~mRecordRunning
  /\ \E r \in StartRecord(dev.cam) :
       /\ dev' = [dev EXCEPT !.cam = NoStream(r.cam)]
       /\ mRecordRunning' = (r.ret = 0)
  /\ UNCHANGED <<open, hal, accepted, preview, mCaptureInProgress, opens>>

StopRecording ==
  /\ mRecordRunning
  /\ \E r \in StopRecord(dev.cam) :
       /\ dev' \in StopRecorder(open, dev, r)
       /\ mRecordRunning' = (r.ret # 0)
  /\ UNCHANGED <<open, hal, accepted, preview, mCaptureInProgress, opens>>

(* release(), and the destructor: the preview thread stops the sensor on its *)
(* way out.  What SecCamera has stored stays for the next HAL object.        *)
Release ==
  /\ open # "none"
  /\ \E d \in StopSensor(dev) : \E c \in DeinitCamera(d.cam) :
       dev' = [Forget(d, {}) EXCEPT !.cam = c, !.frames = Unset]
  /\ open' = "none"
  /\ accepted' = FALSE
  /\ mPreviewRunning' = FALSE
  /\ mPreviewStartDeferred' = FALSE
  /\ mPreviewWindow' = FALSE
  /\ geometry' = Unset
  /\ heap' = Unset
  /\ atWork' = FALSE
  /\ mRecordRunning' = FALSE
  /\ mCaptureInProgress' = FALSE
  /\ UNCHANGED <<hal, opens>>

Next ==
  \/ \E camera \in {"back", "front"} : Open(camera)
  \/ SetParameters \/ RefuseParameters
  \/ StartPreviewCall \/ StopPreviewCall
  \/ SetPreviewWindow \/ ClearPreviewWindow
  \/ Reset
  \/ TakePicture \/ PictureTaken
  \/ StartRecording \/ StopRecording
  \/ Release

Spec == Init /\ [][Next]_vars

-----------------------------------------------------------------------------
\* What getParameters() can report for a key.
Reports(camera, k) ==
  LET back == camera = "back"
  IN  CASE k \in Plain       -> PlainValues
        [] k = "scene_mode"  -> IF back THEN KnownScenes ELSE {Absent}
        [] k = "flash_mode"  -> IF back THEN AllFlashes ELSE {Absent}
        [] k = "focus_mode"  -> IF back THEN BackFocusModes ELSE {"fixed"}
        [] k = "size"        -> Sizes
        [] k = "fps"         -> IF back THEN {"15-30", "4-30"} ELSE {"7.5-30"}

\* Every variable has a value the code can give it.
TypeOK ==
  /\ open \in {"none", "back", "front"}
  /\ \A k \in Keys : open # "none" => hal.val[k] \in Reports(open, k)
  /\ hal.flashes \subseteq AllFlashes
  /\ accepted \in BOOLEAN
  /\ dev.cam \in Camera
  /\ dev.size \in Sizes \cup {Unset}
  /\ dev.frames \in Sizes \cup {Unset}
  /\ dev.missed \subseteq Settings
  /\ {mPreviewRunning, mPreviewStartDeferred, mPreviewWindow, atWork,
      mRecordRunning, mCaptureInProgress} \subseteq BOOLEAN
  /\ {geometry, heap} \subseteq Sizes \cup {Unset}
  /\ opens \in 0..MaxOpens

(* While the preview thread takes frames (previewThread(), which computes a  *)
(* frame's place from SecCamera's size), the driver's frames, the heap and   *)
(* the window's buffers are of that size.                                    *)
SizesAgree ==
  atWork => /\ heap = dev.size
            /\ dev.cam.streaming => dev.frames = dev.size
            /\ mPreviewWindow => geometry = dev.size

(* While the camera streams the sensor has each setting that SecCamera has   *)
(* stored, unless a driver call for it failed: starts, stops, recordings and *)
(* parameters in any order leave nothing stored that was not sent            *)
(* (SecCamera::startPreview() and the setters).                              *)
SensorFollows ==
  dev.cam.streaming =>
    \A s \in Settings \ dev.missed : dev.sensor[s] = dev.stored[s]

(* The torch does not burn once preview has stopped (SecCamera.cpp:813-814), *)
(* unless the call that puts it out failed.                                  *)
TorchOut ==
  ~dev.cam.started =>
    dev.sensor["flash_mode"] # "torch" \/ "flash_mode" \in dev.missed

(* An accepted setParameters() leaves a report that is of one piece and what *)
(* SecCamera has, whatever the requests before it have left: the flash mode  *)
(* is one the scene supports, and frame rates and focus distances are those  *)
(* of the scene and the focus mode.  Only the torch may be out meanwhile.    *)
AcceptedReported ==
  accepted =>
    /\ open = "back" =>
         /\ hal.val["flash_mode"] \in hal.flashes
         /\ hal.val["fps"] = "4-30" <=> hal.val["scene_mode"] = "night"
         /\ hal.distances = hal.val["focus_mode"]
    /\ hal.val["size"] = dev.size
    /\ \A s \in IF open = "back" THEN Settings ELSE Plain :
         \/ dev.stored[s] = Coded(hal.val[s])
         \/ s = "flash_mode" /\ hal.val[s] = "torch" /\ dev.stored[s] = "off"
=============================================================================
