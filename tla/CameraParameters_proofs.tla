---------------------- MODULE CameraParameters_proofs ----------------------
(***************************************************************************)
(* Proofs about CameraParameters, for every set of names, values and sizes *)
(* a client may ask for, and whether or not driver calls fail: type        *)
(* correctness; that the driver has the settings the HAL reports; that the *)
(* torch is out when preview is off; that parameters accepted are reported *)
(* and, while a size is only changed with preview stopped, that window,    *)
(* heap and driver agree on the size of a frame.                           *)
(***************************************************************************)
EXTENDS CameraParameters, SecCamera_proofs

USE ParametersAssumption

-----------------------------------------------------------------------------
(* SecCamera and the sensor.                                                 *)

\* What a setting may be in SecCamera and in the sensor.
Value == {Unset, "beach_snow"} \cup PlainValues \cup KnownScenes \cup AllFlashes
           \cup BackFocusModes

Device == [cam : Camera, size : Sizes \cup {Unset}, frames : Sizes \cup {Unset},
           stored : [Settings -> Value], sensor : [Settings -> Value],
           missed : SUBSET Settings]

\* The sensor of a streaming camera has what is stored, but for what it missed.
Follows(d) ==
  d.cam.streaming => \A s \in Settings \ d.missed : d.sensor[s] = d.stored[s]

\* Where the torch burns, a started preview wants it, or the driver has failed.
TorchRight(d) ==
  d.sensor["flash_mode"] = "torch" =>
    \/ "flash_mode" \in d.missed
    \/ d.cam.started /\ d.stored["flash_mode"] = "torch"

\* Only a preview that was started streams, and in the size that is stored.
Streams(d) ==
  /\ d.cam.streaming => d.cam.started
  /\ KeepsSize /\ d.cam.streaming => d.frames = d.size

Good(d) == d \in Device /\ Streams(d) /\ Follows(d) /\ TorchRight(d)

\* What the calls that start and stop things do to what is stored: nothing, but for
\* the torch.
Keeps(d, e) ==
  /\ e.size = d.size /\ e.cam.init = d.cam.init
  /\ \A s \in Settings :
       \/ e.stored[s] = d.stored[s]
       \/ s = "flash_mode" /\ d.stored[s] = "torch" /\ e.stored[s] = "off"

\* Keeping is transitive.
LEMMA KeepsTwice ==
  ASSUME NEW d, NEW e, NEW f, Keeps(d, e), Keeps(e, f)
  PROVE  Keeps(d, f)
BY DEF Keeps

\* The fields of a device have their types.
LEMMA DeviceFields ==
  ASSUME NEW d \in Device
  PROVE  /\ d.cam \in Camera /\ d.size \in Sizes \cup {Unset}
         /\ d.frames \in Sizes \cup {Unset}
         /\ d.stored \in [Settings -> Value] /\ d.sensor \in [Settings -> Value]
         /\ d.missed \subseteq Settings
BY DEF Device

\* A device with new settings, field by field.
With(d, st, se, mi) == [d EXCEPT !.stored = st, !.sensor = se, !.missed = mi]

\* With changes the settings and nothing else.
LEMMA WithSettings ==
  ASSUME NEW d \in Device, NEW st, NEW se, NEW mi
  PROVE  LET e == With(d, st, se, mi)
         IN  /\ e.cam = d.cam /\ e.size = d.size /\ e.frames = d.frames
             /\ e.stored = st /\ e.sensor = se /\ e.missed = mi
             /\ st \in [Settings -> Value] /\ se \in [Settings -> Value]
                  /\ mi \subseteq Settings => e \in Device
BY DEF With, Device

\* Nothing has been set in a device that was never opened.
LEMMA NewDeviceGood == Good(NewDevice)
<1>1. Unset \in Value
  BY DEF Value
<1>2. NewDevice \in Device
  BY <1>1, NewCameraType DEF NewDevice, Device
<1>3. QED
  BY <1>2 DEF Good, Streams, Follows, TorchRight, NewDevice, NewCamera, Settings, Unset

\* What may be wanted: settings of a device, with values it can have.
Wanted(want) ==
  DOMAIN want \subseteq Settings /\ \A s \in DOMAIN want : want[s] \in Value

\* Sending what is wanted, whatever calls fail, leaves a device that is right.
LEMMA PutGood ==
  ASSUME NEW d, Good(d), NEW want, Wanted(want), NEW bad
  PROVE  Good(Put(d, want, bad))
<1> DEFINE e == Put(d, want, bad)
           told == Sent(d, want) \ bad
           st == [s \in Settings |-> IF s \in DOMAIN want THEN want[s] ELSE d.stored[s]]
           se == [s \in Settings |-> IF s \in told THEN want[s] ELSE d.sensor[s]]
           mi == (d.missed \ told) \cup Refused(d, want, bad)
<1>1. d \in Device
  BY DEF Good
<1>0. e = With(d, st, se, mi)
  BY DEF Put, With
<1> HIDE DEF e, st, se, mi
<1>2. /\ e.cam = d.cam /\ e.size = d.size /\ e.frames = d.frames
      /\ e.stored = st /\ e.sensor = se /\ e.missed = mi
      /\ st \in [Settings -> Value] /\ se \in [Settings -> Value]
           /\ mi \subseteq Settings => e \in Device
  BY <1>0, <1>1, WithSettings
<1> USE DEF st, se, mi
<1>3. \A s \in told : s \in DOMAIN want /\ d.cam.started
  BY DEF Sent, Differ
<1>4. \A s \in Refused(d, want, bad) : s \in DOMAIN want
  BY DEF Refused, Sent, Differ
<1>5. e \in Device
  <2>1. e.stored \in [Settings -> Value]
    BY <1>1, <1>2, DeviceFields DEF Wanted
  <2>2. e.sensor \in [Settings -> Value]
    BY <1>1, <1>2, <1>3, DeviceFields DEF Wanted
  <2>3. e.missed \subseteq Settings
    BY <1>1, <1>2, <1>4, DeviceFields DEF Wanted
  <2>4. QED
    BY <1>2, <2>1, <2>2, <2>3
<1>6. \A s \in DOMAIN want :
        d.cam.started =>
          \/ d.stored[s] = want[s] /\ s \notin told
          \/ s \in told
          \/ s \in e.missed
  BY <1>2 DEF Sent, Differ, Refused
<1>7. Follows(e)
  BY <1>1, <1>2, <1>3, <1>6 DEF Good, Streams, Follows, Wanted
<1>8. TorchRight(e)
  <2>1. "flash_mode" \in Settings
    BY DEF Settings
  <2>2. CASE "flash_mode" \in told
    BY <1>2, <1>3, <2>1, <2>2 DEF TorchRight
  <2>3. CASE "flash_mode" \notin told
    BY <1>2, <1>3, <1>6, <2>1, <2>3 DEF Good, TorchRight
  <2>4. QED
    BY <2>2, <2>3
<1>9. QED
  BY <1>2, <1>5, <1>7, <1>8 DEF Good, Streams, e

-----------------------------------------------------------------------------
(* Starting and stopping.                                                    *)

\* Sending what is stored leaves nothing else changed.
LEMMA TellFields ==
  ASSUME NEW d \in Device, NEW S
  PROVE  LET e == Tell(d, S)
         IN  /\ e.cam = d.cam /\ e.size = d.size /\ e.frames = d.frames
             /\ e.stored = d.stored
             /\ e.sensor = [s \in Settings |-> IF s \in S THEN d.stored[s] ELSE d.sensor[s]]
             /\ e.missed = {s \in Settings \ S :
                              s \in d.missed \/ d.sensor[s] # d.stored[s]}
             /\ e \in Device
<1> DEFINE se == [s \in Settings |-> IF s \in S THEN d.stored[s] ELSE d.sensor[s]]
           mi == {s \in Settings \ S : s \in d.missed \/ d.sensor[s] # d.stored[s]}
<1>1. Tell(d, S) = With(d, d.stored, se, mi)
  BY DEF Tell, Device, With
<1>2. se \in [Settings -> Value] /\ mi \subseteq Settings
  BY DeviceFields
<1>3. d.stored \in [Settings -> Value]
  BY DeviceFields
<1> DEFINE e == Tell(d, S)
<1> HIDE DEF se, mi, e
<1>4. /\ e.cam = d.cam /\ e.size = d.size /\ e.frames = d.frames
      /\ e.stored = d.stored /\ e.sensor = se /\ e.missed = mi /\ e \in Device
  BY <1>1, <1>2, <1>3, WithSettings DEF e
<1>5. QED
  BY <1>4 DEF se, mi, e

\* A camera that startPreview() has changed streams.
LEMMA StartPreviewOn ==
  ASSUME NEW c \in Camera, NEW r \in StartPreview(c)
  PROVE  /\ r.cam \in Camera /\ r.ret \in {0, -1} /\ r.cam.init = c.init
         /\ r.cam # c => r.cam.started /\ r.cam.streaming
<1> DEFINE on == [c EXCEPT !.started = TRUE, !.streaming = TRUE]
<1>1. on \in Camera /\ on.started /\ on.streaming /\ on.init = c.init
  BY DEF Camera
<1>2. r \in {Result(0, c), Result(-1, c), Result(0, on), Result(-1, on)}
  BY DEF StartPreview, IfFaulty
<1> HIDE DEF on
<1>3. QED
  BY <1>1, <1>2, ResultFields

\* What the sensor is sent before a call fails are settings.
LEMMA PrefixesAre ==
  ASSUME NEW camera, NEW S \in Prefixes(camera)
  PROVE  S \subseteq Settings
BY DEF Prefixes

\* A start keeps what is stored and leaves the sensor with it, but for what a failing
\* call kept from it.
LEMMA StartSensorGood ==
  ASSUME NEW camera, NEW d, Good(d), NEW r \in StartSensor(camera, d)
  PROVE  Good(r.dev) /\ Keeps(d, r.dev)
<1> DEFINE On(q) == [d EXCEPT !.cam = q.cam,
                              !.frames = IF q.cam.streaming THEN d.size ELSE @]
<1>1. d \in Device /\ d.cam \in Camera
  BY DeviceFields DEF Good
<1>2. PICK q \in StartPreview(d.cam) :
        \/ q.cam = d.cam /\ r = [ret |-> q.ret, dev |-> d]
        \/ \E S \in SUBSET Settings :
             q.cam # d.cam /\ r = [ret |-> q.ret, dev |-> Tell(On(q), S)]
  <2>1. PICK q \in StartPreview(d.cam) :
          r \in CASE q.cam = d.cam               -> {[ret |-> q.ret, dev |-> d]}
                  [] q.cam # d.cam /\ q.ret = 0  -> {[ret |-> 0, dev |-> Tell(On(q), Settings)]}
                  [] q.cam # d.cam /\ q.ret # 0  -> {[ret |-> q.ret, dev |-> Tell(On(q), S)] :
                                                       S \in Prefixes(camera)}
    BY DEF StartSensor
  <2> HIDE DEF On
  <2>2. CASE q.cam = d.cam
    BY <2>1, <2>2
  <2>3. CASE q.cam # d.cam /\ q.ret = 0
    BY <2>1, <2>3
  <2>4. CASE q.cam # d.cam /\ q.ret # 0
    BY <2>1, <2>4, PrefixesAre
  <2>5. QED
    BY <2>2, <2>3, <2>4
<1>3. CASE q.cam = d.cam /\ r = [ret |-> q.ret, dev |-> d]
  BY <1>3 DEF Keeps, Good, Streams
<1>4. ASSUME NEW S \in SUBSET Settings,
             q.cam # d.cam, r = [ret |-> q.ret, dev |-> Tell(On(q), S)]
      PROVE  Good(r.dev) /\ Keeps(d, r.dev)
  <2>1. /\ q.cam \in Camera /\ q.cam.init = d.cam.init
        /\ q.cam.started /\ q.cam.streaming
    BY <1>1, <1>4, StartPreviewOn
  <2>2. /\ On(q).cam = q.cam /\ On(q).size = d.size /\ On(q).frames = d.size
        /\ On(q).stored = d.stored /\ On(q).sensor = d.sensor /\ On(q).missed = d.missed
        /\ On(q) \in Device
    BY <1>1, <2>1 DEF Device
  <2> HIDE DEF On
  <2> DEFINE e == Tell(On(q), S)
  <2>3. /\ e.cam = q.cam /\ e.size = d.size /\ e.frames = d.size
        /\ e.stored = d.stored
        /\ e.sensor = [s \in Settings |-> IF s \in S THEN d.stored[s] ELSE d.sensor[s]]
        /\ e.missed = {s \in Settings \ S : s \in d.missed \/ d.sensor[s] # d.stored[s]}
        /\ e \in Device
    BY <2>2, TellFields
  <2>4. r.dev = e
    BY <1>4
  <2> HIDE DEF e
  <2>5. \A s \in Settings \ e.missed : e.sensor[s] = e.stored[s]
    BY <2>3
  <2>6. "flash_mode" \in Settings
    BY DEF Settings
  <2>7. QED
    BY <2>1, <2>3, <2>4, <2>5, <2>6 DEF Good, Streams, Follows, TorchRight, Keeps
<1>5. QED
  BY <1>2, <1>3, <1>4 DEF Good, Streams

\* Changing only what the driver does keeps the rest.
LEMMA WithCam ==
  ASSUME NEW d \in Device, NEW c \in Camera
  PROVE  LET e == [d EXCEPT !.cam = c]
         IN  /\ e \in Device /\ e.cam = c /\ e.size = d.size /\ e.frames = d.frames
             /\ e.stored = d.stored /\ e.sensor = d.sensor /\ e.missed = d.missed
BY DEF Device

\* Idle, field by field.
LEMMA IdleFields ==
  ASSUME NEW d \in Device
  PROVE  LET e == Idle(d)
         IN  /\ e \in Device /\ e.cam = d.cam /\ e.size = d.size
             /\ e.stored = d.stored
             /\ e.sensor["flash_mode"] = "torch" =>
                  /\ d.sensor["flash_mode"] = "torch"
                  /\ "flash_mode" \in d.missed => "flash_mode" \in e.missed
<1> DEFINE burns == {s \in {"flash_mode"} : d.sensor[s] = "torch"}
           se == [s \in Settings |-> IF s \in burns THEN d.sensor[s] ELSE Unset]
           mi == d.missed \cap burns
           f == [d EXCEPT !.sensor = se, !.missed = mi, !.frames = Unset]
<1>1. Idle(d) = f
  BY DEF Idle
<1>2. Unset \in Value /\ "flash_mode" \in Settings /\ Unset # "torch"
  BY DEF Value, Settings, Unset
<1>3. se \in [Settings -> Value] /\ mi \subseteq Settings
  BY <1>2, DeviceFields
<1>4. se["flash_mode"] = "torch" =>
        d.sensor["flash_mode"] = "torch" /\ ("flash_mode" \in d.missed => "flash_mode" \in mi)
  BY <1>2
<1> HIDE DEF se, mi
<1>5. /\ f \in Device /\ f.cam = d.cam /\ f.size = d.size /\ f.stored = d.stored
      /\ f.sensor = se /\ f.missed = mi
  BY <1>3 DEF Device
<1> HIDE DEF f
<1>6. QED
  BY <1>1, <1>4, <1>5

\* stopPreview() either leaves the camera as it was or turns it off.
LEMMA StopPreviewOff ==
  ASSUME NEW c \in Camera, NEW r \in StopPreview(c)
  PROVE  /\ r.cam \in Camera /\ r.cam.init = c.init
         /\ r.cam = c \/ (~r.cam.started /\ ~r.cam.streaming)
<1> DEFINE off == [c EXCEPT !.started = FALSE, !.streaming = FALSE]
<1>1. off \in Camera /\ ~off.started /\ ~off.streaming /\ off.init = c.init
  BY DEF Camera
<1>2. r \in {Result(0, c), Result(-1, c), Result(0, off), Result(-1, off)}
  BY DEF StopPreview, IfFaulty
<1> HIDE DEF off
<1>3. QED
  BY <1>1, <1>2, ResultFields

\* The torch that is to be put out.
LEMMA OnlyWanted ==
  ASSUME NEW s \in Settings, NEW v \in Value
  PROVE  Wanted(Only(s, v)) /\ DOMAIN Only(s, v) = {s} /\ Only(s, v)[s] = v
BY DEF Only, Wanted

\* The setters, on what they do not want.
LEMMA PutKeeps ==
  ASSUME NEW d, Good(d), NEW want, Wanted(want), NEW bad
  PROVE  LET e == Put(d, want, bad)
         IN  /\ e.cam = d.cam /\ e.size = d.size
             /\ e.stored = [s \in Settings |->
                              IF s \in DOMAIN want THEN want[s] ELSE d.stored[s]]
<1> DEFINE told == Sent(d, want) \ bad
           st == [s \in Settings |-> IF s \in DOMAIN want THEN want[s] ELSE d.stored[s]]
           se == [s \in Settings |-> IF s \in told THEN want[s] ELSE d.sensor[s]]
           mi == (d.missed \ told) \cup Refused(d, want, bad)
<1>1. Put(d, want, bad) = With(d, st, se, mi)
  BY DEF Put, With
<1> HIDE DEF st, se, mi
<1>2. QED
  BY <1>1, WithSettings DEF Good, st

\* One setting is set.
LEMMA PutOne ==
  ASSUME NEW d, Good(d), NEW t \in Settings, NEW v \in Value, NEW bad
  PROVE  LET e == Put(d, Only(t, v), bad)
         IN  /\ Good(e) /\ e.cam = d.cam /\ e.size = d.size
             /\ e.stored[t] = v
             /\ \A s \in Settings : s # t => e.stored[s] = d.stored[s]
<1> DEFINE want == Only(t, v)
           e == Put(d, want, bad)
<1>1. Wanted(want) /\ DOMAIN want = {t} /\ want[t] = v
  BY OnlyWanted
<1> HIDE DEF want
<1>2. /\ Good(e) /\ e.cam = d.cam /\ e.size = d.size
      /\ e.stored = [s \in Settings |-> IF s \in DOMAIN want THEN want[s] ELSE d.stored[s]]
  BY <1>1, PutGood, PutKeeps
<1> HIDE DEF e
<1>3. e.stored[t] = v /\ \A s \in Settings : s # t => e.stored[s] = d.stored[s]
  BY <1>1, <1>2
<1>4. QED
  BY <1>2, <1>3 DEF e, want

\* Putting out the torch.
LEMMA DarkGood ==
  ASSUME NEW d, Good(d), d.stored["flash_mode"] = "torch", NEW bad,
         NEW e, e = Put(d, Only("flash_mode", "off"), bad)
  PROVE  Good(e) /\ e.cam = d.cam /\ Keeps(d, e) /\ e.stored["flash_mode"] = "off"
<1>1. "flash_mode" \in Settings /\ "off" \in Value
  BY DEF Settings, Value, AllFlashes
<1>2. /\ Good(e) /\ e.cam = d.cam /\ e.size = d.size
      /\ e.stored["flash_mode"] = "off"
      /\ \A s \in Settings : s # "flash_mode" => e.stored[s] = d.stored[s]
  BY <1>1, PutOne
<1>3. QED
  BY <1>2 DEF Keeps

\* A stop keeps what is stored, but for the torch.
LEMMA StopSensorGood ==
  ASSUME NEW d, Good(d), NEW e \in StopSensor(d)
  PROVE  Good(e) /\ Keeps(d, e)
<1> DEFINE dark == IF d.cam.started /\ d.stored["flash_mode"] = "torch"
                     THEN {Put(d, Only("flash_mode", "off"), bad) :
                             bad \in Failures({"flash_mode"})}
                     ELSE {d}
           Stopped(x, r) == [(IF r.cam.streaming THEN x ELSE Idle(x)) EXCEPT !.cam = r.cam]
<1>0. StopSensor(d) = {Stopped(x, r) : x \in dark, r \in StopPreview(d.cam)}
  BY DEF StopSensor
<1> HIDE DEF dark, Stopped
<1>1. PICK x \in dark, r \in StopPreview(d.cam) : e = Stopped(x, r)
  BY <1>0
<1> USE DEF Stopped
<1>2. /\ Good(x) /\ Keeps(d, x) /\ x.cam = d.cam
      /\ x.cam.started => x.stored["flash_mode"] # "torch"
  <2>1. CASE d.cam.started /\ d.stored["flash_mode"] = "torch"
    <3>1. PICK bad \in Failures({"flash_mode"}) : x = Put(d, Only("flash_mode", "off"), bad)
      BY <1>1, <2>1 DEF dark
    <3>2. QED
      BY <2>1, <3>1, DarkGood
  <2>2. CASE ~(d.cam.started /\ d.stored["flash_mode"] = "torch")
    BY <1>1, <2>2 DEF Keeps, dark
  <2>3. QED
    BY <2>1, <2>2
<1>3. x \in Device /\ x.cam \in Camera
  BY <1>2, DeviceFields DEF Good
<1>4. r.cam \in Camera /\ r.cam.init = d.cam.init
      /\ (r.cam = d.cam \/ (~r.cam.started /\ ~r.cam.streaming))
  BY <1>2, <1>3, StopPreviewOff
<1>5. CASE r.cam.streaming
  <2>1. e = [x EXCEPT !.cam = x.cam]
    BY <1>1, <1>2, <1>4, <1>5
  <2>2. e = x
    BY <1>3, <2>1 DEF Device
  <2>3. QED
    BY <1>2, <2>2
<1>6. CASE ~r.cam.streaming
  <2> DEFINE y == Idle(x)
  <2>1. e = [y EXCEPT !.cam = r.cam]
    BY <1>1, <1>6
  <2>2. /\ y \in Device /\ y.size = x.size /\ y.stored = x.stored
        /\ y.sensor["flash_mode"] = "torch" =>
             /\ x.sensor["flash_mode"] = "torch"
             /\ "flash_mode" \in x.missed => "flash_mode" \in y.missed
    BY <1>3, IdleFields
  <2> HIDE DEF y
  <2>3. /\ e \in Device /\ e.cam = r.cam /\ e.size = y.size
        /\ e.stored = y.stored /\ e.sensor = y.sensor /\ e.missed = y.missed
    BY <1>4, <2>1, <2>2, WithCam
  <2>4. TorchRight(e)
    BY <1>2, <2>2, <2>3 DEF Good, TorchRight
  <2>5. Keeps(d, e)
    BY <1>2, <1>4, <2>2, <2>3 DEF Keeps
  <2>6. QED
    BY <1>6, <2>3, <2>4, <2>5 DEF Good, Streams, Follows
<1>7. QED
  BY <1>5, <1>6

\* A sensor that has forgotten what it was told burns no torch.
LEMMA ForgetFields ==
  ASSUME NEW d \in Device, NEW S \in SUBSET Settings
  PROVE  LET e == Forget(d, S)
         IN  /\ e \in Device /\ e.cam = d.cam /\ e.size = d.size /\ e.frames = d.frames
             /\ e.stored = d.stored /\ e.missed = S
             /\ e.sensor = [s \in Settings |-> Unset]
<1> DEFINE se == [s \in Settings |-> Unset]
<1>1. se \in [Settings -> Value]
  BY DEF Value
<1>2. Forget(d, S) = With(d, d.stored, se, S)
  BY DEF Forget, With, Device
<1>3. d.stored \in [Settings -> Value]
  BY DeviceFields
<1> HIDE DEF se
<1>4. QED
  BY <1>1, <1>2, <1>3, WithSettings DEF se

\* The restart of getPreview().
LEMMA ForgetGood ==
  ASSUME NEW d, Good(d)
  PROVE  Good(Forget(d, Settings)) /\ Keeps(d, Forget(d, Settings))
<1>1. "flash_mode" \in Settings /\ Unset # "torch"
  BY DEF Settings, Unset
<1>2. d \in Device
  BY DEF Good
<1> DEFINE e == Forget(d, Settings)
<1>3. /\ e \in Device /\ e.cam = d.cam /\ e.size = d.size /\ e.frames = d.frames
      /\ e.stored = d.stored /\ e.missed = Settings
      /\ e.sensor = [s \in Settings |-> Unset]
  BY <1>2, ForgetFields
<1> HIDE DEF e
<1>4. Good(e) /\ Keeps(d, e)
  BY <1>1, <1>3 DEF Good, Streams, Follows, TorchRight, Keeps
<1>5. QED
  BY <1>4 DEF e

-----------------------------------------------------------------------------
(* Recording.                                                                *)

\* What recording does to the camera is of no account for preview.
SameView(c, b) ==
  b \in Camera /\ b.started = c.started /\ b.streaming = c.streaming /\ b.init = c.init

\* Closing the recording stream is such a step.
LEMMA NoStreamSame ==
  ASSUME NEW c \in Camera
  PROVE  SameView(c, NoStream(c))
BY DEF NoStream, Camera, SameView

\* startRecord() does nothing else to the camera than to the recording stream ...
LEMMA StartRecordSame ==
  ASSUME NEW c \in Camera, NEW r \in StartRecord(c)
  PROVE  SameView(c, NoStream(r.cam))
<1> DEFINE on == [c EXCEPT !.recStarted = TRUE, !.recStreaming = TRUE]
           half == [c EXCEPT !.recStreaming = TRUE]
<1>1. SameView(c, c) /\ SameView(c, on) /\ SameView(c, half)
  BY DEF Camera, SameView
<1>2. r.cam = c \/ r.cam = on \/ r.cam = half
  BY ResultFields DEF StartRecord, IfFaulty
<1> HIDE DEF on, half
<1>3. SameView(c, r.cam)
  BY <1>1, <1>2
<1>4. QED
  BY <1>3, NoStreamSame DEF SameView

\* ... nor does stopRecord().
LEMMA StopRecordSame ==
  ASSUME NEW c \in Camera, NEW r \in StopRecord(c)
  PROVE  SameView(c, NoStream(r.cam)) /\ SameView(c, r.cam)
<1> DEFINE off == [c EXCEPT !.recStarted = FALSE, !.recStreaming = FALSE]
           half == [c EXCEPT !.recStarted = FALSE]
<1>1. SameView(c, c) /\ SameView(c, off) /\ SameView(c, half)
  BY DEF Camera, SameView
<1>2. r \in {Result(0, c), Result(-1, c), Result(0, off), Result(-1, off), Result(-1, half)}
  BY DEF StopRecord, IfFaulty
<1> HIDE DEF off, half
<1>3. SameView(c, r.cam)
  BY <1>1, <1>2, ResultFields
<1>4. QED
  BY <1>3, NoStreamSame DEF SameView

\* A device whose camera looks the same is as good.
LEMMA SameViewGood ==
  ASSUME NEW d, Good(d), NEW c, SameView(d.cam, c)
  PROVE  LET e == [d EXCEPT !.cam = c]
         IN  Good(e) /\ Keeps(d, e)
<1> DEFINE e == [d EXCEPT !.cam = c]
<1>1. /\ e \in Device /\ e.cam = c /\ e.size = d.size /\ e.frames = d.frames
      /\ e.stored = d.stored /\ e.sensor = d.sensor /\ e.missed = d.missed
  BY WithCam DEF Good, SameView
<1> HIDE DEF e
<1>2. Good(e) /\ Keeps(d, e)
  BY <1>1 DEF Good, Streams, Follows, TorchRight, Keeps, SameView
<1>3. QED
  BY <1>2 DEF e

\* The lens of a camera that has recorded is left in the mode it was in.
LEMMA RefocusGood ==
  ASSUME NEW d, Good(d), NEW e \in Refocus(d)
  PROVE  Good(e) /\ Keeps(d, e) /\ e.cam = d.cam
<1>1. PICK b1, b2 : e = Put(Put(d, Only("focus_mode", "macro"), b1),
                            Only("focus_mode", d.stored["focus_mode"]), b2)
  BY DEF Refocus
<1>2. "focus_mode" \in Settings /\ "macro" \in Value
  BY DEF Settings, Value, BackFocusModes
<1>3. d.stored["focus_mode"] \in Value
  BY <1>2, DeviceFields DEF Good
<1> DEFINE f == Put(d, Only("focus_mode", "macro"), b1)
<1>4. /\ Good(f) /\ f.cam = d.cam /\ f.size = d.size
      /\ \A s \in Settings : s # "focus_mode" => f.stored[s] = d.stored[s]
  BY <1>2, PutOne
<1> HIDE DEF f
<1>5. e = Put(f, Only("focus_mode", d.stored["focus_mode"]), b2)
  BY <1>1 DEF f
<1>6. /\ Good(e) /\ e.cam = f.cam /\ e.size = f.size
      /\ e.stored["focus_mode"] = d.stored["focus_mode"]
      /\ \A s \in Settings : s # "focus_mode" => e.stored[s] = f.stored[s]
  BY <1>2, <1>3, <1>4, <1>5, PutOne
<1>7. QED
  BY <1>4, <1>6 DEF Keeps

\* stopRecording() in the device.
LEMMA StopRecorderGood ==
  ASSUME NEW camera, NEW d, Good(d), NEW r \in StopRecord(d.cam),
         NEW e \in StopRecorder(camera, d, r)
  PROVE  Good(e) /\ Keeps(d, e)
<1>1. PICK x : e = [x EXCEPT !.cam = NoStream(r.cam)] /\ (x = d \/ x \in Refocus(d))
  BY DEF StopRecorder
<1>2. Good(x) /\ Keeps(d, x) /\ x.cam = d.cam
  BY <1>1, RefocusGood DEF Keeps
<1>3. d.cam \in Camera
  BY DeviceFields DEF Good
<1>4. SameView(x.cam, NoStream(r.cam))
  BY <1>2, <1>3, StopRecordSame
<1>5. QED
  BY <1>1, <1>2, <1>4, SameViewGood, KeepsTwice

-----------------------------------------------------------------------------
(* setParameters().                                                          *)

\* The keys, apart.
LEMMA KeysAre ==
  /\ {"scene_mode", "focus_mode", "flash_mode"} \subseteq Settings
  /\ Plain \cap {"scene_mode", "focus_mode", "flash_mode", "size", "fps"} = {}
  /\ Plain \subseteq Settings /\ Settings \subseteq Keys
  /\ \A k \in Keys : k \in Plain \cup {"scene_mode", "focus_mode", "flash_mode", "size", "fps"}
  /\ {"size", "fps"} \subseteq Keys /\ {"size", "fps"} \cap Settings = {}
BY DEF Settings, Keys

\* A request has a value for each key, and a size that may not be one.
Submitted(p) == p = [k \in Keys |-> p[k]] /\ p["size"] \in Sizes \cup {Invalid}

\* What setParameters() makes of the values that were asked for.
LEMMA AskedForFields ==
  ASSUME NEW p, Submitted(p)
  PROVE  LET asked == AskedFor(p)
             scene == p["scene_mode"]
         IN  /\ \A k \in Keys \ {"focus_mode", "flash_mode"} : asked[k] = p[k]
             /\ asked["flash_mode"] = IF scene = "auto" THEN p["flash_mode"]
                                      ELSE IF scene \in AutoFlashScenes THEN "auto"
                                      ELSE "off"
<1>1. DOMAIN p = Keys
  BY DEF Submitted
<1>2. "auto" \notin AutoFlashScenes
  BY DEF AutoFlashScenes
<1>3. QED
  BY <1>1, <1>2, KeysAre DEF AskedFor

\* The settings whose value is known, for either camera.
LEMMA RecognisedAre ==
  ASSUME NEW camera, NEW v
  PROVE  LET good == Recognised(camera, v)
         IN  /\ good \subseteq Settings
             /\ \A s \in Plain : s \in good <=> v[s] \in PlainValues
             /\ "scene_mode" \in good <=> camera = "back" /\ v["scene_mode"] \in KnownScenes
             /\ "focus_mode" \in good <=> camera = "back" /\ v["focus_mode"] \in BackFocusModes
             /\ "flash_mode" \in good <=> camera = "back" /\ v["flash_mode"] \in AllFlashes
<1> DEFINE modes == {s \in {"scene_mode", "focus_mode", "flash_mode"} :
                       v[s] \in CASE s = "scene_mode" -> KnownScenes
                                  [] s = "focus_mode" -> BackFocusModes
                                  [] s = "flash_mode" -> AllFlashes}
<1>1. \A s : s \in modes <=>
        \/ s = "scene_mode" /\ v[s] \in KnownScenes
        \/ s = "focus_mode" /\ v[s] \in BackFocusModes
        \/ s = "flash_mode" /\ v[s] \in AllFlashes
  OBVIOUS
<1> HIDE DEF modes
<1>2. Recognised(camera, v) = {s \in Plain : v[s] \in PlainValues}
                                \cup IF camera = "back" THEN modes ELSE {}
  BY DEF Recognised, modes
<1> DEFINE good == Recognised(camera, v)
<1>3. \A s : s \in good <=> \/ s \in Plain /\ v[s] \in PlainValues
                            \/ camera = "back" /\ s \in modes
  BY <1>2
<1> HIDE DEF good
<1>4. good \subseteq Settings
  BY <1>1, <1>3, KeysAre
<1>5. \A s \in Plain : s \in good <=> v[s] \in PlainValues
  BY <1>1, <1>3, KeysAre
<1>6. "scene_mode" \in good <=> camera = "back" /\ v["scene_mode"] \in KnownScenes
  BY <1>1, <1>3, KeysAre
<1>7. "focus_mode" \in good <=> camera = "back" /\ v["focus_mode"] \in BackFocusModes
  BY <1>1, <1>3, KeysAre
<1>8. "flash_mode" \in good <=> camera = "back" /\ v["flash_mode"] \in AllFlashes
  BY <1>1, <1>3, KeysAre
<1>9. QED
  BY <1>4, <1>5, <1>6, <1>7, <1>8 DEF good

\* What is reported for a key.
LEMMA ReportsAre ==
  ASSUME NEW camera \in {"back", "front"}
  PROVE  /\ \A k \in Plain : Reports(camera, k) = PlainValues
         /\ camera = "back" => /\ Reports(camera, "scene_mode") = KnownScenes
                               /\ Reports(camera, "flash_mode") = AllFlashes
                               /\ Reports(camera, "focus_mode") = BackFocusModes
                               /\ Reports(camera, "fps") = {"15-30", "4-30"}
         /\ Reports(camera, "size") = Sizes
<1>1. \A k \in Plain : Reports(camera, k) = PlainValues
  BY KeysAre DEF Reports
<1>2. camera = "back" => Reports(camera, "scene_mode") = KnownScenes
  BY KeysAre DEF Reports
<1>3. camera = "back" => Reports(camera, "flash_mode") = AllFlashes
  BY KeysAre DEF Reports
<1>4. camera = "back" => Reports(camera, "focus_mode") = BackFocusModes
  BY KeysAre DEF Reports
<1>5. camera = "back" => Reports(camera, "fps") = {"15-30", "4-30"}
  BY KeysAre DEF Reports
<1>6. Reports(camera, "size") = Sizes
  BY KeysAre DEF Reports
<1>7. QED
  BY <1>1, <1>2, <1>3, <1>4, <1>5, <1>6

\* The parts of setParameters(): what it will set, what it does set, and whether the
\* size changes.
Want(camera, p) == [s \in Recognised(camera, AskedFor(p)) |-> Coded(AskedFor(p)[s])]
Done(camera, d, p, bad) == Recognised(camera, AskedFor(p)) \ Refused(d, Want(camera, p), bad)
Resizes(d, p) == p["size"] # Invalid /\ p["size"] # d.size

\* The device after setParameters() ...
LEMMA ApplyDev ==
  ASSUME NEW camera, NEW h, NEW d, NEW p, NEW bad
  PROVE  ApplyTo(camera, h, d, p, bad).dev
           = [Put(d, Want(camera, p), bad) EXCEPT
                !.size = IF Resizes(d, p) THEN p["size"] ELSE @]
BY DEF ApplyTo, Want, Resizes

\* ... the geometry of the preview window ...
LEMMA ApplyGeometry ==
  ASSUME NEW camera, NEW h, NEW d, NEW p, NEW bad
  PROVE  ApplyTo(camera, h, d, p, bad).geometry = GeometryFor(Resizes(d, p), p["size"])
BY DEF ApplyTo, Resizes

\* ... the values that are reported, key by key ...
LEMMA ApplyVal ==
  ASSUME NEW camera, NEW h, NEW d, NEW p, NEW bad
  PROVE  LET val == ApplyTo(camera, h, d, p, bad).hal.val
             done == Done(camera, d, p, bad)
         IN  /\ \A k \in done : val[k] = AskedFor(p)[k]
             /\ \A k \in Settings \ done : val[k] = h.val[k]
             /\ val["size"] = IF Resizes(d, p) THEN p["size"] ELSE h.val["size"]
             /\ val["fps"] = FpsFor(camera, h, p)
<1> DEFINE val == ApplyTo(camera, h, d, p, bad).hal.val
           done == Done(camera, d, p, bad)
<1>1. val = [k \in Keys |->
               CASE k \in done             -> AskedFor(p)[k]
                 [] k \in Settings \ done  -> h.val[k]
                 [] k = "size"  -> IF Resizes(d, p) THEN p[k] ELSE h.val[k]
                 [] k = "fps"   -> FpsFor(camera, h, p)]
  BY DEF ApplyTo, Done, Want, Resizes
<1>2. done \subseteq Settings
  BY RecognisedAre DEF Done
<1> HIDE DEF val, done
<1>3. \A k \in done : val[k] = AskedFor(p)[k]
  BY <1>1, <1>2, KeysAre
<1>4. \A k \in Settings \ done : val[k] = h.val[k]
  BY <1>1, KeysAre
<1>5. val["size"] = IF Resizes(d, p) THEN p["size"] ELSE h.val["size"]
  BY <1>1, <1>2, KeysAre
<1>6. val["fps"] = FpsFor(camera, h, p)
  BY <1>1, <1>2, KeysAre
<1>7. QED
  BY <1>3, <1>4, <1>5, <1>6 DEF val, done

\* ... the lists that go with them ...
LEMMA ApplyRest ==
  ASSUME NEW camera, NEW h, NEW d, NEW p, NEW bad
  PROVE  LET new == ApplyTo(camera, h, d, p, bad).hal
         IN  /\ new.flashes = FlashesFor(camera, h, p["scene_mode"])
             /\ new.distances = IF camera = "back"
                                     /\ "focus_mode" \in Recognised(camera, AskedFor(p))
                                  THEN AskedFor(p)["focus_mode"] ELSE h.distances
BY DEF ApplyTo

\* ... and when it returns no error.
LEMMA ApplyOk ==
  ASSUME NEW camera, NEW h, NEW d, NEW p, NEW bad, ApplyTo(camera, h, d, p, bad).ok
  PROVE  /\ p["size"] # Invalid
         /\ Plain \subseteq Done(camera, d, p, bad)
         /\ camera = "back" => Done(camera, d, p, bad) = Settings
         /\ Done(camera, d, p, bad) = Recognised(camera, AskedFor(p))
BY DEF ApplyTo, Done, Want

\* What the setters are given are values of settings.
LEMMA WantWanted ==
  ASSUME NEW camera, NEW p, Submitted(p)
  PROVE  /\ Wanted(Want(camera, p))
         /\ DOMAIN Want(camera, p) = Recognised(camera, AskedFor(p))
         /\ \A s \in Recognised(camera, AskedFor(p)) :
              Want(camera, p)[s] = Coded(AskedFor(p)[s])
<1> DEFINE asked == AskedFor(p)
           good == Recognised(camera, asked)
<1>1. /\ good \subseteq Settings
      /\ \A s \in Plain : s \in good <=> asked[s] \in PlainValues
      /\ "scene_mode" \in good <=> camera = "back" /\ asked["scene_mode"] \in KnownScenes
      /\ "focus_mode" \in good <=> camera = "back" /\ asked["focus_mode"] \in BackFocusModes
      /\ "flash_mode" \in good <=> camera = "back" /\ asked["flash_mode"] \in AllFlashes
  BY RecognisedAre
<1> HIDE DEF good, asked
<1>2. \A s \in good :
        asked[s] \in PlainValues \cup KnownScenes \cup AllFlashes \cup BackFocusModes
  BY <1>1 DEF Settings
<1>3. \A s \in good : Coded(asked[s]) \in Value
  BY <1>2 DEF Coded, Value
<1>4. Want(camera, p) = [s \in good |-> Coded(asked[s])]
  BY DEF Want, good, asked
<1>5. QED
  BY <1>1, <1>3, <1>4 DEF Wanted, good, asked

\* A setParameters() leaves a good device, with what could be set in it.
LEMMA ApplyGood ==
  ASSUME NEW camera, NEW h, NEW d, Good(d), NEW p, Submitted(p), NEW bad,
         KeepsSize /\ d.cam.streaming => ~Resizes(d, p)
  PROVE  LET e == ApplyTo(camera, h, d, p, bad).dev
         IN  /\ Good(e) /\ e.cam = d.cam
             /\ e.size = IF Resizes(d, p) THEN p["size"] ELSE d.size
             /\ \A s \in Recognised(camera, AskedFor(p)) : e.stored[s] = Coded(AskedFor(p)[s])
<1> DEFINE f == Put(d, Want(camera, p), bad)
           size == IF Resizes(d, p) THEN p["size"] ELSE f.size
           e == [f EXCEPT !.size = size]
<1>1. ApplyTo(camera, h, d, p, bad).dev = e
  BY ApplyDev
<1>2. /\ Good(f) /\ f.cam = d.cam /\ f.size = d.size
      /\ f.stored = [s \in Settings |-> IF s \in DOMAIN Want(camera, p)
                                          THEN Want(camera, p)[s] ELSE d.stored[s]]
  BY WantWanted, PutGood, PutKeeps
<1>3. Recognised(camera, AskedFor(p)) \subseteq Settings
  BY RecognisedAre
<1>4. \A s \in Recognised(camera, AskedFor(p)) : f.stored[s] = Coded(AskedFor(p)[s])
  BY <1>2, <1>3, WantWanted
<1> HIDE DEF f
<1>5. size \in Sizes \cup {Unset}
  BY <1>2, DeviceFields DEF Good, Resizes, Submitted
<1> HIDE DEF size
<1>6. /\ e \in Device /\ e.cam = f.cam /\ e.size = size /\ e.frames = f.frames
      /\ e.stored = f.stored /\ e.sensor = f.sensor /\ e.missed = f.missed
  BY <1>2, <1>5 DEF Good, Device
<1> HIDE DEF e
<1>7. KeepsSize /\ d.cam.streaming => size = f.size
  BY DEF size
<1>8. Good(e)
  BY <1>2, <1>6, <1>7 DEF Good, Streams, Follows, TorchRight
<1>9. QED
  BY <1>1, <1>2, <1>4, <1>6, <1>8 DEF size

\* What getParameters() reports afterwards.
LEMMA ApplyReports ==
  ASSUME NEW camera \in {"back", "front"}, NEW h, NEW d, NEW p, Submitted(p), NEW bad,
         \A k \in Keys : h.val[k] \in Reports(camera, k), h.flashes \subseteq AllFlashes
  PROVE  LET new == ApplyTo(camera, h, d, p, bad).hal
         IN  /\ \A k \in Keys : new.val[k] \in Reports(camera, k)
             /\ new.flashes \subseteq AllFlashes
<1> DEFINE asked == AskedFor(p)
           good == Recognised(camera, asked)
           done == Done(camera, d, p, bad)
           val == ApplyTo(camera, h, d, p, bad).hal.val
<1>1. done \subseteq good /\ good \subseteq Settings
  BY RecognisedAre DEF Done
<1>2. /\ \A s \in Plain : s \in good <=> asked[s] \in PlainValues
      /\ "scene_mode" \in good <=> camera = "back" /\ asked["scene_mode"] \in KnownScenes
      /\ "focus_mode" \in good <=> camera = "back" /\ asked["focus_mode"] \in BackFocusModes
      /\ "flash_mode" \in good <=> camera = "back" /\ asked["flash_mode"] \in AllFlashes
  BY RecognisedAre
<1>3. /\ \A k \in done : val[k] = asked[k]
      /\ \A k \in Settings \ done : val[k] = h.val[k]
      /\ val["size"] = IF Resizes(d, p) THEN p["size"] ELSE h.val["size"]
      /\ val["fps"] = FpsFor(camera, h, p)
  BY ApplyVal
<1> HIDE DEF asked, good, done, val
<1>4. \A k \in Settings : val[k] \in Reports(camera, k)
  <2>1. ASSUME NEW k \in Settings, k \in done PROVE val[k] \in Reports(camera, k)
    <3>1. CASE k \in Plain
      BY <1>1, <1>2, <1>3, <2>1, <3>1, ReportsAre
    <3>2. CASE k = "scene_mode"
      BY <1>1, <1>2, <1>3, <2>1, <3>2, ReportsAre
    <3>3. CASE k = "focus_mode"
      BY <1>1, <1>2, <1>3, <2>1, <3>3, ReportsAre
    <3>4. CASE k = "flash_mode"
      BY <1>1, <1>2, <1>3, <2>1, <3>4, ReportsAre
    <3>5. QED
      BY <3>1, <3>2, <3>3, <3>4 DEF Settings
  <2>2. QED
    BY <1>3, <2>1, KeysAre
<1>5. val["size"] \in Reports(camera, "size")
  BY <1>3, KeysAre, ReportsAre DEF Resizes, Submitted
<1>6. val["fps"] \in Reports(camera, "fps")
  BY <1>3, KeysAre, ReportsAre DEF FpsFor
<1>7. \A k \in Keys : val[k] \in Reports(camera, k)
  BY <1>4, <1>5, <1>6 DEF Keys
<1>8. ApplyTo(camera, h, d, p, bad).hal.flashes \subseteq AllFlashes
  BY ApplyRest DEF FlashesFor, AllFlashes
<1>9. QED
  BY <1>7, <1>8 DEF val

-----------------------------------------------------------------------------
(* A report that is of one piece with the device.                            *)

Reported(camera, h, d) ==
  /\ camera = "back" =>
       /\ h.val["flash_mode"] \in h.flashes
       /\ h.val["fps"] = "4-30" <=> h.val["scene_mode"] = "night"
       /\ h.distances = h.val["focus_mode"]
  /\ h.val["size"] = d.size
  /\ \A s \in IF camera = "back" THEN Settings ELSE Plain :
       \/ d.stored[s] = Coded(h.val[s])
       \/ s = "flash_mode" /\ h.val[s] = "torch" /\ d.stored[s] = "off"

\* AcceptedReported in the terms above.
LEMMA ReportedIs == AcceptedReported <=> (accepted => Reported(open, hal, dev))
BY DEF AcceptedReported, Reported

\* Starts and stops do not undo it.
LEMMA ReportedKeeps ==
  ASSUME NEW camera, NEW h, NEW d, NEW e, Reported(camera, h, d), Keeps(d, e)
  PROVE  Reported(camera, h, e)
<1> DEFINE S == IF camera = "back" THEN Settings ELSE Plain
<1>1. S \subseteq Settings
  BY KeysAre
<1>2. ASSUME NEW s \in S
      PROVE  \/ e.stored[s] = Coded(h.val[s])
             \/ s = "flash_mode" /\ h.val[s] = "torch" /\ e.stored[s] = "off"
  <2>1. \/ d.stored[s] = Coded(h.val[s])
        \/ s = "flash_mode" /\ h.val[s] = "torch" /\ d.stored[s] = "off"
    BY DEF Reported
  <2>2. \/ e.stored[s] = d.stored[s]
        \/ s = "flash_mode" /\ d.stored[s] = "torch" /\ e.stored[s] = "off"
    BY <1>1 DEF Keeps
  <2>3. Coded(h.val[s]) = "torch" => h.val[s] = "torch"
    BY DEF Coded
  <2>4. QED
    BY <2>1, <2>2, <2>3
<1>3. QED
  BY <1>2 DEF Reported, Keeps

\* An accepted request leaves one.
LEMMA ApplyReported ==
  ASSUME NEW camera \in {"back", "front"}, NEW h, NEW d, Good(d), NEW p, Submitted(p),
         NEW bad, KeepsSize /\ d.cam.streaming => ~Resizes(d, p),
         Resizes(d, p) \/ h.val["size"] = d.size,
         ApplyTo(camera, h, d, p, bad).ok
  PROVE  Reported(camera, ApplyTo(camera, h, d, p, bad).hal,
                  ApplyTo(camera, h, d, p, bad).dev)
<1> DEFINE asked == AskedFor(p)
           done == Done(camera, d, p, bad)
           new == ApplyTo(camera, h, d, p, bad).hal
           e == ApplyTo(camera, h, d, p, bad).dev
           scene == p["scene_mode"]
<1>1. /\ e.size = IF Resizes(d, p) THEN p["size"] ELSE d.size
      /\ \A s \in Recognised(camera, asked) : e.stored[s] = Coded(asked[s])
  BY ApplyGood
<1>2. /\ new.val["size"] = IF Resizes(d, p) THEN p["size"] ELSE h.val["size"]
      /\ \A k \in done : new.val[k] = asked[k]
      /\ new.val["fps"] = FpsFor(camera, h, p)
  BY ApplyVal
<1>3. /\ Plain \subseteq done /\ done = Recognised(camera, asked)
      /\ camera = "back" => done = Settings
  BY ApplyOk
<1>4. /\ new.flashes = FlashesFor(camera, h, scene)
      /\ new.distances = IF camera = "back" /\ "focus_mode" \in Recognised(camera, asked)
                           THEN asked["focus_mode"] ELSE h.distances
  BY ApplyRest
<1>5. /\ "scene_mode" \in done => camera = "back" /\ asked["scene_mode"] \in KnownScenes
      /\ "flash_mode" \in done => asked["flash_mode"] \in AllFlashes
  BY <1>3, RecognisedAre
<1>6. /\ asked["scene_mode"] = scene
      /\ asked["flash_mode"] = IF scene = "auto" THEN p["flash_mode"]
                               ELSE IF scene \in AutoFlashScenes THEN "auto" ELSE "off"
  BY AskedForFields, KeysAre
<1> HIDE DEF asked, done, new, e, scene
<1>7. \A s \in IF camera = "back" THEN Settings ELSE Plain :
        e.stored[s] = Coded(new.val[s])
  BY <1>1, <1>2, <1>3
<1>8. ASSUME camera = "back"
      PROVE  /\ new.val["flash_mode"] \in new.flashes
             /\ new.val["fps"] = "4-30" <=> new.val["scene_mode"] = "night"
             /\ new.distances = new.val["focus_mode"]
  <2>1. /\ new.val["scene_mode"] = scene /\ scene \in KnownScenes
        /\ new.val["flash_mode"] = asked["flash_mode"]
        /\ asked["flash_mode"] \in AllFlashes
        /\ new.val["focus_mode"] = asked["focus_mode"]
        /\ "focus_mode" \in Recognised(camera, asked)
    BY <1>2, <1>3, <1>5, <1>6, <1>8, KeysAre
  <2>2. new.val["flash_mode"] \in new.flashes
    <3>1. CASE scene = "auto"
      BY <1>4, <1>8, <2>1, <3>1 DEF FlashesFor, AutoFlashScenes, NoFlashScenes
    <3>2. CASE scene \in AutoFlashScenes
      BY <1>4, <1>6, <1>8, <2>1, <3>2 DEF FlashesFor, AutoFlashScenes, NoFlashScenes
    <3>3. CASE scene \in NoFlashScenes
      BY <1>4, <1>6, <1>8, <2>1, <3>3 DEF FlashesFor, AutoFlashScenes, NoFlashScenes
    <3>4. QED
      BY <2>1, <3>1, <3>2, <3>3 DEF KnownScenes
  <2>3. new.val["fps"] = "4-30" <=> new.val["scene_mode"] = "night"
    BY <1>2, <1>8, <2>1 DEF FpsFor, scene
  <2>4. QED
    BY <1>4, <1>8, <2>1, <2>2, <2>3
<1>9. QED
  BY <1>1, <1>2, <1>7, <1>8 DEF Reported, new, e

-----------------------------------------------------------------------------
(* The invariant.                                                            *)

StateOK ==
  /\ open \in {"none", "back", "front"}
  /\ accepted \in BOOLEAN /\ atWork \in BOOLEAN
  /\ mPreviewRunning \in BOOLEAN /\ mPreviewStartDeferred \in BOOLEAN
  /\ mPreviewWindow \in BOOLEAN
  /\ mRecordRunning \in BOOLEAN /\ mCaptureInProgress \in BOOLEAN
  /\ geometry \in Sizes \cup {Unset} /\ heap \in Sizes \cup {Unset}
  /\ opens \in 0..MaxOpens

\* The report of an open camera is well formed.
HalOK ==
  /\ open # "none" => \A k \in Keys : hal.val[k] \in Reports(open, k)
  /\ hal.flashes \subseteq AllFlashes

\* The device agrees with itself, and of its size with the report.
DevOK ==
  /\ Good(dev)
  /\ open = "none" => ~dev.cam.streaming
  /\ open # "none" => dev.cam.init /\ hal.val["size"] = dev.size

\* So do the buffers that preview has been laid out with.
WorkOK ==
  /\ open = "none" => ~atWork /\ ~mRecordRunning /\ ~mCaptureInProgress
  /\ mPreviewWindow => open # "none" /\ geometry = dev.size
  /\ KeepsSize /\ atWork => heap = dev.size

ParamInv == StateOK /\ HalOK /\ DevOK /\ WorkOK /\ AcceptedReported

\* Steps that only start and stop things leave report and device of one piece.
LEMMA QuietStep ==
  ASSUME ParamInv, open # "none", UNCHANGED <<open, hal>>,
         accepted' = accepted \/ accepted' = FALSE, Good(dev'), Keeps(dev, dev')
  PROVE  HalOK' /\ DevOK' /\ AcceptedReported' /\ dev'.size = dev.size
<1>1. HalOK'
  BY DEF ParamInv, HalOK
<1>2. DevOK'
  BY DEF ParamInv, DevOK, Keeps
<1>3. accepted' => Reported(open, hal, dev')
  BY ReportedIs, ReportedKeeps DEF ParamInv
<1>4. AcceptedReported'
  BY <1>3 DEF AcceptedReported, Reported
<1>5. QED
  BY <1>1, <1>2, <1>4 DEF Keeps

\* A device keeps what it has when nothing happens.
LEMMA KeepsSelf == \A d : Keeps(d, d)
BY DEF Keeps

\* Starting: what startPreviewInternal() does.
LEMMA StartInternalGood ==
  ASSUME ParamInv, StartInternal(dev)
  PROVE  /\ Good(dev') /\ Keeps(dev, dev')
         /\ atWork' \in BOOLEAN /\ heap' \in Sizes \cup {Unset}
         /\ mPreviewStartDeferred' \in BOOLEAN
         /\ KeepsSize /\ atWork' => heap' = dev.size
<1>1. PICK r \in StartSensor(open, dev) :
        /\ dev' = r.dev
        /\ atWork' = (r.ret = 0)
        /\ heap' = IF r.ret = 0 THEN r.dev.size ELSE heap
        /\ mPreviewStartDeferred' = (mPreviewRunning /\ mPreviewStartDeferred /\ r.ret # 0)
  BY DEF StartInternal
<1>2. Good(r.dev) /\ Keeps(dev, r.dev)
  BY StartSensorGood DEF ParamInv, DevOK
<1>3. r.dev.size \in Sizes \cup {Unset}
  BY <1>2, DeviceFields DEF Good
<1>4. QED
  BY <1>1, <1>2, <1>3 DEF ParamInv, StateOK, Keeps

\* Stopping: what the preview thread does when it is told to.
LEMMA StopGood ==
  ASSUME ParamInv, Stop
  PROVE  /\ Good(dev') /\ Keeps(dev, dev')
         /\ atWork' \in BOOLEAN /\ heap' \in Sizes \cup {Unset}
         /\ KeepsSize /\ atWork' => heap' = dev.size
         /\ atWork' => atWork
<1>1. CASE mPreviewRunning /\ ~mPreviewStartDeferred
  <2>1. dev' \in StopSensor(dev) /\ atWork' = FALSE /\ heap' = Unset
    BY <1>1 DEF Stop
  <2>2. QED
    BY <2>1, StopSensorGood DEF ParamInv, DevOK
<1>2. CASE ~(mPreviewRunning /\ ~mPreviewStartDeferred)
  <2>1. UNCHANGED <<dev, atWork, heap>>
    BY <1>2 DEF Stop
  <2>2. QED
    BY <2>1, KeepsSelf DEF ParamInv, StateOK, DevOK, WorkOK
<1>3. QED
  BY <1>1, <1>2

\* What a client submits.
LEMMA RequestsAre ==
  ASSUME NEW camera \in {"back", "front"}, NEW v, v["size"] \in Sizes,
         NEW p \in Requests(camera, v)
  PROVE  Submitted(p)
<1>1. PICK e \in Edits[camera] : p = [k \in Keys |-> IF k \in DOMAIN e THEN e[k] ELSE v[k]]
  BY DEF Requests
<1>2. \A k \in DOMAIN e : e[k] \in Names(camera, k)
  BY DEF Edits
<1>3. Names(camera, "size") = Sizes \cup {Invalid}
  BY KeysAre DEF Names
<1>4. "size" \in Keys
  BY KeysAre
<1>5. p["size"] \in Sizes \cup {Invalid}
  BY <1>1, <1>2, <1>3, <1>4
<1>6. p = [k \in Keys |-> p[k]]
  BY <1>1
<1>7. QED
  BY <1>5, <1>6 DEF Submitted

\* initDefaultParameters() submits what it has put into mParameters.
LEMMA DefaultsAre ==
  ASSUME NEW camera \in {"back", "front"}
  PROVE  LET h == Defaults(camera)
         IN  /\ \A k \in Keys : h.val[k] \in Reports(camera, k)
             /\ h.flashes \subseteq AllFlashes
             /\ Submitted(h.val)
<1> DEFINE h == Defaults(camera)
           back == camera = "back"
<1>1. h.val = [k \in Keys |->
                 CASE k \in Plain       -> DefaultValue
                   [] k = "scene_mode"  -> IF back THEN "auto" ELSE Absent
                   [] k = "flash_mode"  -> IF back THEN "off" ELSE Absent
                   [] k = "focus_mode"  -> IF back THEN "auto" ELSE "fixed"
                   [] k = "size"        -> IF back THEN BackSize ELSE FrontSize
                   [] k = "fps"         -> IF back THEN "15-30" ELSE "7.5-30"]
  BY DEF Defaults
<1>2. h.flashes \subseteq AllFlashes
  BY DEF Defaults
<1> HIDE DEF h
<1>3. \A k \in Plain : h.val[k] = DefaultValue
  BY <1>1, KeysAre
<1>4. h.val["scene_mode"] = IF back THEN "auto" ELSE Absent
  BY <1>1, KeysAre
<1>5. h.val["flash_mode"] = IF back THEN "off" ELSE Absent
  BY <1>1, KeysAre
<1>6. h.val["focus_mode"] = IF back THEN "auto" ELSE "fixed"
  BY <1>1, KeysAre
<1>7. h.val["size"] = IF back THEN BackSize ELSE FrontSize
  BY <1>1, KeysAre
<1>8. h.val["fps"] = IF back THEN "15-30" ELSE "7.5-30"
  BY <1>1, KeysAre
<1>9. \A k \in Plain : h.val[k] \in Reports(camera, k)
  BY <1>3, ReportsAre
<1>10. h.val["scene_mode"] \in Reports(camera, "scene_mode")
  BY <1>4, KeysAre DEF Reports, KnownScenes
<1>11. h.val["flash_mode"] \in Reports(camera, "flash_mode")
  BY <1>5, KeysAre DEF Reports, AllFlashes
<1>12. h.val["focus_mode"] \in Reports(camera, "focus_mode")
  BY <1>6, KeysAre DEF Reports, BackFocusModes
<1>13. h.val["size"] \in Reports(camera, "size")
  BY <1>7, ReportsAre
<1>14. h.val["fps"] \in Reports(camera, "fps")
  BY <1>8, KeysAre DEF Reports
<1>15. \A k \in Keys : h.val[k] \in Reports(camera, k)
  BY <1>9, <1>10, <1>11, <1>12, <1>13, <1>14, KeysAre
<1>16. Submitted(h.val)
  <2>1. h.val["size"] \in Sizes \cup {Invalid}
    BY <1>7
  <2>2. h.val = [k \in Keys |-> h.val[k]]
    BY <1>1
  <2>3. QED
    BY <2>1, <2>2 DEF Submitted
<1>17. QED
  BY <1>2, <1>15, <1>16 DEF h

-----------------------------------------------------------------------------
(* The steps.                                                                *)

\* The invariant holds before the first open().
LEMMA ParamInit == Init => ParamInv
<1> SUFFICES ASSUME Init PROVE ParamInv
  OBVIOUS
<1>1. StateOK
  <2>1. opens \in 0..MaxOpens
    BY DEF Init
  <2>2. QED
    BY <2>1 DEF Init, StateOK
<1>2. HalOK
  BY DefaultsAre DEF Init, HalOK
<1>3. DevOK
  BY NewDeviceGood DEF Init, DevOK, NewDevice, NewCamera
<1>4. WorkOK
  BY DEF Init, WorkOK
<1>5. AcceptedReported
  BY DEF Init, AcceptedReported
<1>6. QED
  BY <1>1, <1>2, <1>3, <1>4, <1>5 DEF ParamInv

\* setParameters(), of an open camera or of the constructor.
LEMMA ApplyStep ==
  ASSUME NEW camera \in {"back", "front"}, NEW h, NEW d, Good(d), NEW p, Submitted(p),
         NEW bad, KeepsSize /\ d.cam.streaming => ~Resizes(d, p),
         \A k \in Keys : h.val[k] \in Reports(camera, k), h.flashes \subseteq AllFlashes,
         h.val["size"] = d.size \/ h.val["size"] = p["size"],
         open' = camera, d.cam.init,
         hal' = ApplyTo(camera, h, d, p, bad).hal, dev' = ApplyTo(camera, h, d, p, bad).dev,
         accepted' = ApplyTo(camera, h, d, p, bad).ok
  PROVE  HalOK' /\ DevOK' /\ AcceptedReported'
<1>1. HalOK'
  BY ApplyReports DEF HalOK
<1>2. /\ Good(dev') /\ dev'.cam = d.cam
      /\ dev'.size = IF Resizes(d, p) THEN p["size"] ELSE d.size
  BY ApplyGood
<1>3. hal'.val["size"] = IF Resizes(d, p) THEN p["size"] ELSE h.val["size"]
  BY ApplyVal
<1>4. Resizes(d, p) \/ h.val["size"] = d.size
  <2>1. Unset # Invalid /\ Invalid \notin Sizes
    BY DEF Unset, Invalid
  <2>2. h.val["size"] \in Sizes
    BY KeysAre, ReportsAre
  <2>3. QED
    BY <2>1, <2>2 DEF Resizes
<1>5. DevOK'
  BY <1>2, <1>3, <1>4 DEF DevOK
<1>6. accepted' => Reported(open', hal', dev')
  BY <1>4, ApplyReported
<1>7. AcceptedReported'
  BY <1>6 DEF AcceptedReported, Reported
<1>8. QED
  BY <1>1, <1>5, <1>7

\* open(): a new CameraHardwareSec sets the default values.
LEMMA OpenStep ==
  ASSUME ParamInv, NEW camera \in {"back", "front"}, Open(camera)
  PROVE  ParamInv'
<1>1. PICK r \in InitCamera(dev.cam) :
        \E bad \in Faults([dev EXCEPT !.cam = r.cam]) :
          LET h == Defaults(camera)
              a == ApplyTo(camera, h, [dev EXCEPT !.cam = r.cam], h.val, bad)
          IN  r.ret = 0 /\ hal' = a.hal /\ dev' = a.dev /\ accepted' = a.ok
  BY DEF Open
<1> DEFINE h == Defaults(camera)
           d == [dev EXCEPT !.cam = r.cam]
<1>2. PICK bad :
        /\ r.ret = 0
        /\ hal' = ApplyTo(camera, h, d, h.val, bad).hal
        /\ dev' = ApplyTo(camera, h, d, h.val, bad).dev
        /\ accepted' = ApplyTo(camera, h, d, h.val, bad).ok
  BY <1>1
<1>3. /\ open = "none" /\ open' = camera /\ opens' = opens + 1 /\ opens < MaxOpens
      /\ UNCHANGED <<preview, mRecordRunning, mCaptureInProgress>>
  BY DEF Open
<1>4. dev.cam \in Camera /\ ~dev.cam.streaming /\ dev \in Device
  BY <1>3, DeviceFields DEF ParamInv, DevOK, Good
<1>5. r.cam \in Camera /\ r.cam.init /\ ~r.cam.streaming /\ r.cam.started = dev.cam.started
  <2> DEFINE c == dev.cam
             ready == [c EXCEPT !.init = TRUE, !.fd = TRUE, !.fd2 = TRUE]
  <2>1. /\ ready \in Camera /\ ready.init /\ ready.streaming = c.streaming
        /\ ready.started = c.started
    BY <1>4 DEF Camera
  <2>2. r \in {Result(0, IF c.init THEN c ELSE ready)} \/ r.ret = -1
    <3>1. \/ r \in {Result(0, IF c.init THEN c ELSE ready)}
          \/ \E x : r = Result(-1, x)
      BY DEF InitCamera, IfFaulty
    <3>2. QED
      BY <3>1, ResultFields
  <2> HIDE DEF ready
  <2>3. QED
    BY <1>2, <1>4, <2>1, <2>2, ResultFields
<1>6. /\ d \in Device /\ d.cam = r.cam /\ d.size = dev.size /\ d.frames = dev.frames
      /\ d.stored = dev.stored /\ d.sensor = dev.sensor /\ d.missed = dev.missed
  BY <1>4, <1>5, WithCam
<1>7. /\ \A k \in Keys : h.val[k] \in Reports(camera, k)
      /\ h.flashes \subseteq AllFlashes /\ Submitted(h.val)
  BY DefaultsAre
<1> HIDE DEF d, h
<1>8. Good(d)
  BY <1>5, <1>6 DEF ParamInv, DevOK, Good, Streams, Follows, TorchRight
<1>9. HalOK' /\ DevOK' /\ AcceptedReported'
  BY <1>2, <1>3, <1>5, <1>6, <1>7, <1>8, ApplyStep
<1>10. StateOK'
  <2>1. accepted' \in BOOLEAN
    BY <1>2 DEF ApplyTo
  <2>2. opens' \in 0..MaxOpens
    BY <1>3 DEF ParamInv, StateOK
  <2>3. QED
    BY <1>3, <2>1, <2>2 DEF ParamInv, StateOK, preview
<1>11. WorkOK'
  <2>1. ~atWork /\ ~mPreviewWindow
    BY <1>3 DEF ParamInv, WorkOK
  <2>2. QED
    BY <1>3, <2>1 DEF WorkOK, preview
<1>12. QED
  BY <1>9, <1>10, <1>11 DEF ParamInv

\* setParameters(), with any request.
LEMMA SetParametersStep ==
  ASSUME ParamInv, SetParameters
  PROVE  ParamInv'
<1>1. PICK p \in Requests(open, hal.val), bad \in Faults(dev) :
        /\ KeepsSize /\ (atWork \/ dev.cam.started) => p["size"] = dev.size
        /\ hal' = ApplyTo(open, hal, dev, p, bad).hal
        /\ dev' = ApplyTo(open, hal, dev, p, bad).dev
        /\ geometry' = ApplyTo(open, hal, dev, p, bad).geometry
        /\ accepted' = ApplyTo(open, hal, dev, p, bad).ok
  BY DEF SetParameters
<1>2. /\ open \in {"back", "front"} /\ open' = open
      /\ UNCHANGED <<mPreviewRunning, mPreviewStartDeferred, mPreviewWindow, heap,
                     atWork, mRecordRunning, mCaptureInProgress, opens>>
  BY DEF SetParameters, ParamInv, StateOK
<1>3. /\ Good(dev) /\ dev.cam.init /\ hal.val["size"] = dev.size
      /\ \A k \in Keys : hal.val[k] \in Reports(open, k)
      /\ hal.flashes \subseteq AllFlashes
  BY <1>2 DEF ParamInv, DevOK, HalOK
<1>4. hal.val["size"] \in Sizes
  BY <1>2, <1>3, KeysAre, ReportsAre
<1>5. Submitted(p)
  BY <1>2, <1>4, RequestsAre
<1>6. KeepsSize /\ (atWork \/ dev.cam.streaming) => ~Resizes(dev, p)
  BY <1>1, <1>3 DEF Good, Streams, Resizes
<1>7. HalOK' /\ DevOK' /\ AcceptedReported'
  BY <1>1, <1>2, <1>3, <1>5, <1>6, ApplyStep
<1>8. /\ dev'.size = IF Resizes(dev, p) THEN p["size"] ELSE dev.size
      /\ geometry' = IF Resizes(dev, p) /\ mPreviewWindow THEN p["size"] ELSE geometry
  BY <1>1, <1>3, <1>5, <1>6, ApplyGood, ApplyGeometry DEF GeometryFor
<1>9. StateOK'
  <2>1. accepted' \in BOOLEAN
    BY <1>1 DEF ApplyTo
  <2>2. geometry' \in Sizes \cup {Unset}
    BY <1>5, <1>8 DEF ParamInv, StateOK, Submitted, Resizes
  <2>3. QED
    BY <1>2, <2>1, <2>2 DEF ParamInv, StateOK
<1>10. WorkOK'
  BY <1>2, <1>6, <1>8 DEF ParamInv, WorkOK
<1>11. QED
  BY <1>7, <1>9, <1>10 DEF ParamInv

\* startPreview(), whether the driver call is deferred or not.
LEMMA StartPreviewCallStep ==
  ASSUME ParamInv, StartPreviewCall
  PROVE  ParamInv'
<1>1. /\ open # "none" /\ mPreviewRunning' = TRUE
      /\ UNCHANGED <<open, hal, accepted, mPreviewWindow, geometry, mRecordRunning,
                     mCaptureInProgress, opens>>
  BY DEF StartPreviewCall
<1>2. /\ Good(dev') /\ Keeps(dev, dev')
      /\ atWork' \in BOOLEAN /\ heap' \in Sizes \cup {Unset}
      /\ mPreviewStartDeferred' \in BOOLEAN
      /\ KeepsSize /\ atWork' => heap' = dev.size
  <2>1. CASE mPreviewWindow
    BY <2>1, StartInternalGood DEF StartPreviewCall
  <2>2. CASE ~mPreviewWindow
    BY <2>2, KeepsSelf DEF StartPreviewCall, ParamInv, StateOK, DevOK, WorkOK
  <2>3. QED
    BY <2>1, <2>2
<1>3. HalOK' /\ DevOK' /\ AcceptedReported' /\ dev'.size = dev.size
  BY <1>1, <1>2, QuietStep
<1>4. StateOK'
  BY <1>1, <1>2 DEF ParamInv, StateOK
<1>5. WorkOK'
  BY <1>1, <1>2, <1>3 DEF ParamInv, WorkOK
<1>6. QED
  BY <1>3, <1>4, <1>5 DEF ParamInv

\* setPreviewWindow() sets the geometry and may start the deferred preview.
LEMMA SetPreviewWindowStep ==
  ASSUME ParamInv, SetPreviewWindow
  PROVE  ParamInv'
<1>1. /\ open # "none" /\ mPreviewWindow' = TRUE /\ geometry' = hal.val["size"]
      /\ UNCHANGED <<open, hal, accepted, mRecordRunning, mCaptureInProgress, opens>>
  BY DEF SetPreviewWindow
<1>2. /\ Good(dev') /\ Keeps(dev, dev')
      /\ atWork' \in BOOLEAN /\ heap' \in Sizes \cup {Unset}
      /\ mPreviewRunning' \in BOOLEAN /\ mPreviewStartDeferred' \in BOOLEAN
      /\ KeepsSize /\ atWork' => heap' = dev.size
  <2>1. CASE mPreviewRunning /\ mPreviewStartDeferred
    BY <2>1, StartInternalGood DEF SetPreviewWindow, ParamInv, StateOK
  <2>2. CASE ~(mPreviewRunning /\ mPreviewStartDeferred)
    BY <2>2, StopGood DEF SetPreviewWindow, ParamInv, StateOK
  <2>3. QED
    BY <2>1, <2>2
<1>3. HalOK' /\ DevOK' /\ AcceptedReported' /\ dev'.size = dev.size
  BY <1>1, <1>2, QuietStep
<1>4. geometry' = dev.size /\ geometry' \in Sizes \cup {Unset}
  BY <1>1, DeviceFields DEF ParamInv, DevOK, Good
<1>5. StateOK'
  BY <1>1, <1>2, <1>4 DEF ParamInv, StateOK
<1>6. WorkOK'
  BY <1>1, <1>2, <1>3, <1>4 DEF ParamInv, WorkOK
<1>7. QED
  BY <1>3, <1>5, <1>6 DEF ParamInv

\* stopPreview(), and the stop in takePicture().
LEMMA StopStep ==
  ASSUME ParamInv, StopPreviewCall \/ TakePicture
  PROVE  ParamInv'
<1>1. /\ open # "none" /\ Stop /\ mPreviewRunning' = FALSE
      /\ mCaptureInProgress' \in BOOLEAN
      /\ UNCHANGED <<open, hal, accepted, mPreviewStartDeferred, mPreviewWindow,
                     geometry, mRecordRunning, opens>>
  BY DEF StopPreviewCall, TakePicture, ParamInv, StateOK
<1>2. /\ Good(dev') /\ Keeps(dev, dev')
      /\ atWork' \in BOOLEAN /\ heap' \in Sizes \cup {Unset}
      /\ KeepsSize /\ atWork' => heap' = dev.size
  BY <1>1, StopGood
<1>3. HalOK' /\ DevOK' /\ AcceptedReported' /\ dev'.size = dev.size
  BY <1>1, <1>2, QuietStep
<1>4. StateOK'
  BY <1>1, <1>2 DEF ParamInv, StateOK
<1>5. WorkOK'
  BY <1>1, <1>2, <1>3 DEF ParamInv, WorkOK
<1>6. QED
  BY <1>3, <1>4, <1>5 DEF ParamInv

\* The steps that leave the preview of the HAL alone.
LEMMA DeviceStep ==
  ASSUME ParamInv, Reset \/ PictureTaken \/ StartRecording \/ StopRecording
  PROVE  ParamInv'
<1>1. open # "none"
  BY DEF ParamInv, WorkOK, Reset, PictureTaken, StartRecording, StopRecording
<1>2. /\ UNCHANGED <<open, hal, accepted, preview, opens>>
      /\ mRecordRunning' \in BOOLEAN /\ mCaptureInProgress' \in BOOLEAN
  BY DEF ParamInv, StateOK, Reset, PictureTaken, StartRecording, StopRecording
<1>3. Good(dev) /\ dev.cam \in Camera
  BY DeviceFields DEF ParamInv, DevOK, Good
<1>4. Good(dev') /\ Keeps(dev, dev')
  <2>1. CASE Reset
    <3>1. PICK d \in StopSensor(dev) :
            \/ dev' = d
            \/ \E r \in StartSensor(open, Forget(d, Settings)) : dev' = r.dev
      BY <2>1 DEF Reset
    <3>2. Good(d) /\ Keeps(dev, d)
      BY <1>3, StopSensorGood
    <3>3. Good(Forget(d, Settings)) /\ Keeps(d, Forget(d, Settings))
      BY <3>2, ForgetGood
    <3>4. CASE dev' = d
      BY <3>2, <3>4
    <3>5. ASSUME NEW r \in StartSensor(open, Forget(d, Settings)), dev' = r.dev
          PROVE  Good(dev') /\ Keeps(dev, dev')
      BY <3>2, <3>3, <3>5, StartSensorGood, KeepsTwice
    <3>6. QED
      BY <3>1, <3>4, <3>5
  <2>2. CASE PictureTaken
    BY <1>3, <2>2, StopSensorGood DEF PictureTaken
  <2>3. CASE StartRecording
    <3>1. PICK r \in StartRecord(dev.cam) : dev' = [dev EXCEPT !.cam = NoStream(r.cam)]
      BY <2>3 DEF StartRecording
    <3>2. QED
      BY <1>3, <3>1, StartRecordSame, SameViewGood
  <2>4. CASE StopRecording
    <3>1. PICK r \in StopRecord(dev.cam) : dev' \in StopRecorder(open, dev, r)
      BY <2>4 DEF StopRecording
    <3>2. QED
      BY <1>3, <3>1, StopRecorderGood
  <2>5. QED
    BY <2>1, <2>2, <2>3, <2>4
<1>5. HalOK' /\ DevOK' /\ AcceptedReported' /\ dev'.size = dev.size
  BY <1>1, <1>2, <1>4, QuietStep
<1>6. StateOK'
  BY <1>2 DEF ParamInv, StateOK, preview
<1>7. WorkOK'
  BY <1>1, <1>2, <1>5 DEF ParamInv, WorkOK, preview
<1>8. QED
  BY <1>5, <1>6, <1>7 DEF ParamInv

\* A request that is turned away, and a window that is taken away.
LEMMA PlainStep ==
  ASSUME ParamInv, RefuseParameters \/ ClearPreviewWindow
  PROVE  ParamInv'
<1>1. /\ open # "none" /\ UNCHANGED <<open, hal, dev, mPreviewRunning,
           mPreviewStartDeferred, heap, atWork, mRecordRunning, mCaptureInProgress, opens>>
      /\ accepted' = accepted \/ accepted' = FALSE
      /\ UNCHANGED <<mPreviewWindow, geometry>>
           \/ (mPreviewWindow' = FALSE /\ geometry' = Unset)
  BY DEF RefuseParameters, ClearPreviewWindow, preview
<1>2. Good(dev')
  BY <1>1 DEF ParamInv, DevOK
<1>3. HalOK' /\ DevOK' /\ AcceptedReported'
  BY <1>1, <1>2, KeepsSelf, QuietStep
<1>4. StateOK'
  BY <1>1 DEF ParamInv, StateOK
<1>5. WorkOK'
  BY <1>1 DEF ParamInv, WorkOK
<1>6. QED
  BY <1>3, <1>4, <1>5 DEF ParamInv

\* release() forgets everything in the device.
LEMMA ReleaseStep ==
  ASSUME ParamInv, Release
  PROVE  ParamInv'
<1>0. PICK d \in StopSensor(dev) :
        \E c \in DeinitCamera(d.cam) :
          dev' = [Forget(d, {}) EXCEPT !.cam = c, !.frames = Unset]
  BY DEF Release
<1>1. PICK c \in DeinitCamera(d.cam) :
        dev' = [Forget(d, {}) EXCEPT !.cam = c, !.frames = Unset]
  BY <1>0
<1>2. /\ open # "none" /\ open' = "none" /\ accepted' = FALSE
      /\ mPreviewRunning' = FALSE /\ mPreviewStartDeferred' = FALSE
      /\ mPreviewWindow' = FALSE /\ geometry' = Unset /\ heap' = Unset /\ atWork' = FALSE
      /\ mRecordRunning' = FALSE /\ mCaptureInProgress' = FALSE
      /\ UNCHANGED <<hal, opens>>
  BY DEF Release
<1>3. Good(d) /\ Keeps(dev, d) /\ d.cam.init
  BY <1>2, StopSensorGood DEF ParamInv, DevOK, Keeps
<1>4. d.cam \in Camera /\ d \in Device
  BY <1>3, DeviceFields DEF Good
<1>5. c \in Camera /\ ~c.streaming
  <2>1. PICK r \in StopRecord(d.cam) :
          c = [r.cam EXCEPT !.init = FALSE, !.fd = FALSE, !.fd2 = FALSE,
                            !.streaming = FALSE, !.recStreaming = FALSE]
    BY <1>3 DEF DeinitCamera
  <2>2. r.cam \in Camera
    BY <1>4, StopRecordSame DEF SameView
  <2>3. QED
    BY <2>1, <2>2 DEF Camera
<1> DEFINE f == Forget(d, {})
<1>6. f \in Device /\ f.sensor = [s \in Settings |-> Unset]
  BY <1>4, ForgetFields
<1>7. dev' = [f EXCEPT !.cam = c, !.frames = Unset]
  BY <1>1
<1> HIDE DEF f
<1>8. dev' \in Device /\ dev'.cam = c /\ dev'.sensor = f.sensor
  BY <1>5, <1>6, <1>7 DEF Device
<1>9. "flash_mode" \in Settings /\ Unset # "torch"
  BY KeysAre DEF Unset
<1>10. Good(dev')
  BY <1>5, <1>6, <1>8, <1>9 DEF Good, Streams, Follows, TorchRight
<1>11. DevOK'
  BY <1>2, <1>5, <1>8, <1>10 DEF DevOK
<1>12. HalOK' /\ WorkOK' /\ AcceptedReported'
  BY <1>2 DEF ParamInv, HalOK, WorkOK, AcceptedReported
<1>13. StateOK'
  BY <1>2 DEF ParamInv, StateOK
<1>14. QED
  BY <1>11, <1>12, <1>13 DEF ParamInv

\* Every step keeps the invariant.
LEMMA ParamStep == ParamInv /\ [Next]_vars => ParamInv'
<1> SUFFICES ASSUME ParamInv, [Next]_vars PROVE ParamInv'
  OBVIOUS
<1>1. CASE UNCHANGED vars
  BY <1>1 DEF vars, preview, ParamInv, StateOK, HalOK, DevOK, WorkOK, AcceptedReported
<1>2. CASE Next
  BY <1>2, OpenStep, SetParametersStep, StartPreviewCallStep, SetPreviewWindowStep,
     StopStep, DeviceStep, PlainStep, ReleaseStep DEF Next
<1>3. QED
  BY <1>1, <1>2

\* The invariant holds in every state that open(), setParameters() and the calls
\* that start and stop the streams can lead to.
THEOREM ParamInvariant == Spec => []ParamInv
BY ParamInit, ParamStep, PTL DEF Spec

-----------------------------------------------------------------------------
(* What follows from it.                                                     *)

\* Reports, settings and sizes have the values the code gives them.
THEOREM ParametersTypeCorrect == Spec => []TypeOK
<1>1. ParamInv => TypeOK
  BY DeviceFields DEF ParamInv, StateOK, HalOK, DevOK, Good, TypeOK
<1>2. QED
  BY <1>1, ParamInvariant, PTL

\* While clients keep the size as long as preview is on, starts that fail, deferred
\* starts, windows that come and go and resets leave no frame of a size that the
\* driver, the heap or the window was not laid out for.
THEOREM SizesAgreeHolds ==
  ASSUME KeepsSize
  PROVE  Spec => []SizesAgree
<1>1. ParamInv => SizesAgree
  BY DEF ParamInv, DevOK, WorkOK, Good, Streams, SizesAgree
<1>2. QED
  BY <1>1, ParamInvariant, PTL

\* For every set of values: what SecCamera has stored is what the streaming sensor was
\* told, but for the settings the driver has refused.
THEOREM SensorFollowsHolds == Spec => []SensorFollows
<1>1. ParamInv => SensorFollows
  BY DEF ParamInv, DevOK, Good, Follows, SensorFollows
<1>2. QED
  BY <1>1, ParamInvariant, PTL

\* No torch outlives preview, but one that the driver has refused to put out.
THEOREM TorchOutHolds == Spec => []TorchOut
<1>1. ParamInv => TorchOut
  BY DEF ParamInv, DevOK, Good, TorchRight, TorchOut
<1>2. QED
  BY <1>1, ParamInvariant, PTL

\* For every set of values and any number of requests before it, an accepted
\* setParameters() leaves a report of one piece with itself and with SecCamera.
THEOREM AcceptedReportedHolds == Spec => []AcceptedReported
<1>1. ParamInv => AcceptedReported
  BY DEF ParamInv
<1>2. QED
  BY <1>1, ParamInvariant, PTL
=============================================================================
