-------------------------- MODULE SecCamera_proofs --------------------------
(***************************************************************************)
(* What the SecCamera operators return, for every camera state: lemmas for *)
(* the proofs about the modules that call them.                            *)
(***************************************************************************)
EXTENDS SecCamera, TLAPS

\* What a modelled call may return.
Reply == [ret : Int, cam : Camera]

\* Result builds a reply.
LEMMA ResultType == \A n \in Int, d \in Camera : Result(n, d) \in Reply
BY DEF Result, Reply

\* The fields of a reply have their types.
LEMMA ReplyFields == \A r \in Reply : r.ret \in Int /\ r.cam \in Camera
BY DEF Reply

\* The fields of a reply are what Result was given.
LEMMA ResultFields == \A n, d : Result(n, d).ret = n /\ Result(n, d).cam = d
BY DEF Result

\* The object the process starts with is a camera.
LEMMA NewCameraType == NewCamera \in Camera
BY DEF NewCamera, Camera

\* initCamera() returns a camera.
LEMMA InitCameraType ==
  ASSUME NEW c \in Camera PROVE InitCamera(c) \subseteq Reply
<1>. DEFINE ready == [c EXCEPT !.init = TRUE, !.fd = TRUE, !.fd2 = TRUE]
            shut == [c EXCEPT !.fd = FALSE]
            half(b) == [c EXCEPT !.fd = TRUE, !.fd2 = b]
<1>1. ready \in Camera /\ shut \in Camera /\ \A b \in BOOLEAN : half(b) \in Camera
  BY DEF Camera
<1>2. \A r \in InitCamera(c) :
        \/ r \in {Result(0, c), Result(0, ready), Result(-1, shut)}
        \/ \E b \in BOOLEAN : r = Result(-1, half(b))
  BY DEF InitCamera, IfFaulty
<1>. HIDE DEF ready, shut, half
<1>3. QED
  BY <1>1, <1>2, ResultType

\* startRecord() returns a camera.
LEMMA StartRecordType ==
  ASSUME NEW c \in Camera PROVE StartRecord(c) \subseteq Reply
<1>1. /\ [c EXCEPT !.recStarted = TRUE, !.recStreaming = TRUE] \in Camera
      /\ [c EXCEPT !.recStreaming = TRUE] \in Camera
  BY DEF Camera
<1>2. QED
  BY <1>1, ResultType DEF StartRecord, IfFaulty

\* stopRecord() returns a camera.
LEMMA StopRecordType ==
  ASSUME NEW c \in Camera PROVE StopRecord(c) \subseteq Reply
<1>1. /\ [c EXCEPT !.recStarted = FALSE, !.recStreaming = FALSE] \in Camera
      /\ [c EXCEPT !.recStarted = FALSE] \in Camera
  BY DEF Camera
<1>2. QED
  BY <1>1, ResultType DEF StopRecord, IfFaulty

\* DeinitCamera() returns a camera.
LEMMA DeinitCameraType ==
  ASSUME NEW c \in Camera PROVE DeinitCamera(c) \subseteq Camera
<1>1. \A d \in Camera : [d EXCEPT !.init = FALSE, !.fd = FALSE, !.fd2 = FALSE,
                                  !.streaming = FALSE,
                                  !.recStreaming = FALSE] \in Camera
  BY DEF Camera
<1>2. QED
  BY <1>1, ReplyFields, StopRecordType DEF DeinitCamera

\* startPreview() returns a camera.
LEMMA StartPreviewType ==
  ASSUME NEW c \in Camera PROVE StartPreview(c) \subseteq Reply
<1>1. [c EXCEPT !.started = TRUE, !.streaming = TRUE] \in Camera
  BY DEF Camera
<1>2. QED
  BY <1>1, ResultType DEF StartPreview, IfFaulty

\* stopPreview() returns a camera.
LEMMA StopPreviewType ==
  ASSUME NEW c \in Camera PROVE StopPreview(c) \subseteq Reply
<1>1. [c EXCEPT !.started = FALSE, !.streaming = FALSE] \in Camera
  BY DEF Camera
<1>2. QED
  BY <1>1, ResultType DEF StopPreview, IfFaulty

\* The reset in getPreview() returns a camera.
LEMMA ResetPreviewType ==
  ASSUME NEW c \in Camera PROVE ResetPreview(c) \subseteq Reply
<1>. DEFINE stopped == {s.cam : s \in StopPreview(c)}
            restarted == UNION {StartPreview(s) : s \in stopped}
<1>1. stopped \subseteq Camera
  BY ReplyFields, StopPreviewType
<1>2. restarted \subseteq Reply
  BY <1>1, StartPreviewType
<1>3. \A s \in stopped : Result(-1, s) \in Reply
  BY <1>1, ResultType
<1>. HIDE DEF stopped, restarted
<1>4. \A r \in restarted : Result(IF r.ret < 0 THEN 0 ELSE 1, r.cam) \in Reply
  BY <1>2, ReplyFields, ResultType
<1>5. ResetPreview(c) = {Result(-1, s) : s \in stopped}
        \cup IfFaulty({Result(IF r.ret < 0 THEN 0 ELSE 1, r.cam) :
                         r \in restarted})
  BY DEF ResetPreview, stopped, restarted
<1>6. QED
  BY <1>3, <1>4, <1>5 DEF IfFaulty

\* The first half of getSnapshotAndJpeg() returns a camera.
LEMMA SnapshotBeginType ==
  ASSUME NEW c \in Camera PROVE SnapshotBegin(c) \subseteq Reply
<1>. DEFINE on(d) == [d EXCEPT !.streaming = TRUE, !.mapped = TRUE]
            left(d) == [d EXCEPT !.mapped = TRUE]
<1>1. \A d \in Camera : on(d) \in Camera /\ left(d) \in Camera
  BY DEF Camera
<1>2. \A r \in SnapshotBegin(c) :
        \/ r = Result(-1, c)
        \/ \E s \in StopPreview(c) :
             \/ r = Result(0, on(s.cam))
             \/ r = Result(-1, s.cam)
             \/ r = Result(-1, left(s.cam))
  BY Zenon DEF SnapshotBegin, IfFaulty
<1>. HIDE DEF on, left
<1>3. \A s \in StopPreview(c) : s.cam \in Camera
  BY StopPreviewType, ReplyFields
<1>4. QED
  BY <1>1, <1>2, <1>3, ResultType

\* The second half of getSnapshotAndJpeg() returns a camera.
LEMMA SnapshotEndType ==
  ASSUME NEW c \in Camera PROVE SnapshotEnd(c) \subseteq Reply
<1>. DEFINE off == [c EXCEPT !.streaming = FALSE]
<1>1. off \in Camera
  BY DEF Camera
<1>2. \A r \in SnapshotEnd(c) : \E s \in {c, off} :
        r = Result(0, s) \/ r = Result(-1, s)
  BY Zenon DEF SnapshotEnd, IfFaulty
<1>. HIDE DEF off
<1>3. QED
  BY <1>1, <1>2, ResultType

\* endSnapshot() returns a camera.
LEMMA EndSnapshotType ==
  ASSUME NEW c \in Camera PROVE EndSnapshot(c) \in Camera
BY DEF EndSnapshot, Camera

-----------------------------------------------------------------------------
(* Only a snapshot maps the snapshot buffer: the other calls leave it alone. *)

\* stopPreview() maps and unmaps no snapshot buffer.
LEMMA StopPreviewMapped ==
  ASSUME NEW c \in Camera, NEW r \in StopPreview(c) PROVE r.cam.mapped = c.mapped
<1>. DEFINE off == [c EXCEPT !.started = FALSE, !.streaming = FALSE]
<1>1. off.mapped = c.mapped
  BY DEF Camera
<1>2. r \in {Result(0, c), Result(-1, c), Result(0, off), Result(-1, off)}
  BY DEF StopPreview, IfFaulty
<1>. HIDE DEF off
<1>3. QED
  BY <1>1, <1>2, ResultFields

\* startPreview() maps and unmaps no snapshot buffer.
LEMMA StartPreviewMapped ==
  ASSUME NEW c \in Camera, NEW r \in StartPreview(c) PROVE r.cam.mapped = c.mapped
<1>. DEFINE on == [c EXCEPT !.started = TRUE, !.streaming = TRUE]
<1>1. on.mapped = c.mapped
  BY DEF Camera
<1>2. r \in {Result(0, c), Result(-1, c), Result(0, on), Result(-1, on)}
  BY DEF StartPreview, IfFaulty
<1>. HIDE DEF on
<1>3. QED
  BY <1>1, <1>2, ResultFields

\* initCamera() maps and unmaps no snapshot buffer.
LEMMA InitCameraMapped ==
  ASSUME NEW c \in Camera, NEW r \in InitCamera(c) PROVE r.cam.mapped = c.mapped
<1>. DEFINE ready == [c EXCEPT !.init = TRUE, !.fd = TRUE, !.fd2 = TRUE]
            shut == [c EXCEPT !.fd = FALSE]
            half(b) == [c EXCEPT !.fd = TRUE, !.fd2 = b]
<1>1. /\ ready.mapped = c.mapped
      /\ shut.mapped = c.mapped
      /\ \A b \in BOOLEAN : half(b).mapped = c.mapped
  BY DEF Camera
<1>2. \/ r \in {Result(0, c), Result(0, ready), Result(-1, shut)}
      \/ \E b \in BOOLEAN : r = Result(-1, half(b))
  BY DEF InitCamera, IfFaulty
<1>. HIDE DEF ready, shut, half
<1>3. QED
  BY <1>1, <1>2, ResultFields

\* stopRecord() maps and unmaps no snapshot buffer.
LEMMA StopRecordMapped ==
  ASSUME NEW c \in Camera, NEW r \in StopRecord(c) PROVE r.cam.mapped = c.mapped
<1>. DEFINE off == [c EXCEPT !.recStarted = FALSE, !.recStreaming = FALSE]
            half == [c EXCEPT !.recStarted = FALSE]
<1>1. /\ off.mapped = c.mapped
      /\ half.mapped = c.mapped
  BY DEF Camera
<1>2. r \in {Result(0, c), Result(-1, c), Result(0, off), Result(-1, off),
              Result(-1, half)}
  BY DEF StopRecord, IfFaulty
<1>. HIDE DEF off, half
<1>3. QED
  BY <1>1, <1>2, ResultFields

\* DeinitCamera() maps and unmaps no snapshot buffer.
LEMMA DeinitCameraMapped ==
  ASSUME NEW c \in Camera, NEW d \in DeinitCamera(c) PROVE d.mapped = c.mapped
<1>1. \A e \in Camera :
        [e EXCEPT !.init = FALSE, !.fd = FALSE, !.fd2 = FALSE, !.streaming = FALSE,
                  !.recStreaming = FALSE].mapped = e.mapped
  BY DEF Camera
<1>2. CASE ~c.init
  BY <1>2 DEF DeinitCamera
<1>3. CASE c.init
  <2>1. PICK r \in StopRecord(c) :
          d = [r.cam EXCEPT !.init = FALSE, !.fd = FALSE, !.fd2 = FALSE,
                            !.streaming = FALSE, !.recStreaming = FALSE]
    BY <1>3 DEF DeinitCamera
  <2>2. r.cam \in Camera /\ r.cam.mapped = c.mapped
    BY StopRecordMapped, StopRecordType, ReplyFields
  <2>3. QED
    BY <1>1, <2>1, <2>2
<1>4. QED
  BY <1>2, <1>3
=============================================================================
