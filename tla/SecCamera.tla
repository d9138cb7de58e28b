----------------------------- MODULE SecCamera -----------------------------
(***************************************************************************)
(* The V4L2 wrapper class SecCamera (libcamera/SecCamera.cpp) as a set of  *)
(* operators on one record, the state of the process-wide SecCamera object *)
(* and of the two FIMC video nodes behind it.  Each operator returns the   *)
(* SET of outcomes the call can have: the value the caller tests and the   *)
(* state it leaves, so that a caller picks one with \E.  The ioctls are    *)
(* the environment: with DriverFaults any of them may fail, and the state  *)
(* left by an early return half way through is one of the outcomes.        *)
(*                                                                         *)
(* Fields of a Camera:                                                     *)
(*   init       m_flag_init                                                *)
(*   fd         m_cam_fd > 0, the preview and snapshot node is open        *)
(*   fd2        m_cam_fd2 > 0, the recording node is open                  *)
(*   started    m_flag_camera_start                                        *)
(*   streaming  the preview node is streaming, as the kernel sees it       *)
(*   recStarted    m_flag_record_start                                     *)
(*   recStreaming  the recording node (m_cam_fd2) is streaming             *)
(*   mapped     m_capture_buf.start, the snapshot buffer is mapped         *)
(***************************************************************************)
EXTENDS Integers

CONSTANT
  DriverFaults    \* TRUE: a driver call may fail

ASSUME DriverFaultsAssumption == DriverFaults \in BOOLEAN

Camera == [init : BOOLEAN, fd : BOOLEAN, fd2 : BOOLEAN,
           started : BOOLEAN, streaming : BOOLEAN,
           recStarted : BOOLEAN, recStreaming : BOOLEAN, mapped : BOOLEAN]

\* createInstance(): the object is a static, so its flags start at zero.
NewCamera == [init |-> FALSE, fd |-> FALSE, fd2 |-> FALSE,
              started |-> FALSE, streaming |-> FALSE,
              recStarted |-> FALSE, recStreaming |-> FALSE, mapped |-> FALSE]

\* What a call returns to its caller, and the state it leaves.
Result(r, c) == [ret |-> r, cam |-> c]

\* Outcomes that need a failing driver call.
IfFaulty(S) == IF DriverFaults THEN S ELSE {}

-----------------------------------------------------------------------------
(* initCamera(): an early return leaves m_flag_init at 0, with the preview   *)
(* node open unless the very first open() failed, and then perhaps the       *)
(* recording node, which comes second.                                       *)
InitCamera(c) ==
  IF c.init
    THEN {Result(0, c)}
    ELSE {Result(0, [c EXCEPT !.init = TRUE, !.fd = TRUE, !.fd2 = TRUE])}
           \cup IfFaulty({Result(-1, [c EXCEPT !.fd = FALSE])}
                         \cup {Result(-1, [c EXCEPT !.fd = TRUE, !.fd2 = b]) :
                                 b \in BOOLEAN})

(* startRecord(): the first frame is thrown away after the stream-on, and    *)
(* what fails there leaves the node streaming with the flag at zero.         *)
StartRecord(c) ==
  LET on == [c EXCEPT !.recStarted = TRUE, !.recStreaming = TRUE]
  IN  CASE c.recStarted             -> {Result(0, c)}
        [] ~c.recStarted /\ ~c.fd2  -> {Result(-1, c)}
        [] ~c.recStarted /\ c.fd2   ->
             {Result(0, on)}
               \cup IfFaulty({Result(-1, c), Result(-1, [c EXCEPT !.recStreaming = TRUE])})

(* stopRecord(): the flag is cleared before the stream-off, whose failure   *)
(* therefore leaves the node streaming with the flag at zero.               *)
StopRecord(c) ==
  CASE ~c.recStarted             -> {Result(0, c)}
    [] c.recStarted /\ ~c.fd2    -> {Result(-1, c)}
    [] c.recStarted /\ c.fd2     ->
         {Result(0, [c EXCEPT !.recStarted = FALSE, !.recStreaming = FALSE])}
           \cup IfFaulty({Result(-1, c),
                          Result(-1, [c EXCEPT !.recStarted = FALSE]),
                          Result(-1, [c EXCEPT !.recStarted = FALSE,
                                               !.recStreaming = FALSE])})

(* DeinitCamera(): closing a node ends its stream; m_flag_camera_start is   *)
(* not touched.                                                             *)
DeinitCamera(c) ==
  IF ~c.init
    THEN {c}
    ELSE {[r.cam EXCEPT !.init = FALSE, !.fd = FALSE, !.fd2 = FALSE,
                        !.streaming = FALSE, !.recStreaming = FALSE] :
             r \in StopRecord(c)}

-----------------------------------------------------------------------------
(* startPreview(): up to and including the stream-on a failure leaves       *)
(* everything as it was; the flag is set right after the stream-on, and the *)
(* controls sent after that may still fail, with the stream running.        *)
StartPreview(c) ==
  LET on == [c EXCEPT !.started = TRUE, !.streaming = TRUE]
  IN  CASE c.started             -> {Result(0, c)}
        [] ~c.started /\ ~c.fd   -> {Result(-1, c)}
        [] ~c.started /\ c.fd    ->
             {Result(0, on)} \cup IfFaulty({Result(-1, c), Result(-1, on)})

(* stopPreview(): a failing stream-off leaves the flag set. *)
StopPreview(c) ==
  CASE ~c.started            -> {Result(0, c)}
    [] c.started /\ ~c.fd    -> {Result(-1, c)}
    [] c.started /\ c.fd     ->
         {Result(0, [c EXCEPT !.started = FALSE, !.streaming = FALSE])}
           \cup IfFaulty({Result(-1, c)})

(* The reset that getPreview() starts when preview is not started or no     *)
(* frame came for a second.  Result: -1 to give up, 0 to hand out buffer 0, *)
(* 1 to go on and dequeue.  The test on fimc_v4l2_enuminput() is the code's *)
(* own: it returns the input's name, so "if (enuminput) return -1" gives up *)
(* exactly when the call SUCCEEDS, and the restart is reached only when it  *)
(* fails.                                                                   *)
ResetPreview(c) ==
  LET stopped == {s.cam : s \in StopPreview(c)}
      restarted == UNION {StartPreview(s) : s \in stopped}
  IN  {Result(-1, s) : s \in stopped}
        \cup IfFaulty({Result(IF r.ret < 0 THEN 0 ELSE 1, r.cam) :
                         r \in restarted})

(* The rest of getPreview(): dequeue a buffer and queue it again at once.   *)
(* A node that does not stream has no buffer to give.                       *)
DequeuePreview(c) ==
  (IF c.streaming THEN {Result(0, c)} ELSE {Result(-1, c)})
    \cup IfFaulty({Result(-1, c)})

-----------------------------------------------------------------------------
(* getSnapshotAndJpeg() up to the stream-on, which takes over the preview    *)
(* node.  Preview, if it is still on, is stopped first, whether that works   *)
(* or not; a failure afterwards may leave the snapshot buffer mapped.        *)
SnapshotBegin(c) ==
  IF ~c.fd
    THEN {Result(-1, c)}
    ELSE UNION {{Result(0, [s.cam EXCEPT !.streaming = TRUE, !.mapped = TRUE])}
                  \cup IfFaulty({Result(-1, s.cam),
                                 Result(-1, [s.cam EXCEPT !.mapped = TRUE])}) :
                  s \in StopPreview(c)}

(* The rest of it: stream-off, whose result is not looked at, and the JPEG   *)
(* encoding, which fails when the encoder has no buffer.                     *)
SnapshotEnd(c) ==
  LET off == {[c EXCEPT !.streaming = FALSE]} \cup IfFaulty({c})
  IN  {Result(0, s) : s \in off} \cup IfFaulty({Result(-1, s) : s \in off})

\* endSnapshot(): unmap the snapshot buffer.
EndSnapshot_Bug(c) == c
EndSnapshot(c) == [c EXCEPT !.mapped = FALSE]
=============================================================================
