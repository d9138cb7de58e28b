----------------------- MODULE CameraRecording_proofs -----------------------
(***************************************************************************)
(* Proofs about CameraRecording, for every set of buffers and number of    *)
(* openings, whether or not driver calls fail, and for a client that has   *)
(* given all frames back when it starts to record again: type correctness, *)
(* no buffer in two places, none dropped, and no frame after a stop.  If   *)
(* the client also makes no other call while it gives a frame back, the    *)
(* driver gets no buffer it does not expect; if memory does not run out,   *)
(* the preview thread always has mRecordHeap.                              *)
(***************************************************************************)
EXTENDS CameraRecording, SecCamera_proofs

USE RecordingAssumption

\* TypeOK without the camera, which the lemmas of SecCamera_proofs are about,
\* and with the number of frames out that there really can be.
StateOK ==
  /\ mRecordRunning \in BOOLEAN
  /\ mRecordHeap \in {"none", "live"}
  /\ videoEnabled \in BOOLEAN
  /\ mPreviewRunning \in BOOLEAN
  /\ queued \subseteq Buffers
  /\ frame \in Buffers \cup {NoBuffer}
  /\ frame # NoBuffer <=> tpc \in Recording \ {"dequeue"}
  /\ lent \in [Buffers -> 0..1]
  /\ lost \subseteq Buffers
  /\ call \in Calls
  /\ cpc \in ClientPCs
  /\ tpc \in ThreadPCs
  /\ back \in Buffers \cup {NoBuffer}
  /\ unexpected \in BOOLEAN
  /\ opens \in 1..MaxOpens

\* mRecordLock: the preview thread in its section records, as nobody else gets to
\* change that; and release() has no thread left when it frees the heap.
Control ==
  /\ tpc \in Recording => mRecordRunning /\ cam.recStarted
  /\ cpc = "idle" => call = "none"
  /\ cpc \in {"freeAll", "released"} => call = "release" /\ tpc = "parked"
  /\ call = "release" => ~mPreviewRunning /\ back = NoBuffer
  /\ Serialised /\ back # NoBuffer => cpc = "idle"

\* A buffer is queued, in the preview thread's hands, lent or on its way back,
\* and only one of them.
OnePlace ==
  \A b \in Buffers :
    /\ b \in queued => b # frame /\ b # back /\ lent[b] = 0
    /\ b = frame => b # back /\ lent[b] = 0
    /\ b = back => lent[b] = 0

\* When startRecording() is about to start the driver the client has no frames.
NothingOut ==
  cpc = "lock" /\ call = "startRecording" /\ ~mRecordRunning =>
    lent = NoneLent /\ back = NoBuffer

\* Frames come from a node that streams, also when its flag is stale.
Streams ==
  /\ frame # NoBuffer => cam.recStreaming
  /\ cam.recStarted /\ ~cam.recStreaming => lent = NoneLent
  /\ Serialised /\ back # NoBuffer => cam.recStarted /\ cam.recStreaming

\* The preview thread's section finds the heap that startRecording() made.
HeapReady == mRecordRunning /\ cpc # "released" => mRecordHeap = "live"

RecordingInv ==
  /\ StateOK
  /\ cam \in Camera
  /\ Control
  /\ OnePlace
  /\ NothingOut
  /\ Streams
  /\ NoBufferLeaks

-----------------------------------------------------------------------------
(* What the driver's calls do to the recording node.                         *)

\* initCamera() leaves the recording flag and the stream alone.
LEMMA InitCameraRecords ==
  ASSUME NEW c \in Camera, NEW r \in InitCamera(c)
  PROVE  /\ r.cam.recStarted = c.recStarted
         /\ r.cam.recStreaming = c.recStreaming
<1>. DEFINE ready == [c EXCEPT !.init = TRUE, !.fd = TRUE, !.fd2 = TRUE]
            shut == [c EXCEPT !.fd = FALSE]
            half(b) == [c EXCEPT !.fd = TRUE, !.fd2 = b]
            same(d) == d.recStarted = c.recStarted /\ d.recStreaming = c.recStreaming
<1>1. same(ready) /\ same(shut) /\ \A b \in BOOLEAN : same(half(b))
  BY DEF Camera
<1>2. \/ r \in {Result(0, c), Result(0, ready), Result(-1, shut)}
      \/ \E b \in BOOLEAN : r = Result(-1, half(b))
  BY DEF InitCamera, IfFaulty
<1>. HIDE DEF ready, shut, half
<1>3. QED
  BY <1>1, <1>2, ResultFields

\* startRecord() never stops the stream, and succeeds with the flag up; if the
\* flag was up before it does nothing.
LEMMA StartRecordRecords ==
  ASSUME NEW c \in Camera, NEW r \in StartRecord(c)
  PROVE  /\ c.recStarted => r.cam = c
         /\ r.ret = 0 => r.cam.recStarted
         /\ c.recStreaming => r.cam.recStreaming
         /\ ~c.recStarted /\ r.cam.recStarted => r.cam.recStreaming
<1>. DEFINE on == [c EXCEPT !.recStarted = TRUE, !.recStreaming = TRUE]
            half == [c EXCEPT !.recStreaming = TRUE]
<1>1. /\ on.recStarted /\ on.recStreaming
      /\ half.recStreaming /\ half.recStarted = c.recStarted
  BY DEF Camera
<1>2. \/ c.recStarted /\ r = Result(0, c)
      \/ ~c.recStarted /\ r \in {Result(0, on), Result(-1, c), Result(-1, half)}
  BY DEF StartRecord, IfFaulty
<1>. HIDE DEF on, half
<1>3. QED
  BY <1>1, <1>2, ResultFields

\* stopRecord() never starts the stream, and leaves the flag up only when it has
\* done nothing.
LEMMA StopRecordRecords ==
  ASSUME NEW c \in Camera, NEW r \in StopRecord(c)
  PROVE  /\ r.cam.recStarted => r.cam = c
         /\ r.cam.recStreaming => c.recStreaming
<1>. DEFINE off == [c EXCEPT !.recStarted = FALSE, !.recStreaming = FALSE]
            half == [c EXCEPT !.recStarted = FALSE]
<1>1. /\ ~off.recStarted /\ ~off.recStreaming
      /\ ~half.recStarted /\ half.recStreaming = c.recStreaming
  BY DEF Camera
<1>2. r \in {Result(0, c), Result(-1, c), Result(0, off), Result(-1, off),
              Result(-1, half)}
  BY DEF StopRecord, IfFaulty
<1>. HIDE DEF off, half
<1>3. QED
  BY <1>1, <1>2, ResultFields

\* DeinitCamera() ends the stream, or does nothing.
LEMMA DeinitCameraRecords ==
  ASSUME NEW c \in Camera, NEW d \in DeinitCamera(c)
  PROVE  d = c \/ ~d.recStreaming
<1>1. \A e \in Camera :
        ~[e EXCEPT !.init = FALSE, !.fd = FALSE, !.fd2 = FALSE, !.streaming = FALSE,
                   !.recStreaming = FALSE].recStreaming
  BY DEF Camera
<1>2. \A r \in StopRecord(c) : r.cam \in Camera
  BY StopRecordType, ReplyFields
<1>3. QED
  BY <1>1, <1>2 DEF DeinitCamera

-----------------------------------------------------------------------------
(* The invariant holds at first, and every step keeps it.                    *)

\* The invariant holds when the device has been opened.
LEMMA RecordingInit == Init => RecordingInv
<1> SUFFICES ASSUME Init PROVE RecordingInv
  OBVIOUS
<1>1. cam \in Camera /\ ~cam.recStarted
  BY NewCameraType, InitCameraType, InitCameraRecords, ReplyFields
  DEF Init, NewCamera
<1>2. StateOK
  <2>1. NoneLent \in [Buffers -> 0..1]
    BY DEF NoneLent
  <2>2. opens \in 1..MaxOpens
    BY RecordingAssumption DEF Init
  <2>3. QED
    BY <2>1, <2>2 DEF Init, StateOK, Calls, ClientPCs, ThreadPCs, Recording
<1>3. Control /\ NothingOut /\ Streams /\ OnePlace
  BY <1>1 DEF Init, Control, NothingOut, Streams, OnePlace, Recording
<1>4. NoBufferLeaks
  BY <1>1 DEF NoBufferLeaks
<1>5. QED
  BY <1>1, <1>2, <1>3, <1>4 DEF RecordingInv

\* The calls of SecCamera, and nothing else, change the camera.
LEMMA CameraStep == cam \in Camera /\ [Next]_vars => cam' \in Camera
<1> SUFFICES ASSUME cam \in Camera, [Next]_vars PROVE cam' \in Camera
  OBVIOUS
<1>1. CASE StartRecordingLocked
  BY <1>1, StartRecordType, ReplyFields DEF StartRecordingLocked, DriverStarts
<1>2. CASE StopRecordingLocked
  BY <1>2, StopRecordType, ReplyFields DEF StopRecordingLocked, DriverStops
<1>3. CASE ReleaseFree
  BY <1>3, DeinitCameraType DEF ReleaseFree, DriverStops
<1>4. CASE Reopen
  BY <1>4, InitCameraType, ReplyFields DEF Reopen
<1>5. CASE UNCHANGED cam
  BY <1>5
<1>6. QED
  BY <1>1, <1>2, <1>3, <1>4, <1>5
  DEF Next, ClientCalls, ClientSteps, EncoderSteps, ThreadSteps, vars, clientOnly,
  CallStartRecording, CallStopRecording, SetVideoMessages, CallStartPreview,
  CallStopPreview, CallRelease, Parked, ReturnFrame, QueueReturned, ForgetFrames,
  ThreadBegin, ThreadPark, ThreadDisplay, ThreadLock, GetRecordFrame, FillAddress,
  TestMessage, Deliver, Requeue

\* Every step keeps the types of all variables but the camera.
LEMMA StateStep ==
  ASSUME StateOK, OnePlace, [Next]_vars
  PROVE  StateOK'
<1> USE DEF StateOK, Calls, ClientPCs, ThreadPCs, Recording, hal, pool, clientOnly,
  Return
<1>1. CASE CallStartRecording
  BY <1>1 DEF CallStartRecording, MayCall
<1>2. CASE CallStopRecording
  BY <1>2 DEF CallStopRecording, MayCall
<1>3. CASE SetVideoMessages
  BY <1>3 DEF SetVideoMessages, MayCall
<1>4. CASE CallStartPreview
  BY <1>4 DEF CallStartPreview, MayCall
<1>5. CASE CallStopPreview
  BY <1>5 DEF CallStopPreview, MayCall
<1>6. CASE CallRelease
  BY <1>6 DEF CallRelease, MayCall
<1>7. CASE Reopen
  <2>1. opens' \in 1..MaxOpens
    BY <1>7, RecordingAssumption DEF Reopen
  <2>2. QED
    BY <1>7, <2>1 DEF Reopen
<1>8. CASE StartRecordingLocked
  BY <1>8 DEF StartRecordingLocked, RecordLockFree, DriverStarts
<1>9. CASE StopRecordingLocked
  BY <1>9 DEF StopRecordingLocked, RecordLockFree, DriverStops
<1>10. CASE Parked
  BY <1>10 DEF Parked, ThreadParked
<1>11. CASE ReleaseFree
  BY <1>11 DEF ReleaseFree, DriverStops, Forgotten, NoneLent
<1>12. CASE ReturnFrame
  BY <1>12 DEF ReturnFrame, TakesFrames, NoneLent
<1>13. CASE QueueReturned
  BY <1>13 DEF QueueReturned, Queue
<1>14. CASE ForgetFrames
  BY <1>14 DEF ForgetFrames, Forgotten, NoneLent
<1>15. CASE ThreadBegin
  BY <1>15 DEF ThreadBegin
<1>16. CASE ThreadPark
  BY <1>16 DEF ThreadPark
<1>17. CASE ThreadDisplay
  BY <1>17 DEF ThreadDisplay
<1>18. CASE ThreadLock
  BY <1>18 DEF ThreadLock
<1>19. CASE GetRecordFrame
  BY <1>19 DEF GetRecordFrame
<1>20. CASE FillAddress
  BY <1>20 DEF FillAddress
<1>21. CASE TestMessage
  BY <1>21 DEF TestMessage
<1>22. CASE Deliver
  <2>1. frame \in Buffers /\ lent[frame] = 0
    BY <1>22 DEF Deliver, OnePlace
  <2>2. lent' \in [Buffers -> 0..1]
    BY <1>22, <2>1 DEF Deliver
  <2>3. QED
    BY <1>22, <2>2 DEF Deliver
<1>23. CASE Requeue
  BY <1>23 DEF Requeue, Queue, TakesFrames
<1>24. CASE UNCHANGED vars
  BY <1>24 DEF vars, hal, pool
<1>25. QED
  BY <1>1, <1>2, <1>3, <1>4, <1>5, <1>6, <1>7, <1>8, <1>9, <1>10, <1>11,
  <1>12, <1>13, <1>14, <1>15, <1>16, <1>17, <1>18, <1>19, <1>20, <1>21, <1>22,
  <1>23, <1>24
  DEF Next, ClientCalls, ClientSteps, EncoderSteps, ThreadSteps

\* Every step keeps the exclusion by mRecordLock.
LEMMA ControlStep ==
  ASSUME StateOK, Control, cam \in Camera, [Next]_vars
  PROVE  Control'
<1> USE DEF StateOK, Control, Calls, ClientPCs, ThreadPCs, Recording, hal, pool,
  clientOnly, Return
<1>1. CASE CallStartRecording
  BY <1>1 DEF CallStartRecording, MayCall
<1>2. CASE CallStopRecording
  BY <1>2 DEF CallStopRecording, MayCall
<1>3. CASE SetVideoMessages
  BY <1>3 DEF SetVideoMessages, MayCall
<1>4. CASE CallStartPreview
  BY <1>4 DEF CallStartPreview, MayCall
<1>5. CASE CallStopPreview
  BY <1>5 DEF CallStopPreview, MayCall
<1>6. CASE CallRelease
  BY <1>6 DEF CallRelease, MayCall
<1>7. CASE Reopen
  BY <1>7, InitCameraRecords DEF Reopen
<1>8. CASE StartRecordingLocked
  BY <1>8, StartRecordRecords DEF StartRecordingLocked, RecordLockFree, DriverStarts
<1>9. CASE StopRecordingLocked
  BY <1>9, StopRecordRecords DEF StopRecordingLocked, RecordLockFree, DriverStops
<1>10. CASE Parked
  BY <1>10 DEF Parked, ThreadParked
<1>11. CASE ReleaseFree
  BY <1>11, DeinitCameraRecords DEF ReleaseFree, DriverStops, Forgotten, NoneLent
<1>12. CASE ReturnFrame
  BY <1>12 DEF ReturnFrame, TakesFrames, NoneLent
<1>13. CASE QueueReturned
  BY <1>13 DEF QueueReturned, Queue
<1>14. CASE ForgetFrames
  BY <1>14 DEF ForgetFrames, Forgotten, NoneLent
<1>15. CASE ThreadBegin
  BY <1>15 DEF ThreadBegin
<1>16. CASE ThreadPark
  BY <1>16 DEF ThreadPark
<1>17. CASE ThreadDisplay
  BY <1>17 DEF ThreadDisplay
<1>18. CASE ThreadLock
  BY <1>18 DEF ThreadLock
<1>19. CASE GetRecordFrame
  BY <1>19 DEF GetRecordFrame
<1>20. CASE FillAddress
  BY <1>20 DEF FillAddress
<1>21. CASE TestMessage
  BY <1>21 DEF TestMessage
<1>22. CASE Deliver
  BY <1>22 DEF Deliver
<1>23. CASE Requeue
  BY <1>23 DEF Requeue, Queue, TakesFrames
<1>24. CASE UNCHANGED vars
  BY <1>24 DEF vars, hal, pool
<1>25. QED
  BY <1>1, <1>2, <1>3, <1>4, <1>5, <1>6, <1>7, <1>8, <1>9, <1>10, <1>11,
  <1>12, <1>13, <1>14, <1>15, <1>16, <1>17, <1>18, <1>19, <1>20, <1>21, <1>22,
  <1>23, <1>24
  DEF Next, ClientCalls, ClientSteps, EncoderSteps, ThreadSteps

\* Every step keeps a buffer in one place.
LEMMA PlaceStep ==
  ASSUME ~LateReturns, StateOK, Control, OnePlace, NothingOut, cam \in Camera,
  [Next]_vars
  PROVE  OnePlace'
<1> USE DEF StateOK, Control, OnePlace, NothingOut, NoneLent, Recording, hal, pool,
  clientOnly, Return
<1>1. CASE CallStartRecording
  BY <1>1 DEF CallStartRecording, MayCall
<1>2. CASE CallStopRecording
  BY <1>2 DEF CallStopRecording, MayCall
<1>3. CASE SetVideoMessages
  BY <1>3 DEF SetVideoMessages, MayCall
<1>4. CASE CallStartPreview
  BY <1>4 DEF CallStartPreview, MayCall
<1>5. CASE CallStopPreview
  BY <1>5 DEF CallStopPreview, MayCall
<1>6. CASE CallRelease
  BY <1>6 DEF CallRelease, MayCall
<1>7. CASE Reopen
  BY <1>7, InitCameraRecords DEF Reopen
<1>8. CASE StartRecordingLocked
  BY <1>8, StartRecordRecords DEF StartRecordingLocked, RecordLockFree, DriverStarts
<1>9. CASE StopRecordingLocked
  BY <1>9, StopRecordRecords DEF StopRecordingLocked, RecordLockFree, DriverStops
<1>10. CASE Parked
  BY <1>10 DEF Parked, ThreadParked
<1>11. CASE ReleaseFree
  BY <1>11, DeinitCameraRecords DEF ReleaseFree, DriverStops, Forgotten, NoneLent
<1>12. CASE ReturnFrame
  BY <1>12 DEF ReturnFrame, TakesFrames, NoneLent
<1>13. CASE QueueReturned
  BY <1>13 DEF QueueReturned, Queue
<1>14. CASE ForgetFrames
  BY <1>14 DEF ForgetFrames, Forgotten, NoneLent
<1>15. CASE ThreadBegin
  BY <1>15 DEF ThreadBegin
<1>16. CASE ThreadPark
  BY <1>16 DEF ThreadPark
<1>17. CASE ThreadDisplay
  BY <1>17 DEF ThreadDisplay
<1>18. CASE ThreadLock
  BY <1>18 DEF ThreadLock
<1>19. CASE GetRecordFrame
  BY <1>19 DEF GetRecordFrame
<1>20. CASE FillAddress
  BY <1>20 DEF FillAddress
<1>21. CASE TestMessage
  BY <1>21 DEF TestMessage
<1>22. CASE Deliver
  BY <1>22 DEF Deliver
<1>23. CASE Requeue
  BY <1>23 DEF Requeue, Queue, TakesFrames
<1>24. CASE UNCHANGED vars
  BY <1>24 DEF vars, hal, pool
<1>25. QED
  BY <1>1, <1>2, <1>3, <1>4, <1>5, <1>6, <1>7, <1>8, <1>9, <1>10, <1>11,
  <1>12, <1>13, <1>14, <1>15, <1>16, <1>17, <1>18, <1>19, <1>20, <1>21, <1>22,
  <1>23, <1>24
  DEF Next, ClientCalls, ClientSteps, EncoderSteps, ThreadSteps

\* No frame is out when startRecording() starts the driver.
LEMMA NothingOutStep ==
  ASSUME ~LateReturns, StateOK, Control, NothingOut, [Next]_vars
  PROVE  NothingOut'
<1> USE DEF StateOK, Control, NothingOut, Recording, hal, pool, clientOnly, Return
<1>1. CASE CallStartRecording
  BY <1>1 DEF CallStartRecording, MayCall
<1>2. CASE CallStopRecording
  BY <1>2 DEF CallStopRecording, MayCall
<1>3. CASE SetVideoMessages
  BY <1>3 DEF SetVideoMessages, MayCall
<1>4. CASE CallStartPreview
  BY <1>4 DEF CallStartPreview, MayCall
<1>5. CASE CallStopPreview
  BY <1>5 DEF CallStopPreview, MayCall
<1>6. CASE CallRelease
  BY <1>6 DEF CallRelease, MayCall
<1>7. CASE Reopen
  BY <1>7 DEF Reopen
<1>8. CASE StartRecordingLocked
  BY <1>8 DEF StartRecordingLocked, RecordLockFree, DriverStarts
<1>9. CASE StopRecordingLocked
  BY <1>9 DEF StopRecordingLocked, RecordLockFree, DriverStops
<1>10. CASE Parked
  BY <1>10 DEF Parked, ThreadParked
<1>11. CASE ReleaseFree
  BY <1>11 DEF ReleaseFree, DriverStops, Forgotten, NoneLent
<1>12. CASE ReturnFrame
  BY <1>12 DEF ReturnFrame, TakesFrames, NoneLent
<1>13. CASE QueueReturned
  BY <1>13 DEF QueueReturned, Queue
<1>14. CASE ForgetFrames
  BY <1>14 DEF ForgetFrames, Forgotten, NoneLent
<1>15. CASE ThreadBegin
  BY <1>15 DEF ThreadBegin
<1>16. CASE ThreadPark
  BY <1>16 DEF ThreadPark
<1>17. CASE ThreadDisplay
  BY <1>17 DEF ThreadDisplay
<1>18. CASE ThreadLock
  BY <1>18 DEF ThreadLock
<1>19. CASE GetRecordFrame
  BY <1>19 DEF GetRecordFrame
<1>20. CASE FillAddress
  BY <1>20 DEF FillAddress
<1>21. CASE TestMessage
  BY <1>21 DEF TestMessage
<1>22. CASE Deliver
  BY <1>22 DEF Deliver
<1>23. CASE Requeue
  BY <1>23 DEF Requeue, Queue, TakesFrames
<1>24. CASE UNCHANGED vars
  BY <1>24 DEF vars, hal, pool
<1>25. QED
  BY <1>1, <1>2, <1>3, <1>4, <1>5, <1>6, <1>7, <1>8, <1>9, <1>10, <1>11,
  <1>12, <1>13, <1>14, <1>15, <1>16, <1>17, <1>18, <1>19, <1>20, <1>21, <1>22,
  <1>23, <1>24
  DEF Next, ClientCalls, ClientSteps, EncoderSteps, ThreadSteps

\* Every step keeps frames to nodes that stream.
LEMMA StreamStep ==
  ASSUME StateOK, Control, NothingOut, Streams, cam \in Camera, [Next]_vars
  PROVE  Streams'
<1> USE DEF StateOK, Control, NothingOut, Streams, Recording, hal, pool,
  clientOnly, Return
<1>1. CASE CallStartRecording
  BY <1>1 DEF CallStartRecording, MayCall
<1>2. CASE CallStopRecording
  BY <1>2 DEF CallStopRecording, MayCall
<1>3. CASE SetVideoMessages
  BY <1>3 DEF SetVideoMessages, MayCall
<1>4. CASE CallStartPreview
  BY <1>4 DEF CallStartPreview, MayCall
<1>5. CASE CallStopPreview
  BY <1>5 DEF CallStopPreview, MayCall
<1>6. CASE CallRelease
  BY <1>6 DEF CallRelease, MayCall
<1>7. CASE Reopen
  BY <1>7, InitCameraRecords DEF Reopen
<1>8. CASE StartRecordingLocked
  BY <1>8, StartRecordRecords DEF StartRecordingLocked, RecordLockFree, DriverStarts
<1>9. CASE StopRecordingLocked
  BY <1>9, StopRecordRecords DEF StopRecordingLocked, RecordLockFree, DriverStops
<1>10. CASE Parked
  BY <1>10 DEF Parked, ThreadParked
<1>11. CASE ReleaseFree
  BY <1>11, DeinitCameraRecords DEF ReleaseFree, DriverStops, Forgotten, NoneLent
<1>12. CASE ReturnFrame
  BY <1>12 DEF ReturnFrame, TakesFrames, NoneLent
<1>13. CASE QueueReturned
  BY <1>13 DEF QueueReturned, Queue
<1>14. CASE ForgetFrames
  BY <1>14 DEF ForgetFrames, Forgotten, NoneLent
<1>15. CASE ThreadBegin
  BY <1>15 DEF ThreadBegin
<1>16. CASE ThreadPark
  BY <1>16 DEF ThreadPark
<1>17. CASE ThreadDisplay
  BY <1>17 DEF ThreadDisplay
<1>18. CASE ThreadLock
  BY <1>18 DEF ThreadLock
<1>19. CASE GetRecordFrame
  BY <1>19 DEF GetRecordFrame
<1>20. CASE FillAddress
  BY <1>20 DEF FillAddress
<1>21. CASE TestMessage
  BY <1>21 DEF TestMessage
<1>22. CASE Deliver
  BY <1>22 DEF Deliver
<1>23. CASE Requeue
  BY <1>23 DEF Requeue, Queue, TakesFrames
<1>24. CASE UNCHANGED vars
  BY <1>24 DEF vars, hal, pool
<1>25. QED
  BY <1>1, <1>2, <1>3, <1>4, <1>5, <1>6, <1>7, <1>8, <1>9, <1>10, <1>11,
  <1>12, <1>13, <1>14, <1>15, <1>16, <1>17, <1>18, <1>19, <1>20, <1>21, <1>22,
  <1>23, <1>24
  DEF Next, ClientCalls, ClientSteps, EncoderSteps, ThreadSteps

\* No step drops a buffer.
LEMMA CoverStep ==
  ASSUME StateOK, Control, NothingOut, NoBufferLeaks, cam \in Camera, [Next]_vars
  PROVE  NoBufferLeaks'
<1> USE DEF StateOK, Control, NothingOut, NoBufferLeaks, Recording, hal, pool,
  clientOnly, Return
<1>1. CASE CallStartRecording
  BY <1>1 DEF CallStartRecording, MayCall
<1>2. CASE CallStopRecording
  BY <1>2 DEF CallStopRecording, MayCall
<1>3. CASE SetVideoMessages
  BY <1>3 DEF SetVideoMessages, MayCall
<1>4. CASE CallStartPreview
  BY <1>4 DEF CallStartPreview, MayCall
<1>5. CASE CallStopPreview
  BY <1>5 DEF CallStopPreview, MayCall
<1>6. CASE CallRelease
  BY <1>6 DEF CallRelease, MayCall
<1>7. CASE Reopen
  BY <1>7, InitCameraRecords DEF Reopen
<1>8. CASE StartRecordingLocked
  BY <1>8, StartRecordRecords DEF StartRecordingLocked, RecordLockFree, DriverStarts
<1>9. CASE StopRecordingLocked
  BY <1>9, StopRecordRecords DEF StopRecordingLocked, RecordLockFree, DriverStops
<1>10. CASE Parked
  BY <1>10 DEF Parked, ThreadParked
<1>11. CASE ReleaseFree
  BY <1>11, DeinitCameraRecords DEF ReleaseFree, DriverStops, Forgotten, NoneLent
<1>12. CASE ReturnFrame
  BY <1>12 DEF ReturnFrame, TakesFrames, NoneLent
<1>13. CASE QueueReturned
  BY <1>13 DEF QueueReturned, Queue
<1>14. CASE ForgetFrames
  BY <1>14 DEF ForgetFrames, Forgotten, NoneLent
<1>15. CASE ThreadBegin
  BY <1>15 DEF ThreadBegin
<1>16. CASE ThreadPark
  BY <1>16 DEF ThreadPark
<1>17. CASE ThreadDisplay
  BY <1>17 DEF ThreadDisplay
<1>18. CASE ThreadLock
  BY <1>18 DEF ThreadLock
<1>19. CASE GetRecordFrame
  BY <1>19 DEF GetRecordFrame
<1>20. CASE FillAddress
  BY <1>20 DEF FillAddress
<1>21. CASE TestMessage
  BY <1>21 DEF TestMessage
<1>22. CASE Deliver
  BY <1>22 DEF Deliver
<1>23. CASE Requeue
  BY <1>23 DEF Requeue, Queue, TakesFrames
<1>24. CASE UNCHANGED vars
  BY <1>24 DEF vars, hal, pool
<1>25. QED
  BY <1>1, <1>2, <1>3, <1>4, <1>5, <1>6, <1>7, <1>8, <1>9, <1>10, <1>11,
  <1>12, <1>13, <1>14, <1>15, <1>16, <1>17, <1>18, <1>19, <1>20, <1>21, <1>22,
  <1>23, <1>24
  DEF Next, ClientCalls, ClientSteps, EncoderSteps, ThreadSteps

-----------------------------------------------------------------------------
\* All of it holds in every state the component can reach, if the client has
\* given its frames back whenever it starts to record.
THEOREM RecordingInvariant ==
  ASSUME ~LateReturns PROVE Spec => []RecordingInv
<1>1. RecordingInv /\ [Next]_vars => RecordingInv'
  BY CameraStep, StateStep, ControlStep, PlaceStep, NothingOutStep, StreamStep,
  CoverStep DEF RecordingInv
<1>2. QED
  BY <1>1, RecordingInit, PTL DEF Spec

\* Type correctness of the recording component.
THEOREM RecordingTypeCorrect ==
  ASSUME ~LateReturns PROVE Spec => []TypeOK
<1>1. RecordingInv => TypeOK
  BY DEF RecordingInv, StateOK, TypeOK
<1>2. QED
  BY <1>1, RecordingInvariant, PTL

\* The driver never writes to a buffer that the preview thread or the encoder
\* reads, though it is handed over in four places without a common lock.
THEOREM FrameOwnedHolds ==
  ASSUME ~LateReturns PROVE Spec => []FrameOwned
<1>1. RecordingInv => FrameOwned
  BY DEF RecordingInv, OnePlace, FrameOwned
<1>2. QED
  BY <1>1, RecordingInvariant, PTL

\* No path through previewThread() and releaseRecordingFrame() drops a buffer.
THEOREM NoBufferLeaksHolds ==
  ASSUME ~LateReturns PROVE Spec => []NoBufferLeaks
<1>1. RecordingInv => NoBufferLeaks
  BY DEF RecordingInv
<1>2. QED
  BY <1>1, RecordingInvariant, PTL

\* After stopRecording() has done its work no frame reaches the client.
THEOREM NoFrameAfterStopHolds ==
  ASSUME ~LateReturns PROVE Spec => NoFrameAfterStop
<1>. DEFINE Told == \A b \in Buffers : lent'[b] > lent[b] => mRecordRunning
<1>1. RecordingInv /\ [Next]_vars => [Told]_vars
  <2> SUFFICES ASSUME RecordingInv, Next PROVE Told
    OBVIOUS
  <2>deliver. CASE Deliver
    BY <2>deliver DEF RecordingInv, Control, Recording, Deliver
  <2>return. CASE ReturnFrame
    BY <2>return DEF RecordingInv, StateOK, ReturnFrame
  <2>forget. CASE ForgetFrames
    BY <2>forget DEF RecordingInv, StateOK, ForgetFrames, NoneLent
  <2>free. CASE ReleaseFree
    BY <2>free DEF RecordingInv, StateOK, ReleaseFree, NoneLent
  <2>kept. CASE UNCHANGED lent
    BY <2>kept DEF RecordingInv, StateOK
  <2> QED
    BY <2>kept, <2>deliver, <2>return, <2>forget, <2>free
    DEF Next, ClientCalls, ClientSteps, EncoderSteps, ThreadSteps, pool, clientOnly,
    CallStartRecording, CallStopRecording, SetVideoMessages, CallStartPreview,
    CallStopPreview, CallRelease, Reopen, StartRecordingLocked, StopRecordingLocked,
    Parked, QueueReturned, ThreadBegin, ThreadPark, ThreadDisplay, ThreadLock,
    GetRecordFrame, FillAddress, TestMessage, Requeue
<1>2. QED
  BY <1>1, RecordingInvariant, PTL DEF Spec, NoFrameAfterStop

\* The driver gets no buffer it does not expect, if CameraService's lock is also
\* around releaseRecordingFrame().
THEOREM QbufExpectedHolds ==
  ASSUME ~LateReturns, Serialised PROVE Spec => []QbufExpected
<1>1. Init => QbufExpected
  BY DEF Init, QbufExpected
<1>2. RecordingInv /\ QbufExpected /\ [Next]_vars => QbufExpected'
  <2> SUFFICES ASSUME RecordingInv, QbufExpected, [Next]_vars PROVE QbufExpected'
    OBVIOUS
  <2>1. CASE QueueReturned
    BY <2>1 DEF RecordingInv, StateOK, Streams, OnePlace, QbufExpected,
    QueueReturned,
    Queue
  <2>2. CASE Requeue
    BY <2>2 DEF RecordingInv, StateOK, Streams, OnePlace, QbufExpected, Requeue,
    Queue,
    Recording
  <2>3. CASE UNCHANGED unexpected
    BY <2>3 DEF QbufExpected
  <2>4. QED
    BY <2>1, <2>2, <2>3
    DEF Next, ClientCalls, ClientSteps, EncoderSteps, ThreadSteps, vars, pool,
    clientOnly, CallStartRecording, CallStopRecording, SetVideoMessages,
    CallStartPreview, CallStopPreview, CallRelease, Reopen, StartRecordingLocked,
    StopRecordingLocked, Parked, ReleaseFree, ReturnFrame, ForgetFrames,
    ThreadBegin,
    ThreadPark, ThreadDisplay, ThreadLock, GetRecordFrame, FillAddress, TestMessage,
    Deliver
<1>3. QED
  BY <1>1, <1>2, RecordingInvariant, PTL DEF Spec

\* If memory does not run out, recording has its heap.
LEMMA HeapStep ==
  ASSUME HeapFaults = FALSE, StateOK, Control, HeapReady, [Next]_vars
  PROVE  HeapReady'
<1> USE DEF StateOK, Control, HeapReady, Recording, hal, pool, clientOnly, Return
<1>1. CASE CallStartRecording
  BY <1>1 DEF CallStartRecording, MayCall
<1>2. CASE CallStopRecording
  BY <1>2 DEF CallStopRecording, MayCall
<1>3. CASE SetVideoMessages
  BY <1>3 DEF SetVideoMessages, MayCall
<1>4. CASE CallStartPreview
  BY <1>4 DEF CallStartPreview, MayCall
<1>5. CASE CallStopPreview
  BY <1>5 DEF CallStopPreview, MayCall
<1>6. CASE CallRelease
  BY <1>6 DEF CallRelease, MayCall
<1>7. CASE Reopen
  BY <1>7 DEF Reopen
<1>8. CASE StartRecordingLocked
  BY <1>8 DEF StartRecordingLocked, RecordLockFree, DriverStarts
<1>9. CASE StopRecordingLocked
  BY <1>9 DEF StopRecordingLocked, RecordLockFree, DriverStops
<1>10. CASE Parked
  BY <1>10 DEF Parked, ThreadParked
<1>11. CASE ReleaseFree
  BY <1>11 DEF ReleaseFree, DriverStops, Forgotten, NoneLent
<1>12. CASE ReturnFrame
  BY <1>12 DEF ReturnFrame, TakesFrames, NoneLent
<1>13. CASE QueueReturned
  BY <1>13 DEF QueueReturned, Queue
<1>14. CASE ForgetFrames
  BY <1>14 DEF ForgetFrames, Forgotten, NoneLent
<1>15. CASE ThreadBegin
  BY <1>15 DEF ThreadBegin
<1>16. CASE ThreadPark
  BY <1>16 DEF ThreadPark
<1>17. CASE ThreadDisplay
  BY <1>17 DEF ThreadDisplay
<1>18. CASE ThreadLock
  BY <1>18 DEF ThreadLock
<1>19. CASE GetRecordFrame
  BY <1>19 DEF GetRecordFrame
<1>20. CASE FillAddress
  BY <1>20 DEF FillAddress
<1>21. CASE TestMessage
  BY <1>21 DEF TestMessage
<1>22. CASE Deliver
  BY <1>22 DEF Deliver
<1>23. CASE Requeue
  BY <1>23 DEF Requeue, Queue, TakesFrames
<1>24. CASE UNCHANGED vars
  BY <1>24 DEF vars, hal, pool
<1>25. QED
  BY <1>1, <1>2, <1>3, <1>4, <1>5, <1>6, <1>7, <1>8, <1>9, <1>10, <1>11,
  <1>12, <1>13, <1>14, <1>15, <1>16, <1>17, <1>18, <1>19, <1>20, <1>21, <1>22,
  <1>23, <1>24
  DEF Next, ClientCalls, ClientSteps, EncoderSteps, ThreadSteps

\* previewThread() writes to mRecordHeap without looking at the pointer; if memory
\* does not run out it is there, since startRecording() replaces it under
\* mRecordLock and release() frees it when the thread is gone.
THEOREM RecordHeapSafeHolds ==
  ASSUME ~LateReturns, HeapFaults = FALSE PROVE Spec => []RecordHeapSafe
<1>1. Init => HeapReady
  BY DEF Init, HeapReady
<1>2. RecordingInv /\ HeapReady /\ [Next]_vars => HeapReady'
  BY HeapStep DEF RecordingInv
<1>3. RecordingInv /\ HeapReady => RecordHeapSafe
  BY DEF RecordingInv, Control, HeapReady, RecordHeapSafe, Recording
<1>4. QED
  BY <1>1, <1>2, <1>3, RecordingInvariant, PTL DEF Spec
=============================================================================
