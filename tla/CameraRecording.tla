-------------------------- MODULE CameraRecording --------------------------
(***************************************************************************)
(* Recording (libcamera/SecCameraHWInterface.cpp, second half of           *)
(* previewThread(), and libcamera/SecCamera.cpp): the client, whose calls  *)
(* CameraService serialises, the preview thread, which takes a frame from  *)
(* the recording node after each preview frame, and the encoder, which     *)
(* holds frames and gives them back with releaseRecordingFrame().          *)
(*                                                                         *)
(* The subject is the pool of buffers.  One of them is queued in the       *)
(* driver, in the preview thread's hands, or lent to the encoder; if a     *)
(* driver call fails or the encoder forgets it, it is lost until the next  *)
(* startRecord() queues all of them.                                       *)
(*                                                                         *)
(* Preview is on or off here, as CameraPreview establishes; a preview      *)
(* thread on its way out of previewThread() looks at that and parks.       *)
(***************************************************************************)
EXTENDS SecCamera

CONSTANTS
  Buffers,      \* the buffers of the recording node (MAX_BUFFERS of them)
  NoBuffer,     \* no buffer
  MaxOpens,     \* bound: how often the device is opened
  HeapFaults,   \* TRUE: the client's memory callback may return NULL
  Serialised,   \* TRUE: releaseRecordingFrame() comes under the client's lock too
  LateReturns   \* TRUE: the client may start to record with frames still out

ASSUME RecordingAssumption ==
  /\ NoBuffer \notin Buffers
  /\ MaxOpens \in Nat \ {0}
  /\ HeapFaults \in BOOLEAN
  /\ Serialised \in BOOLEAN
  /\ LateReturns \in BOOLEAN

VARIABLES
  mRecordRunning,  \* frames are to be taken from the recording node
  mRecordHeap,     \* "none" or "live": the memory for the frames' addresses
  videoEnabled,    \* CAMERA_MSG_VIDEO_FRAME is in mMsgEnabled
  mPreviewRunning, \* the preview thread is to work on frames
  cam,             \* the SecCamera object
  queued,          \* the buffers that the driver may fill
  frame,           \* the buffer that the preview thread has dequeued
  lent,            \* how many frames of each buffer the client has
  lost,            \* the buffers that nobody will queue in this recording
  call,            \* the HAL call the client is in
  cpc,             \* where in that call the client is
  tpc,             \* where the preview thread is
  back,            \* the buffer releaseRecordingFrame() is about to queue
  unexpected,      \* history: the driver was given a buffer it could not take
  opens            \* bound: how often the device was opened

pool == <<queued, frame, lent, lost, unexpected>>
hal == <<mRecordRunning, mRecordHeap, videoEnabled, mPreviewRunning, opens>>
vars == <<hal, cam, pool, call, cpc, tpc, back>>

Calls == {"none", "startRecording", "stopRecording", "stopPreview", "release"}

ClientPCs == {"idle",    \* outside the HAL
              "lock",    \* at mRecordLock
              "park",    \* waiting for the preview thread to stop
              "freeAll", \* release(): the threads are gone
              "released"}

\* The preview thread is in the section that mRecordLock protects.
Recording == {"dequeue",  \* in getRecordFrame()
              "address",  \* asking for the frame's address
              "message",  \* testing mMsgEnabled
              "callback", \* handing the frame to the client
              "requeue"}  \* giving it back to the driver

ThreadPCs == Recording \cup {"parked",   \* preview is off
                             "display",  \* about to begin with the next preview frame
                             "lock"}     \* at mRecordLock

NoneLent == [b \in Buffers |-> 0]

Init ==
  /\ mRecordRunning = FALSE
  /\ mRecordHeap = "none"
  /\ videoEnabled = FALSE
  /\ mPreviewRunning = FALSE
  /\ \E r \in InitCamera(NewCamera) : cam = r.cam
  /\ queued = {}
  /\ frame = NoBuffer
  /\ lent = NoneLent
  /\ lost = {}
  /\ call = "none"
  /\ cpc = "idle"
  /\ tpc = "parked"
  /\ back = NoBuffer
  /\ unexpected = FALSE
  /\ opens = 1

Return == call' = "none" /\ cpc' = "idle"

-----------------------------------------------------------------------------
(* The driver's queue, modelled from how SecCamera uses it.                  *)

(* A buffer is queued again: one the driver cannot take, since it has it or  *)
(* since it has been stopped, is remembered in "unexpected"; if the call     *)
(* fails the buffer is lost.                                                 *)
Queue(b) ==
  /\ unexpected' = (unexpected \/ b \in queued \/ ~cam.recStreaming)
  /\ \/ queued' = queued \cup {b} /\ UNCHANGED lost
     \/ DriverFaults /\ lost' = lost \cup {b} /\ UNCHANGED queued

(* startRecord() queues all buffers before the stream-on. *)
DriverStarts(c) ==
  /\ cam' = c
  /\ IF c.recStreaming /\ ~cam.recStarted
       THEN queued' = Buffers /\ lost' = {}
       ELSE UNCHANGED <<queued, lost>>

(* A stream-off, or the closing of the node, empties the queue. *)
DriverStops(c) ==
  /\ cam' = c
  /\ queued' = IF c.recStreaming THEN queued ELSE {}

-----------------------------------------------------------------------------
(* The client.  A name ending in _Bug marks a mistake in the definition that *)
(* follows it, which is not part of the model.                               *)

\* With CameraService's lock around both, no call is made during
\* releaseRecordingFrame() and the other way round.
MayCall == cpc = "idle" /\ (Serialised => back = NoBuffer)

(* startRecording(), up to the lock.  A client that keeps to the protocol    *)
(* has given all frames back, unless it is recording already.                *)
CallStartRecording ==
  /\ MayCall
  /\ mRecordRunning \/ LateReturns \/ (lent = NoneLent /\ back = NoBuffer)
  /\ \A b \in Buffers : lent[b] < 2       \* bound: frames of one buffer out at once
  /\ call' = "startRecording"
  /\ cpc' = "lock"
  /\ UNCHANGED <<hal, cam, pool, tpc, back>>

CallStopRecording ==
  /\ MayCall
  /\ call' = "stopRecording"
  /\ cpc' = "lock"
  /\ UNCHANGED <<hal, cam, pool, tpc, back>>

\* The client may enter the section that mRecordLock protects.
RecordLockFree_Bug == TRUE
RecordLockFree == tpc \notin Recording

(* The rest of startRecording(): a new heap, and the driver if it does not   *)
(* run yet.  The old heap is released first, and mRecordRunning is not       *)
(* looked at when there is no memory for a new one.                          *)
StartRecordingLocked ==
  /\ cpc = "lock" /\ call = "startRecording" /\ RecordLockFree
  /\ mRecordHeap' \in {"live"} \cup (IF HeapFaults THEN {"none"} ELSE {})
  /\ IF mRecordHeap' = "none" \/ mRecordRunning
       THEN UNCHANGED <<mRecordRunning, cam, queued, lost>>
       ELSE \E r \in StartRecord(cam) :
              /\ DriverStarts(r.cam)
              /\ mRecordRunning' = (r.ret = 0)
  /\ Return
  /\ UNCHANGED <<videoEnabled, mPreviewRunning, opens, frame, lent, unexpected, tpc, back>>

(* The rest of stopRecording(): mRecordRunning survives a failure.           *)
StopRecordingLocked ==
  /\ cpc = "lock" /\ call = "stopRecording" /\ RecordLockFree
  /\ IF mRecordRunning
       THEN \E r \in StopRecord(cam) :
              /\ DriverStops(r.cam)
              /\ mRecordRunning' = (r.ret # 0)
       ELSE UNCHANGED <<mRecordRunning, cam, queued>>
  /\ Return
  /\ UNCHANGED <<mRecordHeap, videoEnabled, mPreviewRunning, opens,
                 frame, lent, lost, unexpected, tpc, back>>

(* enableMsgType() and disableMsgType() of CAMERA_MSG_VIDEO_FRAME.           *)
SetVideoMessages ==
  /\ MayCall
  /\ videoEnabled' = ~videoEnabled
  /\ UNCHANGED <<mRecordRunning, mRecordHeap, mPreviewRunning, opens,
                 cam, pool, call, cpc, tpc, back>>

(* startPreview(), and stopPreview(), which waits for the thread to stop.    *)
CallStartPreview ==
  /\ MayCall
  /\ mPreviewRunning' = TRUE
  /\ UNCHANGED <<mRecordRunning, mRecordHeap, videoEnabled, opens,
                 cam, pool, call, cpc, tpc, back>>

CallStopPreview ==
  /\ MayCall
  /\ mPreviewRunning' = FALSE
  /\ call' = "stopPreview"
  /\ cpc' = "park"
  /\ UNCHANGED <<mRecordRunning, mRecordHeap, videoEnabled, opens,
                 cam, pool, tpc, back>>

(* release() stops the thread for good; the encoder is done with the HAL.    *)
CallRelease ==
  /\ MayCall /\ back = NoBuffer
  /\ mPreviewRunning' = FALSE
  /\ call' = "release"
  /\ cpc' = "park"
  /\ UNCHANGED <<mRecordRunning, mRecordHeap, videoEnabled, opens,
                 cam, pool, tpc, back>>

\* release() without waiting for the thread.
ThreadParked_Bug == TRUE
ThreadParked == tpc = "parked"

Parked ==
  /\ cpc = "park"
  /\ ThreadParked
  /\ IF call = "release" THEN cpc' = "freeAll" /\ UNCHANGED call ELSE Return
  /\ UNCHANGED <<hal, cam, pool, tpc, back>>

\* The buffers lost if the client drops the frames it has.
Forgotten == lost \cup {b \in Buffers : lent[b] > 0 /\ b \notin queued}

(* The end of release(): the heap goes, and the video nodes are closed.      *)
ReleaseFree ==
  /\ cpc = "freeAll"
  /\ mRecordHeap' = "none"
  /\ \E c \in DeinitCamera(cam) : DriverStops(c)
  /\ lent' = NoneLent
  /\ lost' = Forgotten
  /\ cpc' = "released"
  /\ UNCHANGED <<mRecordRunning, videoEnabled, mPreviewRunning, opens,
                 frame, unexpected, call, tpc, back>>

(* close(), and open() with a new HAL object around the same SecCamera.      *)
Reopen ==
  /\ cpc = "released"
  /\ opens < MaxOpens
  /\ opens' = opens + 1
  /\ mRecordRunning' = FALSE
  /\ videoEnabled' = FALSE
  /\ \E r \in InitCamera(cam) : cam' = r.cam
  /\ Return
  /\ UNCHANGED <<mRecordHeap, mPreviewRunning, pool, tpc, back>>

-----------------------------------------------------------------------------
(* The encoder.                                                              *)

\* releaseRecordFrame() tests this and not HAL's mRecordRunning.
TakesFrames_Bug == TRUE
TakesFrames == cam.recStarted

(* releaseRecordingFrame() up to the test of m_flag_record_start: a frame    *)
(* that comes back after the driver was stopped is dropped.                  *)
ReturnFrame ==
  /\ back = NoBuffer
  /\ cpc \notin {"freeAll", "released"} /\ call # "release"
  /\ Serialised => cpc = "idle"
  /\ \E b \in Buffers :
       /\ lent[b] > 0
       /\ lent' = [lent EXCEPT ![b] = @ - 1]
       /\ back' = IF TakesFrames THEN b ELSE NoBuffer
  /\ UNCHANGED <<hal, cam, queued, frame, lost, unexpected, call, cpc, tpc>>

(* The rest of it. *)
QueueReturned ==
  /\ back # NoBuffer
  /\ Queue(back)
  /\ back' = NoBuffer
  /\ UNCHANGED <<hal, cam, frame, lent, call, cpc, tpc>>

(* A client that has disabled the messages need not give its frames back     *)
(* (SecCameraHWInterface.cpp:2247-2252), and then does not use them.         *)
ForgetFrames ==
  /\ ~videoEnabled
  /\ lent # NoneLent
  /\ cpc \notin {"freeAll", "released"}
  /\ lent' = NoneLent
  /\ lost' = Forgotten
  /\ UNCHANGED <<hal, cam, queued, frame, unexpected, call, cpc, tpc, back>>

-----------------------------------------------------------------------------
(* The preview thread.                                                       *)

clientOnly == <<hal, call, cpc, back>>

(* previewThreadWrapper(): work while preview is on.                         *)
ThreadBegin ==
  /\ tpc = "parked"
  /\ mPreviewRunning
  /\ tpc' = "display"
  /\ UNCHANGED <<clientOnly, cam, pool>>

ThreadPark ==
  /\ tpc = "display"
  /\ ~mPreviewRunning
  /\ tpc' = "parked"
  /\ UNCHANGED <<clientOnly, cam, pool>>

(* The first half of previewThread(), when it does not return early.         *)
ThreadDisplay ==
  /\ tpc = "display"
  /\ mPreviewRunning
  /\ tpc' = "lock"
  /\ UNCHANGED <<clientOnly, cam, pool>>

\* mRecordRunning is tested with mRecordLock held.
ThreadLock ==
  /\ tpc = "lock"
  /\ tpc' = IF mRecordRunning /\ cam.recStarted THEN "dequeue" ELSE "display"
  /\ UNCHANGED <<clientOnly, cam, pool>>

(* getRecordFrame() waits in the driver until a buffer has been filled, and  *)
(* fails if the node does not stream.                                        *)
GetRecordFrame ==
  /\ tpc = "dequeue"
  /\ \/ \E b \in queued :
          /\ cam.recStreaming
          /\ frame' = b
          /\ queued' = queued \ {b}
          /\ tpc' = "address"
     \/ /\ ~cam.recStreaming \/ (DriverFaults /\ queued # {})
        /\ tpc' = "display"
        /\ UNCHANGED <<frame, queued>>
  /\ UNCHANGED <<clientOnly, cam, lent, lost, unexpected>>

(* The frame's address goes to mRecordHeap, whose pointer is not looked at;  *)
(* if there is no address the frame is neither delivered nor queued again.   *)
FillAddress ==
  /\ tpc = "address"
  /\ \/ tpc' = "message" /\ UNCHANGED <<frame, lost>>
     \/ /\ DriverFaults
        /\ lost' = lost \cup {frame}
        /\ frame' = NoBuffer
        /\ tpc' = "display"
  /\ UNCHANGED <<clientOnly, cam, queued, lent, unexpected>>

TestMessage ==
  /\ tpc = "message"
  /\ tpc' = IF videoEnabled THEN "callback" ELSE "requeue"
  /\ UNCHANGED <<clientOnly, cam, pool>>

\* A frame handed out and queued again at once.
Deliver_Bug ==
  /\ tpc = "callback"
  /\ lent' = [lent EXCEPT ![frame] = @ + 1]
  /\ queued' = queued \cup {frame}
  /\ frame' = NoBuffer
  /\ tpc' = "display"
  /\ UNCHANGED <<clientOnly, cam, lost, unexpected>>

Deliver ==
  /\ tpc = "callback"
  /\ lent' = [lent EXCEPT ![frame] = @ + 1]
  /\ frame' = NoBuffer
  /\ tpc' = "display"
  /\ UNCHANGED <<clientOnly, cam, queued, lost, unexpected>>

\* A frame nobody wants is not given back to the driver.
Requeue_Bug ==
  /\ tpc = "requeue"
  /\ frame' = NoBuffer
  /\ tpc' = "display"
  /\ UNCHANGED <<clientOnly, cam, lent, queued, lost, unexpected>>

Requeue ==
  /\ tpc = "requeue"
  /\ IF TakesFrames THEN Queue(frame) ELSE UNCHANGED <<queued, lost, unexpected>>
  /\ frame' = NoBuffer
  /\ tpc' = "display"
  /\ UNCHANGED <<clientOnly, cam, lent>>

-----------------------------------------------------------------------------
ClientCalls ==
  \/ CallStartRecording \/ CallStopRecording \/ SetVideoMessages
  \/ CallStartPreview \/ CallStopPreview \/ CallRelease \/ Reopen

ClientSteps ==
  \/ StartRecordingLocked \/ StopRecordingLocked \/ Parked \/ ReleaseFree

EncoderSteps == ReturnFrame \/ QueueReturned

ThreadSteps ==
  \/ ThreadBegin \/ ThreadPark \/ ThreadDisplay \/ ThreadLock \/ GetRecordFrame
  \/ FillAddress \/ TestMessage \/ Deliver \/ Requeue

Next == ClientCalls \/ ClientSteps \/ EncoderSteps \/ ForgetFrames \/ ThreadSteps

Spec == Init /\ [][Next]_vars

(* Threads get to run, the client finishes its calls and gets mRecordLock in *)
(* the end; the encoder gives frames back as long as it has to, that is,     *)
(* until the messages are disabled.                                          *)
FairSpec ==
  /\ Spec
  /\ WF_vars(ThreadSteps) /\ SF_vars(ClientSteps)
  /\ WF_vars(QueueReturned) /\ WF_vars(videoEnabled /\ ReturnFrame)

-----------------------------------------------------------------------------
\* Every variable has a value the code can give it.
TypeOK ==
  /\ mRecordRunning \in BOOLEAN
  /\ mRecordHeap \in {"none", "live"}
  /\ videoEnabled \in BOOLEAN
  /\ mPreviewRunning \in BOOLEAN
  /\ cam \in Camera
  /\ queued \subseteq Buffers
  /\ frame \in Buffers \cup {NoBuffer}
  /\ (frame # NoBuffer) = (tpc \in Recording \ {"dequeue"})
  /\ lent \in [Buffers -> 0..2]
  /\ lost \subseteq Buffers
  /\ call \in Calls
  /\ cpc \in ClientPCs
  /\ tpc \in ThreadPCs
  /\ back \in Buffers \cup {NoBuffer}
  /\ unexpected \in BOOLEAN
  /\ opens \in 1..MaxOpens

\* "fimc could crash if we called qbuf and it wasn't expecting it"
\* (SecCamera.cpp:1031-1035): no frame is given back to a recording node that
\* has been stopped or that has the buffer already.
QbufExpected == ~unexpected

\* While the encoder reads a frame, or the preview thread works on it, the
\* driver does not have its buffer to write the next one to.
FrameOwned ==
  \A b \in Buffers : b \in queued => b # frame /\ lent[b] = 0 /\ b # back

\* While recording goes on every buffer is with someone who passes it on, unless
\* a driver call failed for it or the client has forgotten it: no path through
\* previewThread() and releaseRecordingFrame() drops one.
NoBufferLeaks ==
  cam.recStarted /\ cam.recStreaming =>
    \A b \in Buffers : \/ b \in queued \cup lost \cup {frame, back}
                       \/ lent[b] > 0

\* previewThread() writes to mRecordHeap only while there is one.
RecordHeapSafe == tpc \in Recording \ {"dequeue"} => mRecordHeap = "live"

\* The client gets a frame only while it records: none comes after a
\* stopRecording() that has done its work.
NoFrameAfterStop ==
  [][\A b \in Buffers : lent'[b] > lent[b] => mRecordRunning]_vars

\* No buffer can come to the preview thread any more: each is with the client, or
\* lost, that is, the client has forgotten it, or the HAL itself has dropped it on
\* an error path (a frame without an address, SecCameraHWInterface.cpp:642-646, or
\* a failed qbuf).
Starved == \A b \in Buffers : lent[b] > 0 \/ b \in lost

\* stopRecording(), stopPreview() and release() return, unless the preview thread
\* waits, with mRecordLock, for the last of the buffers: no order of the calls
\* and the thread's steps holds them up while the driver has a buffer to fill.
\* Without a buffer they do hang, whoever has lost it.
CallsReturnUnlessStarved ==
  cpc \in {"lock", "park"} ~> cpc \in {"idle", "released"} \/ Starved
=============================================================================
