--------------------------- MODULE CameraCapture ---------------------------
(***************************************************************************)
(* Taking pictures (libcamera/SecCameraHWInterface.cpp): the client, whose *)
(* calls CameraService serialises, and the picture thread, a libutils      *)
(* Thread that takePicture() runs once per picture.  They share the flag   *)
(* mCaptureInProgress (under mCaptureLock, each access a critical section  *)
(* of its own, hence one step), the heap mRawHeap and the camera.          *)
(*                                                                         *)
(* Preview appears as the state of the driver: what stopPreview() and      *)
(* startPreview() promise about the preview thread is CameraPreview's      *)
(* subject, and is taken from there.                                       *)
(***************************************************************************)
EXTENDS SecCamera

CONSTANTS
  MaxOpens,     \* bound: how often the device is opened
  HeapFaults,   \* TRUE: the client's memory callback may return NULL
  SharedLock    \* TRUE: callbacks take a lock that is held around HAL calls

ASSUME CaptureAssumption ==
  /\ MaxOpens \in Nat \ {0}
  /\ HeapFaults \in BOOLEAN
  /\ SharedLock \in BOOLEAN

VARIABLES
  mCaptureInProgress, \* a picture is being taken
  mRawHeap,           \* "none" or "live": the memory for the postview image
  mExitPending,       \* the picture thread has been asked to exit
  cam,                \* the SecCamera object
  call,               \* the HAL call the client is in
  cpc,                \* where in that call the client is
  ppc,                \* where the picture thread is; "none": not running
  opens               \* bound: how often the device was opened

vars == <<mCaptureInProgress, mRawHeap, mExitPending, cam, call, cpc, ppc, opens>>

Calls == {"none", "takePicture", "startPreview", "cancelPicture", "release"}

ClientPCs == {"idle",    \* outside the HAL
              "wait",    \* in waitCaptureCompletion()
              "run",     \* about to run the picture thread
              "mark",    \* about to set mCaptureInProgress
              "start",   \* startPreview(): past the wait
              "join",    \* in requestExitAndWait()
              "freeAll", \* release(): the picture thread is gone
              "released"}

\* pictureThread() is running or will be.
Working == {"new",     \* created, threadLoop() not entered yet
            "heaps",   \* writing the header of mRawHeap, getting the heaps
            "shutter", \* shutter callback, setting up the snapshot
            "expose",  \* the preview node streams the snapshot
            "publish", \* copying to mRawHeap, raw and compressed callbacks
            "out",     \* endSnapshot()
            "clear"}   \* resetting mCaptureInProgress

PicturePCs == Working \cup {"none", "ending", "crashed"}

Init ==
  /\ mCaptureInProgress = FALSE
  /\ mRawHeap = "none"
  /\ mExitPending = FALSE
  /\ \E r \in InitCamera(NewCamera) : cam = r.cam
  /\ call = "none"
  /\ cpc = "idle"
  /\ ppc = "none"
  /\ opens = 1

Return == call' = "none" /\ cpc' = "idle"

-----------------------------------------------------------------------------
(* The client.  A name ending in _Bug marks a mistake in the definition that *)
(* follows it, which is not part of the model.                               *)

(* takePicture(): stop preview, and get mRawHeap if there is none yet; if    *)
(* there is no memory for it, go on without.                                 *)
TakePicture ==
  /\ cpc = "idle"
  /\ call' = "takePicture"
  /\ cpc' = "wait"
  /\ \E r \in StopPreview(cam) : cam' = r.cam
  /\ mRawHeap' \in {"live"} \cup (IF HeapFaults THEN {mRawHeap} ELSE {})
  /\ UNCHANGED <<mCaptureInProgress, mExitPending, ppc, opens>>

(* stopPreview(). *)
CallStopPreview ==
  /\ cpc = "idle"
  /\ \E r \in StopPreview(cam) : cam' = r.cam
  /\ UNCHANGED <<mCaptureInProgress, mRawHeap, mExitPending, call, cpc, ppc, opens>>

(* startPreview(), up to the wait. *)
CallStartPreview ==
  /\ cpc = "idle"
  /\ call' = "startPreview"
  /\ cpc' = "wait"
  /\ UNCHANGED <<mCaptureInProgress, mRawHeap, mExitPending, cam, ppc, opens>>

(* waitCaptureCompletion(): returns when the flag is clear.                  *)
WaitDone_Bug ==
  /\ cpc = "wait"
  /\ cpc' = IF call = "takePicture" THEN "run" ELSE "start"
  /\ UNCHANGED <<mCaptureInProgress, mRawHeap, mExitPending, cam, call, ppc, opens>>

WaitDone ==
  /\ cpc = "wait"
  /\ ~mCaptureInProgress
  /\ cpc' = IF call = "takePicture" THEN "run" ELSE "start"
  /\ UNCHANGED <<mCaptureInProgress, mRawHeap, mExitPending, cam, call, ppc, opens>>

(* ... or gives up after five seconds, and the caller returns TIMED_OUT.     *)
WaitTimedOut ==
  /\ cpc = "wait"
  /\ mCaptureInProgress
  /\ Return
  /\ UNCHANGED <<mCaptureInProgress, mRawHeap, mExitPending, cam, ppc, opens>>

(* mPictureThread->run(): refused while the thread has not quite ended.      *)
RunPicture ==
  /\ cpc = "run"
  /\ IF ppc = "none"
       THEN ppc' = "new" /\ cpc' = "mark" /\ UNCHANGED call
       ELSE Return /\ UNCHANGED ppc
  /\ UNCHANGED <<mCaptureInProgress, mRawHeap, mExitPending, cam, opens>>

(* The flag is set after the thread has been started.                        *)
MarkInProgress_Bug ==
  /\ cpc = "mark"
  /\ Return
  /\ UNCHANGED <<mCaptureInProgress, mRawHeap, mExitPending, cam, ppc, opens>>

MarkInProgress ==
  /\ cpc = "mark"
  /\ mCaptureInProgress' = TRUE
  /\ Return
  /\ UNCHANGED <<mRawHeap, mExitPending, cam, ppc, opens>>

(* The rest of startPreview(): it starts nothing while preview runs, or while *)
(* there is no preview window.                                               *)
StartDriver ==
  /\ cpc = "start"
  /\ \/ \E r \in StartPreview(cam) : cam' = r.cam
     \/ UNCHANGED cam
  /\ Return
  /\ UNCHANGED <<mCaptureInProgress, mRawHeap, mExitPending, ppc, opens>>

(* cancelPicture() is requestExitAndWait() on the picture thread; release()  *)
(* does the same, after stopping preview for good and joining the auto focus *)
(* thread, which CameraThreads adds.                                         *)
CancelPicture ==
  /\ cpc = "idle"
  /\ call' = "cancelPicture"
  /\ cpc' = "join"
  /\ mExitPending' = TRUE
  /\ UNCHANGED <<mCaptureInProgress, mRawHeap, cam, ppc, opens>>

CallRelease ==
  /\ cpc = "idle"
  /\ call' = "release"
  /\ cpc' = "join"
  /\ mExitPending' = TRUE
  /\ \E r \in StopPreview(cam) : cam' = r.cam
  /\ UNCHANGED <<mCaptureInProgress, mRawHeap, ppc, opens>>

\* requestExit() in place of requestExitAndWait().
Joined_Bug == cpc = "join"
Joined == cpc = "join" /\ ppc = "none"

Join ==
  /\ Joined
  /\ mExitPending' = FALSE
  /\ IF call = "cancelPicture"
       THEN Return
       ELSE cpc' = "freeAll" /\ UNCHANGED call
  /\ UNCHANGED <<mCaptureInProgress, mRawHeap, cam, ppc, opens>>

NoHeap == "none"

ReleaseFree ==
  /\ cpc = "freeAll"
  /\ mRawHeap' = NoHeap
  /\ cam' \in DeinitCamera(cam)
  /\ cpc' = "released"
  /\ UNCHANGED <<mCaptureInProgress, mExitPending, call, ppc, opens>>

(* close(), and open() with a new HAL object around the same SecCamera.      *)
Reopen ==
  /\ cpc = "released"
  /\ opens < MaxOpens
  /\ opens' = opens + 1
  /\ mCaptureInProgress' = FALSE
  /\ mRawHeap' = "none"
  /\ mExitPending' = FALSE
  /\ \E r \in InitCamera(cam) : cam' = r.cam
  /\ ppc' = "none"
  /\ Return

-----------------------------------------------------------------------------
(* The picture thread.                                                       *)

\* What the picture thread leaves alone until it clears the flag.
clientOnly == <<mCaptureInProgress, mRawHeap, mExitPending, call, cpc, opens>>

(* Thread::_threadLoop(): a thread asked to exit before it got going ends    *)
(* without entering pictureThread().                                         *)
PictureBegin ==
  /\ ppc = "new"
  /\ ppc' = IF mExitPending THEN "ending" ELSE "heaps"
  /\ UNCHANGED <<clientOnly, cam>>

(* mRawHeap->data is used without a look at mRawHeap. *)
PictureHeaps ==
  /\ ppc = "heaps"
  /\ ppc' = IF mRawHeap = "none" THEN "crashed" ELSE "shutter"
  /\ UNCHANGED <<clientOnly, cam>>

\* A callback into the client, which may take a lock of the client's.
CallbackRuns == SharedLock => cpc = "idle"

(* The shutter callback, then getSnapshotAndJpeg() up to the stream-on. *)
PictureSetUp ==
  /\ ppc = "shutter"
  /\ CallbackRuns
  /\ \E r \in SnapshotBegin(cam) :
       /\ cam' = r.cam
       /\ ppc' = IF r.ret < 0 THEN "out" ELSE "expose"
  /\ UNCHANGED clientOnly

(* The rest of getSnapshotAndJpeg(). *)
PictureTake ==
  /\ ppc = "expose"
  /\ \E r \in SnapshotEnd(cam) :
       /\ cam' = r.cam
       /\ ppc' = IF r.ret < 0 THEN "out" ELSE "publish"
  /\ UNCHANGED clientOnly

(* The postview image goes to mRawHeap and the client gets its callbacks; a  *)
(* failing getExif() skips the last of them.                                 *)
PicturePublish ==
  /\ ppc = "publish"
  /\ CallbackRuns
  /\ ppc' = IF mRawHeap = "none" THEN "crashed" ELSE "out"
  /\ UNCHANGED <<clientOnly, cam>>

PictureOut ==
  /\ ppc = "out"
  /\ cam' = EndSnapshot(cam)
  /\ ppc' = "clear"
  /\ UNCHANGED clientOnly

PictureClear ==
  /\ ppc = "clear"
  /\ mCaptureInProgress' = FALSE
  /\ ppc' = "ending"
  /\ UNCHANGED <<mRawHeap, mExitPending, cam, call, cpc, opens>>

(* threadLoop() has returned false: the Thread object may be run again. *)
PictureEnd ==
  /\ ppc = "ending"
  /\ ppc' = "none"
  /\ UNCHANGED <<clientOnly, cam>>

-----------------------------------------------------------------------------
OtherCalls ==
  TakePicture \/ CallStartPreview \/ CallStopPreview \/ CancelPicture

ClientCalls == OtherCalls \/ CallRelease \/ Reopen

CallSteps ==
  \/ WaitDone \/ WaitTimedOut \/ RunPicture \/ MarkInProgress \/ StartDriver
  \/ Join

ClientSteps == CallSteps \/ ReleaseFree

PictureSteps ==
  \/ PictureBegin \/ PictureHeaps \/ PictureSetUp \/ PictureTake
  \/ PicturePublish \/ PictureOut \/ PictureClear \/ PictureEnd

Next == ClientCalls \/ ClientSteps \/ PictureSteps

Spec == Init /\ [][Next]_vars

(* Both threads get to run; the client finishes the calls it makes. *)
FairSpec == Spec /\ WF_vars(ClientSteps) /\ WF_vars(PictureSteps)

-----------------------------------------------------------------------------
\* Every variable has a value the code can give it.
TypeOK ==
  /\ mCaptureInProgress \in BOOLEAN
  /\ mRawHeap \in {"none", "live"}
  /\ mExitPending \in BOOLEAN
  /\ cam \in Camera
  /\ call \in Calls
  /\ cpc \in ClientPCs
  /\ ppc \in PicturePCs
  /\ opens \in 1..MaxOpens

\* The flag is up whenever it must be: a picture is being taken, or is about to
\* be, and the client is back from the takePicture() that started it.  This is
\* what makes waitCaptureCompletion() a wait for the picture thread.
FlagHonest == ppc \in Working /\ cpc # "mark" => mCaptureInProgress

\* startPreview() does not touch the driver, and takePicture() does not start
\* another picture, while the picture thread uses the preview node: SecCamera
\* itself would not notice.
StartExcludesPicture == cpc \in {"start", "run"} => ppc \notin Working

\* The picture thread writes to mRawHeap only while there is one, although
\* takePicture() and release() allocate and free it without a lock.
RawHeapSafe == ppc \in Working \ {"out", "clear"} => mRawHeap = "live"

\* Every way out of pictureThread(), its failures included, unmaps the snapshot
\* buffer: none is left behind for the next picture, preview or open().
BufferReturned ==
  cam.mapped => ppc \in {"expose", "publish", "out", "crashed"}

\* "it would cause deadlock between our callbacks and the caller of
\* cancelAutoFocus() which both want to grab the same lock in CameraServices
\* layer" (SecCameraHWInterface.cpp:838-845): that is why no call joins the auto
\* focus thread while that may call back.  What the comment asks for, of the
\* picture thread: a caller of cancelPicture() or release() that holds such a
\* lock (SharedLock) gets the thread to end, and returns.
CancelReturns == cpc = "join" ~> cpc \in {"idle", "released"}
=============================================================================
