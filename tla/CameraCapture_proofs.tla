------------------------ MODULE CameraCapture_proofs ------------------------
(***************************************************************************)
(* Proofs about CameraCapture, for every number of openings and whether or *)
(* not driver calls, memory and locks are there: type correctness; that    *)
(* mCaptureInProgress keeps the picture thread apart from preview and from *)
(* the next picture; that the snapshot buffer is always unmapped; and, if  *)
(* memory never runs out, that mRawHeap is there when it is written to.    *)
(* The second part is about CameraFocus: type correctness, and that a      *)
(* request leads to at most one callback.  The third is about CameraThreads, *)
(* which is each of the two when the other is not looked at.               *)
(***************************************************************************)
EXTENDS CameraThreads, SecCamera_proofs

USE CaptureAssumption

\* The client has joined the picture thread before it frees anything.
ReleasedAlone == cpc \in {"freeAll", "released"} => ppc = "none"

\* When takePicture() gets to run the picture thread there is an mRawHeap.
HeapReady == call = "takePicture" /\ cpc \in {"wait", "run"} => mRawHeap = "live"

\* TypeOK without the camera, which the lemmas of SecCamera_proofs are about.
StateOK ==
  /\ mCaptureInProgress \in BOOLEAN
  /\ mRawHeap \in {"none", "live"}
  /\ mExitPending \in BOOLEAN
  /\ call \in Calls
  /\ cpc \in ClientPCs
  /\ ppc \in PicturePCs
  /\ opens \in 1..MaxOpens
  /\ cpc = "run" => call = "takePicture"

CaptureInv ==
  /\ StateOK
  /\ cam \in Camera
  /\ FlagHonest
  /\ StartExcludesPicture
  /\ ReleasedAlone
  /\ BufferReturned

\* The calls of SecCamera, and nothing else, change the camera.
LEMMA CameraStep == cam \in Camera /\ [Next]_vars => cam' \in Camera
<1> SUFFICES ASSUME cam \in Camera, [Next]_vars PROVE cam' \in Camera
  OBVIOUS
<1>1. CASE TakePicture
  BY <1>1, StopPreviewType, ReplyFields DEF TakePicture
<1>2. CASE CallStopPreview
  BY <1>2, StopPreviewType, ReplyFields DEF CallStopPreview
<1>3. CASE CallRelease
  BY <1>3, StopPreviewType, ReplyFields DEF CallRelease
<1>4. CASE Reopen
  BY <1>4, InitCameraType, ReplyFields DEF Reopen
<1>5. CASE StartDriver
  BY <1>5, StartPreviewType, ReplyFields DEF StartDriver
<1>6. CASE ReleaseFree
  BY <1>6, DeinitCameraType DEF ReleaseFree, NoHeap
<1>7. CASE PictureSetUp
  BY <1>7, SnapshotBeginType, ReplyFields DEF PictureSetUp
<1>8. CASE PictureTake
  BY <1>8, SnapshotEndType, ReplyFields DEF PictureTake
<1>9. CASE PictureOut
  BY <1>9, EndSnapshotType DEF PictureOut
<1>10. CASE UNCHANGED cam
  BY <1>10
<1>11. QED
  BY <1>1, <1>2, <1>3, <1>4, <1>5, <1>6, <1>7, <1>8, <1>9, <1>10
  DEF Next, ClientCalls, OtherCalls, ClientSteps, CallSteps, PictureSteps, vars, clientOnly,
  CallStartPreview, CancelPicture, WaitDone, WaitTimedOut, RunPicture,
  MarkInProgress, Join, PictureBegin, PictureHeaps, PicturePublish,
  PictureClear, PictureEnd

\* Every step keeps the types of all variables but the camera.
LEMMA StateStep == StateOK /\ [Next]_vars => StateOK'
<1> SUFFICES ASSUME StateOK, [Next]_vars PROVE StateOK'
  OBVIOUS
<1> USE DEF StateOK, Calls, ClientPCs, PicturePCs, Working, Return, clientOnly
<1>1. CASE TakePicture
  BY <1>1 DEF TakePicture
<1>2. CASE CallStartPreview
  BY <1>2 DEF CallStartPreview
<1>3. CASE CallStopPreview
  BY <1>3 DEF CallStopPreview
<1>4. CASE CancelPicture
  BY <1>4 DEF CancelPicture
<1>5. CASE CallRelease
  BY <1>5 DEF CallRelease
<1>6. CASE Reopen
  <2>1. opens' \in 1..MaxOpens
    <3>1. opens \in 1..MaxOpens /\ opens < MaxOpens /\ opens' = opens + 1
      BY <1>6 DEF Reopen
    <3>2. QED
      BY <3>1, CaptureAssumption
  <2>2. QED
    BY <1>6, <2>1 DEF Reopen
<1>7. CASE WaitDone
  BY <1>7 DEF WaitDone
<1>8. CASE WaitTimedOut
  BY <1>8 DEF WaitTimedOut
<1>9. CASE RunPicture
  BY <1>9 DEF RunPicture
<1>10. CASE MarkInProgress
  BY <1>10 DEF MarkInProgress
<1>11. CASE StartDriver
  BY <1>11 DEF StartDriver
<1>12. CASE Join
  BY <1>12 DEF Join, Joined
<1>13. CASE ReleaseFree
  BY <1>13 DEF ReleaseFree, NoHeap
<1>14. CASE PictureBegin
  BY <1>14 DEF PictureBegin
<1>15. CASE PictureHeaps
  BY <1>15 DEF PictureHeaps
<1>16. CASE PictureSetUp
  BY <1>16 DEF PictureSetUp
<1>17. CASE PictureTake
  BY <1>17 DEF PictureTake
<1>18. CASE PicturePublish
  BY <1>18 DEF PicturePublish
<1>19. CASE PictureOut
  BY <1>19 DEF PictureOut
<1>20. CASE PictureClear
  BY <1>20 DEF PictureClear
<1>21. CASE PictureEnd
  BY <1>21 DEF PictureEnd
<1>22. CASE UNCHANGED vars
  BY <1>22 DEF vars
<1>23. QED
  BY <1>1, <1>2, <1>3, <1>4, <1>5, <1>6, <1>7, <1>8, <1>9, <1>10, <1>11,
  <1>12, <1>13, <1>14, <1>15, <1>16, <1>17, <1>18, <1>19, <1>20, <1>21, <1>22
  DEF Next, ClientCalls, OtherCalls, ClientSteps, CallSteps, PictureSteps

\* The flag is up from the end of takePicture() until the picture thread clears
\* it, and a client that has seen it clear has the thread out of the way: only
\* that client starts it again.
LEMMA FlagStep ==
  FlagHonest /\ StartExcludesPicture /\ ReleasedAlone /\ [Next]_vars
    => FlagHonest' /\ StartExcludesPicture' /\ ReleasedAlone'
<1> SUFFICES ASSUME FlagHonest, StartExcludesPicture, ReleasedAlone, [Next]_vars
             PROVE  FlagHonest' /\ StartExcludesPicture' /\ ReleasedAlone'
  OBVIOUS
<1> USE DEF FlagHonest, StartExcludesPicture, ReleasedAlone, Working, Return,
            clientOnly
<1>1. CASE TakePicture
  BY <1>1 DEF TakePicture
<1>2. CASE CallStartPreview
  BY <1>2 DEF CallStartPreview
<1>3. CASE CallStopPreview
  BY <1>3 DEF CallStopPreview
<1>4. CASE CancelPicture
  BY <1>4 DEF CancelPicture
<1>5. CASE CallRelease
  BY <1>5 DEF CallRelease
<1>6. CASE Reopen
  BY <1>6 DEF Reopen
<1>7. CASE WaitDone
  BY <1>7 DEF WaitDone
<1>8. CASE WaitTimedOut
  BY <1>8 DEF WaitTimedOut
<1>9. CASE RunPicture
  BY <1>9 DEF RunPicture
<1>10. CASE MarkInProgress
  BY <1>10 DEF MarkInProgress
<1>11. CASE StartDriver
  BY <1>11 DEF StartDriver
<1>12. CASE Join
  BY <1>12 DEF Join, Joined
<1>13. CASE ReleaseFree
  BY <1>13 DEF ReleaseFree, NoHeap
<1>14. CASE PictureBegin
  BY <1>14 DEF PictureBegin
<1>15. CASE PictureHeaps
  BY <1>15 DEF PictureHeaps
<1>16. CASE PictureSetUp
  BY <1>16 DEF PictureSetUp
<1>17. CASE PictureTake
  BY <1>17 DEF PictureTake
<1>18. CASE PicturePublish
  BY <1>18 DEF PicturePublish
<1>19. CASE PictureOut
  BY <1>19 DEF PictureOut
<1>20. CASE PictureClear
  BY <1>20 DEF PictureClear
<1>21. CASE PictureEnd
  BY <1>21 DEF PictureEnd
<1>22. CASE UNCHANGED vars
  BY <1>22 DEF vars
<1>23. QED
  BY <1>1, <1>2, <1>3, <1>4, <1>5, <1>6, <1>7, <1>8, <1>9, <1>10, <1>11,
  <1>12, <1>13, <1>14, <1>15, <1>16, <1>17, <1>18, <1>19, <1>20, <1>21, <1>22
  DEF Next, ClientCalls, OtherCalls, ClientSteps, CallSteps, PictureSteps

\* The snapshot buffer is mapped by getSnapshotAndJpeg() only, and each way from
\* there leads through endSnapshot().
LEMMA BufferStep ==
  cam \in Camera /\ ReleasedAlone /\ BufferReturned /\ [Next]_vars => BufferReturned'
<1> SUFFICES ASSUME cam \in Camera, ReleasedAlone, BufferReturned, [Next]_vars
             PROVE  BufferReturned'
  OBVIOUS
<1> USE DEF ReleasedAlone, BufferReturned, Return, clientOnly
<1>1. CASE TakePicture
  BY <1>1, StopPreviewMapped DEF TakePicture
<1>2. CASE CallStartPreview
  BY <1>2 DEF CallStartPreview
<1>3. CASE CallStopPreview
  BY <1>3, StopPreviewMapped DEF CallStopPreview
<1>4. CASE CancelPicture
  BY <1>4 DEF CancelPicture
<1>5. CASE CallRelease
  BY <1>5, StopPreviewMapped DEF CallRelease
<1>6. CASE Reopen
  BY <1>6, InitCameraMapped DEF Reopen
<1>7. CASE WaitDone
  BY <1>7 DEF WaitDone
<1>8. CASE WaitTimedOut
  BY <1>8 DEF WaitTimedOut
<1>9. CASE RunPicture
  BY <1>9 DEF RunPicture
<1>10. CASE MarkInProgress
  BY <1>10 DEF MarkInProgress
<1>11. CASE StartDriver
  BY <1>11, StartPreviewMapped DEF StartDriver
<1>12. CASE Join
  BY <1>12 DEF Join, Joined
<1>13. CASE ReleaseFree
  BY <1>13, DeinitCameraMapped DEF ReleaseFree, NoHeap
<1>14. CASE PictureBegin
  BY <1>14 DEF PictureBegin
<1>15. CASE PictureHeaps
  BY <1>15 DEF PictureHeaps
<1>16. CASE PictureSetUp
  BY <1>16 DEF PictureSetUp
<1>17. CASE PictureTake
  BY <1>17 DEF PictureTake
<1>18. CASE PicturePublish
  BY <1>18 DEF PicturePublish
<1>19. CASE PictureOut
  BY <1>19 DEF PictureOut, EndSnapshot, Camera
<1>20. CASE PictureClear
  BY <1>20 DEF PictureClear
<1>21. CASE PictureEnd
  BY <1>21 DEF PictureEnd
<1>22. CASE UNCHANGED vars
  BY <1>22 DEF vars
<1>23. QED
  BY <1>1, <1>2, <1>3, <1>4, <1>5, <1>6, <1>7, <1>8, <1>9, <1>10, <1>11,
  <1>12, <1>13, <1>14, <1>15, <1>16, <1>17, <1>18, <1>19, <1>20, <1>21, <1>22
  DEF Next, ClientCalls, OtherCalls, ClientSteps, CallSteps, PictureSteps

\* The invariant holds when the device has been opened.
LEMMA CaptureInit == Init => CaptureInv
<1> SUFFICES ASSUME Init PROVE CaptureInv
  OBVIOUS
<1>1. cam \in Camera /\ ~cam.mapped
  <2>1. NewCamera.mapped = FALSE
    BY DEF NewCamera
  <2>2. QED
    BY <2>1, NewCameraType, InitCameraType, InitCameraMapped, ReplyFields DEF Init
<1>2. StateOK
  <2>1. opens \in 1..MaxOpens
    BY CaptureAssumption DEF Init
  <2>2. QED
    BY <2>1 DEF Init, StateOK, Calls, ClientPCs, PicturePCs, Working
<1>3. FlagHonest /\ StartExcludesPicture /\ ReleasedAlone
  BY DEF Init, FlagHonest, StartExcludesPicture, ReleasedAlone, Working
<1>4. BufferReturned
  BY <1>1 DEF BufferReturned
<1>5. QED
  BY <1>1, <1>2, <1>3, <1>4 DEF CaptureInv

\* All of it holds in every state the component can reach.
THEOREM CaptureInvariant == Spec => []CaptureInv
<1>1. CaptureInv /\ [Next]_vars => CaptureInv'
  BY CameraStep, StateStep, FlagStep, BufferStep DEF CaptureInv
<1>2. QED
  BY <1>1, CaptureInit, PTL DEF Spec

\* Type correctness of the still capture component.
THEOREM CaptureTypeCorrect == Spec => []TypeOK
<1>1. CaptureInv => TypeOK
  BY DEF CaptureInv, StateOK, TypeOK
<1>2. QED
  BY <1>1, CaptureInvariant, PTL

\* Whatever fails, mCaptureInProgress is up while a picture is being taken, once
\* takePicture() has returned.
THEOREM FlagHonestHolds == Spec => []FlagHonest
<1>1. CaptureInv => FlagHonest
  BY DEF CaptureInv
<1>2. QED
  BY <1>1, CaptureInvariant, PTL

\* waitCaptureCompletion() keeps startPreview() and the next takePicture() away
\* from the picture thread, though takePicture() sets the flag late.
THEOREM StartExcludesPictureHolds == Spec => []StartExcludesPicture
<1>1. CaptureInv => StartExcludesPicture
  BY DEF CaptureInv
<1>2. QED
  BY <1>1, CaptureInvariant, PTL

\* Every return of pictureThread() unmaps the snapshot buffer.
THEOREM BufferReturnedHolds == Spec => []BufferReturned
<1>1. CaptureInv => BufferReturned
  BY DEF CaptureInv
<1>2. QED
  BY <1>1, CaptureInvariant, PTL

-----------------------------------------------------------------------------
(* mRawHeap, when the client's memory callback never fails.                  *)

\* If memory never runs out, takePicture() leaves an mRawHeap to the picture thread.
LEMMA HeapStep ==
  ASSUME HeapFaults = FALSE
  PROVE  StateOK /\ ReleasedAlone /\ HeapReady /\ RawHeapSafe /\ [Next]_vars
           => HeapReady' /\ RawHeapSafe'
<1> SUFFICES ASSUME StateOK, ReleasedAlone, HeapReady, RawHeapSafe, [Next]_vars
             PROVE  HeapReady' /\ RawHeapSafe'
  OBVIOUS
<1> USE HeapFaults = FALSE
    DEF StateOK, ReleasedAlone, HeapReady, RawHeapSafe, Working, Return, clientOnly
<1>1. CASE TakePicture
  BY <1>1 DEF TakePicture
<1>2. CASE CallStartPreview
  BY <1>2 DEF CallStartPreview
<1>3. CASE CallStopPreview
  BY <1>3 DEF CallStopPreview
<1>4. CASE CancelPicture
  BY <1>4 DEF CancelPicture
<1>5. CASE CallRelease
  BY <1>5 DEF CallRelease
<1>6. CASE Reopen
  BY <1>6 DEF Reopen
<1>7. CASE WaitDone
  BY <1>7 DEF WaitDone
<1>8. CASE WaitTimedOut
  BY <1>8 DEF WaitTimedOut
<1>9. CASE RunPicture
  BY <1>9 DEF RunPicture
<1>10. CASE MarkInProgress
  BY <1>10 DEF MarkInProgress
<1>11. CASE StartDriver
  BY <1>11 DEF StartDriver
<1>12. CASE Join
  BY <1>12 DEF Join, Joined
<1>13. CASE ReleaseFree
  BY <1>13 DEF ReleaseFree, NoHeap
<1>14. CASE PictureBegin
  BY <1>14 DEF PictureBegin
<1>15. CASE PictureHeaps
  BY <1>15 DEF PictureHeaps
<1>16. CASE PictureSetUp
  BY <1>16 DEF PictureSetUp
<1>17. CASE PictureTake
  BY <1>17 DEF PictureTake
<1>18. CASE PicturePublish
  BY <1>18 DEF PicturePublish
<1>19. CASE PictureOut
  BY <1>19 DEF PictureOut
<1>20. CASE PictureClear
  BY <1>20 DEF PictureClear
<1>21. CASE PictureEnd
  BY <1>21 DEF PictureEnd
<1>22. CASE UNCHANGED vars
  BY <1>22 DEF vars
<1>23. QED
  BY <1>1, <1>2, <1>3, <1>4, <1>5, <1>6, <1>7, <1>8, <1>9, <1>10, <1>11,
  <1>12, <1>13, <1>14, <1>15, <1>16, <1>17, <1>18, <1>19, <1>20, <1>21, <1>22
  DEF Next, ClientCalls, OtherCalls, ClientSteps, CallSteps, PictureSteps

\* pictureThread() writes to mRawHeap without looking at the pointer; if memory
\* does not run out, takePicture() has always set it, and release() frees it
\* only when the thread is gone.
THEOREM RawHeapSafeHolds ==
  ASSUME HeapFaults = FALSE PROVE Spec => []RawHeapSafe
<1>1. Init => HeapReady /\ RawHeapSafe
  BY DEF Init, HeapReady, RawHeapSafe, Working
<1>2. /\ CaptureInv /\ HeapReady /\ RawHeapSafe /\ [Next]_vars
      => HeapReady' /\ RawHeapSafe'
  BY HeapStep, HeapFaults = FALSE DEF CaptureInv
<1>3. QED
  BY <1>1, <1>2, CaptureInvariant, PTL DEF Spec

-----------------------------------------------------------------------------
(* Auto focus: the proofs about CameraFocus.                                 *)

USE FocusAssumption

\* The invariant: the bound on the number of callbacks is part of the type, and
\* follows from OncePerRequest.
FocusInv == FocusTypeOK /\ OncePerRequest

\* FocusTypeOK but for the two counters.
FocusStateOK ==
  /\ mExitAutoFocusThread \in BOOLEAN
  /\ focusOpen \in BOOLEAN
  /\ lens \in {"default", "focusing", "done"}
  /\ fpc \in FocusPCs
  /\ focusClient \in {"idle", "join", "joined", "released"}

\* The counters, with what ties them together.
FocusCountOK ==
  /\ asked \in 0..MaxRequests
  /\ answered \in 0..MaxRequests
  /\ OncePerRequest

\* The invariant in two parts.
LEMMA FocusParts == FocusInv <=> FocusStateOK /\ FocusCountOK
BY DEF FocusInv, FocusTypeOK, FocusStateOK, FocusCountOK

\* The invariant holds when the focus thread has been created.
LEMMA FocusInitially == FocusInit => FocusInv
<1> SUFFICES ASSUME FocusInit PROVE FocusInv
  OBVIOUS
<1>1. FocusStateOK
  BY DEF FocusInit, FocusStateOK, FocusPCs, IfFaulty
<1>2. FocusCountOK
  BY DEF FocusInit, FocusCountOK, OncePerRequest, Busy
<1>3. QED
  BY <1>1, <1>2, FocusParts

\* What the steps do to all but the counters.
LEMMA FocusStateStep ==
  FocusStateOK /\ [FocusNext]_focusVars => FocusStateOK'
<1> SUFFICES ASSUME FocusStateOK, [FocusNext]_focusVars PROVE FocusStateOK'
  OBVIOUS
<1> USE DEF FocusStateOK, FocusPCs, SignalFocus, focusClientOnly
<1>1. CASE AutoFocus
  BY <1>1 DEF AutoFocus
<1>2. CASE CancelAutoFocus
  BY <1>2 DEF CancelAutoFocus
<1>3. CASE ReleaseSignal
  BY <1>3 DEF ReleaseSignal
<1>4. CASE ReleaseJoin
  BY <1>4 DEF ReleaseJoin
<1>5. CASE FocusBegin
  BY <1>5 DEF FocusBegin
<1>6. CASE FocusTop
  BY <1>6 DEF FocusTop
<1>7. CASE FocusWoken
  BY <1>7 DEF FocusWoken
<1>8. CASE FocusDrive
  BY <1>8 DEF FocusDrive
<1>9. CASE FocusResult
  BY <1>9 DEF FocusResult
<1>10. CASE FocusNotify
  BY <1>10 DEF FocusNotify, AfterNotify
<1>11. CASE UNCHANGED focusVars
  BY <1>11 DEF focusVars
<1>12. CASE ReleaseClose
  BY <1>12 DEF ReleaseClose, IfFaulty
<1>13. CASE FocusReopen
  BY <1>13 DEF FocusReopen, IfFaulty
<1>14. QED
  BY <1>1, <1>2, <1>3, <1>4, <1>5, <1>6, <1>7, <1>8, <1>9, <1>10, <1>11,
  <1>12, <1>13
  DEF FocusNext, FocusClientSteps, FocusSteps

\* The accounts: the thread becomes busy when a request wakes it, and stops
\* being so with the callback, the failure of the driver, or a release.
LEMMA FocusCountStep ==
  FocusStateOK /\ FocusCountOK /\ [FocusNext]_focusVars => FocusCountOK'
<1> SUFFICES ASSUME FocusStateOK, FocusCountOK, [FocusNext]_focusVars
             PROVE  FocusCountOK'
  OBVIOUS
<1> USE DEF FocusStateOK, FocusCountOK, OncePerRequest, Busy,
  SignalFocus, focusClientOnly
<1>1. CASE AutoFocus
  BY <1>1 DEF AutoFocus
<1>2. CASE CancelAutoFocus
  BY <1>2 DEF CancelAutoFocus
<1>3. CASE ReleaseSignal
  BY <1>3 DEF ReleaseSignal
<1>4. CASE ReleaseJoin
  BY <1>4 DEF ReleaseJoin
<1>5. CASE FocusBegin
  BY <1>5 DEF FocusBegin
<1>6. CASE FocusTop
  BY <1>6 DEF FocusTop
<1>7. CASE FocusWoken
  BY <1>7 DEF FocusWoken
<1>8. CASE FocusDrive
  BY <1>8 DEF FocusDrive
<1>9. CASE FocusResult
  BY <1>9 DEF FocusResult
<1>10. CASE FocusNotify
  BY <1>10 DEF FocusNotify, AfterNotify
<1>11. CASE UNCHANGED focusVars
  BY <1>11 DEF focusVars
<1>12. CASE ReleaseClose
  BY <1>12 DEF ReleaseClose, IfFaulty
<1>13. CASE FocusReopen
  BY <1>13 DEF FocusReopen
<1>14. QED
  BY <1>1, <1>2, <1>3, <1>4, <1>5, <1>6, <1>7, <1>8, <1>9, <1>10, <1>11,
  <1>12, <1>13
  DEF FocusNext, FocusClientSteps, FocusSteps

\* Both parts hold in every state the component can reach.
THEOREM FocusInvariant == FocusSpec => []FocusInv
<1>1. FocusInit => FocusInv
  BY FocusInitially
<1>2. FocusInv /\ [FocusNext]_focusVars => FocusInv'
  <2> SUFFICES ASSUME FocusInv, [FocusNext]_focusVars PROVE FocusInv'
    OBVIOUS
  <2>1. FocusStateOK /\ FocusCountOK
    BY FocusParts
  <2>2. FocusStateOK' /\ FocusCountOK'
    BY <2>1, FocusStateStep, FocusCountStep
  <2>3. QED
    BY <2>2 DEF FocusInv, FocusTypeOK, FocusStateOK, FocusCountOK
<1>3. QED
  BY <1>1, <1>2, PTL DEF FocusSpec

\* Type correctness of the auto focus component.
THEOREM FocusTypeCorrect == FocusSpec => []FocusTypeOK
<1>1. FocusInv => FocusTypeOK
  BY DEF FocusInv
<1>2. QED
  BY <1>1, FocusInvariant, PTL

\* However requests, rounds, cancels and a release overlap, autoFocusThread()
\* calls the client back at most once for each autoFocus().
THEOREM OncePerRequestHolds == FocusSpec => []OncePerRequest
<1>1. FocusInv => OncePerRequest
  BY DEF FocusInv
<1>2. QED
  BY <1>1, FocusInvariant, PTL

-----------------------------------------------------------------------------
(* Both threads: the proofs about CameraThreads.                             *)

\* A step of the two threads and their client is a step of each component, or
\* nothing that the component sees.
LEMMA ThreadsStep ==
  [ThreadsNext]_allVars => [Next]_vars /\ [FocusNext]_focusVars
<1> SUFFICES ASSUME [ThreadsNext]_allVars
             PROVE  [Next]_vars /\ [FocusNext]_focusVars
  OBVIOUS
<1>1. CASE CaptureCalls
  BY <1>1 DEF CaptureCalls, Next, ClientCalls
<1>2. CASE FocusCalls
  BY <1>2 DEF FocusCalls, FocusNext
<1>3. CASE ReopenAll
  BY <1>3 DEF ReopenAll, Next, ClientCalls, FocusNext
<1>4. CASE CallProgress
  <2>1. CASE CallSteps /\ UNCHANGED focusVars
    BY <2>1 DEF Next, ClientSteps
  <2>2. CASE ReleaseNextThread
    BY <2>2 DEF ReleaseNextThread, Next, ClientCalls, FocusNext
  <2>3. CASE ReleaseAll
    BY <2>3 DEF ReleaseAll, Next, ClientSteps, FocusNext
  <2>4. QED
    BY <1>4, <2>1, <2>2, <2>3 DEF CallProgress
<1>5. CASE CaptureRuns
  BY <1>5 DEF CaptureRuns, Next
<1>6. CASE FocusRuns
  BY <1>6 DEF FocusRuns, FocusNext
<1>7. CASE UNCHANGED allVars
  BY <1>7 DEF allVars
<1>8. QED
  BY <1>1, <1>2, <1>3, <1>4, <1>5, <1>6, <1>7 DEF ThreadsNext

\* The composition implements both components: neither thread can tell, by its
\* own state, that the other one is there, although release() ends both, so what
\* is proved of CameraCapture and of CameraFocus holds of the two together.
THEOREM ThreadsImplementBoth == ThreadsSpec => Spec /\ FocusSpec
<1>1. ThreadsInit => Init /\ FocusInit
  BY DEF ThreadsInit
<1>2. QED
  BY <1>1, ThreadsStep, PTL DEF ThreadsSpec, Spec, FocusSpec
=============================================================================
