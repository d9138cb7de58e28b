--------------------------- MODULE CameraThreads ---------------------------
(***************************************************************************)
(* The auto focus thread (CameraFocus) and the picture thread              *)
(* (CameraCapture) of one HAL object, behind the one client whose calls    *)
(* CameraService serialises.  The threads share no state but the camera:   *)
(* they meet in release() (libcamera/SecCameraHWInterface.cpp:2106-2162),  *)
(* which ends first the one and then the other, frees what they use and    *)
(* closes the camera.  A picture may be taken while the lens is moving,    *)
(* and autoFocus() may be called while a picture is being taken.           *)
(***************************************************************************)
EXTENDS CameraCapture, CameraFocus

allVars == <<vars, focusVars>>

\* The client is outside the HAL.
NoCall == cpc = "idle" /\ focusClient = "idle"

ThreadsInit ==
  /\ Init
  /\ FocusInit
  /\ focusOpen = cam.fd

\* A call on the one thread leaves the other thread's state alone.
CaptureCalls == NoCall /\ OtherCalls /\ UNCHANGED focusVars
FocusCalls == NoCall /\ FocusClientSteps /\ UNCHANGED vars

(* release() gets past its join of the auto focus thread, and asks the       *)
(* picture thread to exit.                                                   *)
ReleaseNextThread == ReleaseJoin /\ CallRelease

ReleaseAll ==
  /\ ReleaseFree
  /\ ReleaseClose
  /\ focusOpen' = cam'.fd

ReopenAll ==
  /\ Reopen
  /\ FocusReopen
  /\ focusOpen' = cam'.fd

CallProgress ==
  \/ CallSteps /\ UNCHANGED focusVars
  \/ ReleaseNextThread
  \/ ReleaseAll

CaptureRuns == PictureSteps /\ UNCHANGED focusVars
FocusRuns == FocusSteps /\ UNCHANGED vars

ThreadsNext ==
  \/ CaptureCalls \/ FocusCalls \/ ReopenAll
  \/ CallProgress
  \/ CaptureRuns \/ FocusRuns

ThreadsSpec == ThreadsInit /\ [][ThreadsNext]_allVars

(* Both threads get to run, and the client finishes the calls it makes; it   *)
(* need not make any.                                                        *)
FairThreadsSpec ==
  /\ ThreadsSpec
  /\ WF_allVars(CallProgress)
  /\ WF_allVars(CaptureRuns)
  /\ WF_allVars(FocusRuns)
=============================================================================
