---------------------------- MODULE CameraFocus ----------------------------
(***************************************************************************)
(* Auto focus (libcamera/SecCameraHWInterface.cpp): a thread that sleeps   *)
(* on mFocusCondition until autoFocus() signals it, drives the lens, waits *)
(* for the result and calls the client back.  autoFocus() signals without  *)
(* mFocusLock; release() holds it.  What is done in one critical section   *)
(* of mFocusLock is one step.  A signal nobody waits for is lost; a wait   *)
(* does not end without a signal.  Of the camera only m_cam_fd matters.    *)
(* Module CameraThreads puts this thread and the picture thread behind one *)
(* client: the names of what every component has say Focus, so that it can *)
(* extend both modules.                                                    *)
(***************************************************************************)
EXTENDS SecCamera

CONSTANTS
  MaxRequests,  \* bound: how often the client calls autoFocus() per opening
  FocusFaults   \* TRUE: setAutofocus() may fail on an open camera

ASSUME FocusAssumption ==
  /\ MaxRequests \in Nat
  /\ FocusFaults \in BOOLEAN

VARIABLES
  mExitAutoFocusThread, \* release() wants the thread gone
  focusOpen,   \* m_cam_fd > 0
  lens,        \* what the sensor does: "default", "focusing" or "done"
  fpc,         \* where the auto focus thread is
  focusClient, \* where the client is: "idle", in release() before ("join")
               \* and after ("joined") this thread is gone, or "released"
  asked,       \* history: calls of autoFocus()
  answered     \* history: CAMERA_MSG_FOCUS callbacks

focusVars ==
  <<mExitAutoFocusThread, focusOpen, lens, fpc, focusClient, asked, answered>>

FocusPCs == {"new",     \* created, threadLoop() not entered yet
             "top",     \* about to lock mFocusLock
             "waiting", \* waiting on mFocusCondition
             "woken",   \* signalled, getting the mutex back
             "drive",   \* about to call setAutofocus()
             "result",  \* in getAutoFocusResult()
             "notify",  \* about to call the client back
             "exited"}

FocusInit ==
  /\ mExitAutoFocusThread = FALSE
  /\ focusOpen \in {TRUE} \cup IfFaulty({FALSE})
  /\ lens = "default"
  /\ fpc = "new"
  /\ focusClient = "idle"
  /\ asked = 0
  /\ answered = 0

\* mFocusCondition.signal().  (A name ending in _Bug marks a mistake in the
\* definition that follows it, which is not part of the model.)
SignalFocus_Bug == UNCHANGED fpc
SignalFocus == fpc' = IF fpc = "waiting" THEN "woken" ELSE fpc

-----------------------------------------------------------------------------
(* The client.                                                               *)

AutoFocus ==
  /\ focusClient = "idle"
  /\ asked < MaxRequests
  /\ SignalFocus
  /\ asked' = asked + 1
  /\ UNCHANGED <<mExitAutoFocusThread, focusOpen, lens, focusClient, answered>>

(* cancelAutoFocus(): the sensor is told to stop and go back.  (While a       *)
(* preview start is deferred, or when the driver fails, nothing happens.)    *)
CancelAutoFocus ==
  /\ focusClient = "idle"
  /\ focusOpen
  /\ lens' = "default"
  /\ UNCHANGED <<mExitAutoFocusThread, focusOpen, fpc, focusClient, asked, answered>>

(* release(): under the lock, ask the thread to exit and wake it; join it;   *)
(* then join the picture thread, free the heaps and close the camera.        *)
ReleaseSignal ==
  /\ focusClient = "idle"
  /\ mExitAutoFocusThread' = TRUE
  /\ SignalFocus
  /\ focusClient' = "join"
  /\ UNCHANGED <<focusOpen, lens, asked, answered>>

ReleaseJoin ==
  /\ focusClient = "join"
  /\ fpc = "exited"
  /\ focusClient' = "joined"
  /\ UNCHANGED <<mExitAutoFocusThread, focusOpen, lens, fpc, asked, answered>>

(* DeinitCamera() does nothing to a camera whose initialisation has failed.  *)
ReleaseClose ==
  /\ focusClient = "joined"
  /\ focusOpen' \in {FALSE} \cup IfFaulty({focusOpen})
  /\ focusClient' = "released"
  /\ UNCHANGED <<mExitAutoFocusThread, lens, fpc, asked, answered>>

(* close() and open(): a new HAL object, with a new auto focus thread.       *)
FocusReopen ==
  /\ focusClient = "released"
  /\ mExitAutoFocusThread' = FALSE
  /\ focusOpen' \in {TRUE} \cup IfFaulty({FALSE})
  /\ lens' = "default"
  /\ fpc' = "new"
  /\ focusClient' = "idle"
  /\ asked' = 0
  /\ answered' = 0

-----------------------------------------------------------------------------
(* The auto focus thread: autoFocusThread(), called in a loop by threadLoop. *)

\* What the thread leaves alone.
focusClientOnly == <<mExitAutoFocusThread, focusOpen, focusClient, asked>>

(* Thread::_threadLoop(): a thread asked to exit before it got going never   *)
(* enters threadLoop().                                                      *)
FocusBegin ==
  /\ fpc = "new"
  /\ fpc' = IF mExitAutoFocusThread THEN "exited" ELSE "top"
  /\ UNCHANGED <<focusClientOnly, lens, answered>>

(* Lock, look for an exit request, and wait.                                 *)
FocusTop ==
  /\ fpc = "top"
  /\ fpc' = IF mExitAutoFocusThread THEN "exited" ELSE "waiting"
  /\ UNCHANGED <<focusClientOnly, lens, answered>>

FocusWoken ==
  /\ fpc = "woken"
  /\ fpc' = IF mExitAutoFocusThread THEN "exited" ELSE "drive"
  /\ UNCHANGED <<focusClientOnly, lens, answered>>

\* The test of setAutofocus()'s result the wrong way round.
FocusDrive_Bug ==
  /\ fpc = "drive"
  /\ lens' = "focusing"
  /\ fpc' = "top"
  /\ UNCHANGED <<focusClientOnly, answered>>

(* setAutofocus(): a failure ends the round without a callback.              *)
FocusDrive ==
  /\ fpc = "drive"
  /\ \/ /\ focusOpen
        /\ lens' = "focusing"
        /\ fpc' = "result"
     \/ /\ focusOpen => FocusFaults
        /\ fpc' = "top"
        /\ UNCHANGED lens
  /\ UNCHANGED <<focusClientOnly, answered>>

(* getAutoFocusResult(): success, failure or, after a cancel, cancelled.     *)
FocusResult ==
  /\ fpc = "result"
  /\ lens' = IF lens = "focusing" THEN "done" ELSE lens
  /\ fpc' = "notify"
  /\ UNCHANGED <<focusClientOnly, answered>>

(* The callback, once per round: after it the thread waits to be told again.  *)
(* The client has CAMERA_MSG_FOCUS enabled.                                  *)
AfterNotify_Bug == "drive"
AfterNotify == "top"

FocusNotify ==
  /\ fpc = "notify"
  /\ answered' = answered + 1
  /\ fpc' = AfterNotify
  /\ UNCHANGED <<focusClientOnly, lens>>

-----------------------------------------------------------------------------
FocusClientSteps == AutoFocus \/ CancelAutoFocus \/ ReleaseSignal

FocusSteps ==
  \/ FocusBegin \/ FocusTop \/ FocusWoken \/ FocusDrive \/ FocusResult
  \/ FocusNotify

FocusNext ==
  FocusClientSteps \/ ReleaseJoin \/ ReleaseClose \/ FocusReopen \/ FocusSteps

FocusSpec == FocusInit /\ [][FocusNext]_focusVars

-----------------------------------------------------------------------------
\* Every variable has a value the code can give it.
FocusTypeOK ==
  /\ mExitAutoFocusThread \in BOOLEAN
  /\ focusOpen \in BOOLEAN
  /\ lens \in {"default", "focusing", "done"}
  /\ fpc \in FocusPCs
  /\ focusClient \in {"idle", "join", "joined", "released"}
  /\ asked \in 0..MaxRequests
  /\ answered \in 0..MaxRequests

\* The thread is working on a request.
Busy == \/ fpc \in {"drive", "result", "notify"}
        \/ fpc = "woken" /\ ~mExitAutoFocusThread

\* "once when focusing is complete": there are never more callbacks, made or on
\* their way, than requests, however requests, rounds and cancels overlap.
OncePerRequest == answered + (IF Busy THEN 1 ELSE 0) <= asked

\* A request that finds the thread asleep gets its callback, cancelled or not,
\* unless the camera is released first (setAutofocus() not failing).
AcceptedAnswered ==
  fpc = "woken" /\ focusOpen /\ ~mExitAutoFocusThread
    ~> fpc = "notify" \/ mExitAutoFocusThread

\* release(), which signals under the lock, never leaves the thread asleep: it
\* joins this thread, then the picture thread in whatever state that is, and
\* closes the camera.
ReleaseReturns == focusClient = "join" ~> focusClient = "released"
=============================================================================
