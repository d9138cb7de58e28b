--------------------------- MODULE CameraPreview ---------------------------
(***************************************************************************)
(* Preview in the camera HAL (libcamera/SecCameraHWInterface.cpp): the     *)
(* client, whose calls CameraService serialises, and the preview thread,   *)
(* which run concurrently and meet at mPreviewLock and at two condition    *)
(* variables.  A step is what happens between two points where the other   *)
(* thread can interfere: what is done while holding mPreviewLock is cut    *)
(* only where the preview thread, which works on frames without the lock,  *)
(* or release(), which takes no lock, can see the difference.              *)
(*                                                                         *)
(* A Condition wakes the one thread that waits on it; a signal nobody      *)
(* waits for is lost.  A woken thread continues when it gets the mutex.    *)
(***************************************************************************)
EXTENDS SecCamera

CONSTANTS
  Windows,            \* the preview windows a client may set
  NoWindow,           \* the NULL preview_stream_ops
  INITIAL_SKIP_FRAME, \* frames thrown away after each start (3 in the code)
  EFFECT_SKIP_FRAME,  \* frames thrown away after a new effect (1 in the code)
  MaxOpens,           \* bound: how often the device is opened
  HeapFaults,         \* TRUE: mGetMemoryCb may return NULL
  WindowFaults,       \* TRUE: a call on the preview window may fail
  LiveWindowChange,   \* TRUE: the client may set a window during preview
  SpuriousWakeups     \* TRUE: a wait may return without a signal

ASSUME PreviewAssumption ==
  /\ NoWindow \notin Windows
  /\ INITIAL_SKIP_FRAME \in Nat
  /\ EFFECT_SKIP_FRAME \in Nat
  /\ MaxOpens \in Nat \ {0}
  /\ HeapFaults \in BOOLEAN
  /\ WindowFaults \in BOOLEAN
  /\ LiveWindowChange \in BOOLEAN
  /\ SpuriousWakeups \in BOOLEAN

VARIABLES
  mPreviewRunning,       \* the client wants preview
  mPreviewStartDeferred, \* ... but no window has been set yet
  mExitPreviewThread,    \* release() wants the thread gone
  mPreviewWindow,        \* where frames are shown
  mPreviewHeap,          \* the memory frames are read from: "live", or NULL:
                         \* "none", or "refused" by mGetMemoryCb
  mSkipFrame,            \* frames still to be thrown away
  mPreviewLock,          \* who holds the mutex: "client", "thread" or "free"
  cam,                   \* the SecCamera object
  call,                  \* the HAL call the client is in
  cpc,                   \* where in that call the client is
  tpc,                   \* where in its loop the preview thread is
  origin,                \* the window the thread's dequeued buffer belongs to
  parked,                \* history: this thread has waited at least once
  sinceStart,            \* history: frames dequeued since the sensor was started
  restarted,             \* history: getPreview() has restarted the sensor itself
                         \* since startPreviewInternal() last did
  opens                  \* bound: how often the device was opened

vars == <<mPreviewRunning, mPreviewStartDeferred, mExitPreviewThread,
          mPreviewWindow, mPreviewHeap, mSkipFrame, mPreviewLock, cam,
          call, cpc, tpc, origin, parked, sinceStart, restarted, opens>>

flagVars == <<mPreviewRunning, mPreviewStartDeferred, mExitPreviewThread>>
clientVars == <<call, cpc>>
threadVars == <<tpc, origin, parked>>
frameVars == <<mPreviewHeap, mSkipFrame, sinceStart, restarted>>

Calls == {"none", "startPreview", "stopPreview", "setPreviewWindow", "release"}

ClientPCs == {"idle",       \* outside the HAL
              "lock",       \* at mPreviewLock.lock()
              "stopWait",   \* waiting on mPreviewStoppedCondition
              "stopWoken",  \* signalled, getting the mutex back
              "configure",  \* setPreviewWindow(): setting the window up
              "driver",     \* startPreviewInternal(): starting the driver
              "alloc",      \* startPreviewInternal(): getting a new heap
              "signalExit", "join", "freeAll",  \* release()
              "released"}   \* release() has returned

ThreadPCs == {"new",        \* created, threadLoop() not entered yet
              "top",        \* about to lock mPreviewLock
              "check",      \* testing mPreviewRunning, with the lock
              "park",       \* about to wait on mPreviewCondition, with the lock
              "waiting",    \* waiting on mPreviewCondition
              "woken",      \* signalled, getting the mutex back
              "exitCheck",  \* testing mExitPreviewThread, without the lock
              "getPreview", "reset", "dequeueFrame",   \* SecCamera::getPreview
              "skip", "window", "dequeue", "copy", "enqueue", "callback",
              "exited",     \* threadLoop() has returned
              "crashed"}    \* dereferenced NULL

\* The thread is inside previewThread(), working on a frame without the lock.
FramePCs == {"getPreview", "reset", "dequeueFrame", "skip", "window",
             "dequeue", "copy", "enqueue", "callback"}

\* A definition whose name ends in _Bug is not part of the model: it is a mistake
\* in the definition that follows it, which one of the properties must notice.

\* signal() on each condition: it wakes the one possible waiter.
SignalPreview_Bug == UNCHANGED tpc
SignalPreview == tpc' = IF tpc = "waiting" THEN "woken" ELSE tpc

SignalStopped_Bug == UNCHANGED cpc
SignalStopped == cpc' = IF cpc = "stopWait" THEN "stopWoken" ELSE cpc

\* The client at mPreviewLock.lock(), and able to go on.
ClientLocks == cpc = "lock" /\ mPreviewLock = "free"

\* The call returns to the client with the mutex released.
Return ==
  /\ mPreviewLock' = "free"
  /\ call' = "none"
  /\ cpc' = "idle"

\* The device has just been opened: the constructor has created the preview
\* thread, which is running, and has tried to initialise the camera.
Init ==
  /\ mPreviewRunning = FALSE
  /\ mPreviewStartDeferred = FALSE
  /\ mExitPreviewThread = FALSE
  /\ mPreviewWindow = NoWindow
  /\ mPreviewHeap = "none"
  /\ mSkipFrame = 0
  /\ mPreviewLock = "free"
  /\ call = "none"
  /\ cpc = "idle"
  /\ tpc = "new"
  /\ origin = NoWindow
  /\ parked = FALSE
  /\ sinceStart = 0
  /\ restarted = FALSE
  /\ \E r \in InitCamera(NewCamera) : cam = r.cam
  /\ opens = 1

-----------------------------------------------------------------------------
(* The client.                                                               *)

(* startPreview(), the lock taken: refused while preview runs; without a     *)
(* window the start is deferred.  (A capture in progress, which makes the    *)
(* call fail before it takes the lock, is module CameraCapture's subject.)   *)
CallStartPreview ==
  /\ cpc = "idle"
  /\ call' = "startPreview"
  /\ cpc' = "lock"
  /\ UNCHANGED <<flagVars, mPreviewWindow, mPreviewLock, cam,
                 frameVars, threadVars, opens>>

StartPreviewLocked ==
  /\ ClientLocks /\ call = "startPreview"
  /\ \/ /\ mPreviewRunning
        /\ Return
        /\ UNCHANGED flagVars
     \/ /\ ~mPreviewRunning
        /\ mPreviewRunning' = TRUE
        /\ mPreviewStartDeferred' = (mPreviewWindow = NoWindow)
        /\ IF mPreviewWindow = NoWindow
             THEN Return
             ELSE /\ mPreviewLock' = "client"
                  /\ cpc' = "driver"
                  /\ UNCHANGED call
        /\ UNCHANGED mExitPreviewThread
  /\ UNCHANGED <<mPreviewWindow, cam, frameVars, threadVars, opens>>

\* setSkipFrame(): more frames to skip than are left, or no change.
SetSkipFrame_Bug(frames) == mSkipFrame' = frames
SetSkipFrame(frames) ==
  mSkipFrame' = IF frames < mSkipFrame THEN mSkipFrame ELSE frames

(* startPreviewInternal(), first half: start the driver, set the number of   *)
(* frames to skip and release the old heap.  On failure the caller unlocks   *)
(* and returns: startPreview() leaves mPreviewRunning set.                   *)
StartDriver ==
  /\ cpc = "driver"
  /\ \E r \in StartPreview(cam) :
       /\ cam' = r.cam
       /\ IF r.ret < 0
            THEN Return /\ UNCHANGED frameVars
            ELSE /\ SetSkipFrame(INITIAL_SKIP_FRAME)
                 /\ mPreviewHeap' = "none"
                 /\ sinceStart' = 0
                 /\ restarted' = FALSE
                 /\ cpc' = "alloc"
                 /\ UNCHANGED <<call, mPreviewLock>>
  /\ UNCHANGED <<flagVars, mPreviewWindow, threadVars, opens>>

(* Second half: the new heap, which nothing tests: without one the start     *)
(* succeeds all the same.  Then the caller, startPreview() or                *)
(* setPreviewWindow(), wakes the preview thread and unlocks.                 *)
StartAlloc ==
  /\ cpc = "alloc"
  /\ mPreviewHeap' \in {"live"} \cup (IF HeapFaults THEN {"refused"} ELSE {})
  /\ mPreviewStartDeferred' = FALSE
  /\ SignalPreview
  /\ Return
  /\ UNCHANGED <<mPreviewRunning, mExitPreviewThread, mPreviewWindow, cam,
                 mSkipFrame, sinceStart, restarted, origin, parked, opens>>

\* A stop that does not wait for the thread.
StopAndWait_Bug ==
  /\ mPreviewRunning /\ ~mPreviewStartDeferred
  /\ mPreviewRunning' = FALSE
  /\ SignalPreview
  /\ Return
  /\ UNCHANGED <<mPreviewStartDeferred, mExitPreviewThread>>

(* stopPreviewInternal(), for preview that runs and was not deferred: tell   *)
(* the thread to stop and wait until it has, giving up the mutex.            *)
StopAndWait ==
  /\ mPreviewRunning /\ ~mPreviewStartDeferred
  /\ mPreviewRunning' = FALSE
  /\ SignalPreview
  /\ mPreviewLock' = "free"
  /\ cpc' = "stopWait"
  /\ UNCHANGED <<call, mPreviewStartDeferred, mExitPreviewThread>>

(* setParameters() with an effect other than the last one: some frames are   *)
(* to be thrown away, whether preview runs or not.  (Module CameraParameters *)
(* has the rest of the call.)                                                *)
SetEffect ==
  /\ cpc = "idle"
  /\ SetSkipFrame(EFFECT_SKIP_FRAME)
  /\ UNCHANGED <<flagVars, mPreviewWindow, mPreviewHeap, mPreviewLock, cam,
                 clientVars, threadVars, sinceStart, restarted, opens>>

CallStopPreview ==
  /\ cpc = "idle"
  /\ call' = "stopPreview"
  /\ cpc' = "lock"
  /\ UNCHANGED <<flagVars, mPreviewWindow, mPreviewLock, cam,
                 frameVars, threadVars, opens>>

StopPreviewLocked ==
  /\ ClientLocks /\ call = "stopPreview"
  /\ \/ StopAndWait
     \/ /\ ~mPreviewRunning \/ mPreviewStartDeferred
        /\ mPreviewRunning' = FALSE
        /\ Return
        /\ UNCHANGED <<mPreviewStartDeferred, mExitPreviewThread, tpc>>
  /\ UNCHANGED <<mPreviewWindow, cam, frameVars, origin, parked, opens>>

(* The wait ends: stopPreview() returns, setPreviewWindow() goes on.  The    *)
(* code does not test again why it woke up.                                  *)
StopWoken ==
  /\ cpc = "stopWoken"
  /\ mPreviewLock = "free"
  /\ IF call = "stopPreview"
       THEN Return
       ELSE /\ mPreviewLock' = "client"
            /\ cpc' = "configure"
            /\ UNCHANGED call
  /\ UNCHANGED <<flagVars, mPreviewWindow, cam, frameVars, threadVars, opens>>

(* setPreviewWindow(): the new window is stored before the lock is taken;    *)
(* NULL changes nothing else.                                                *)
CallSetPreviewWindow(w) ==
  /\ cpc = "idle"
  /\ LiveWindowChange \/ ~mPreviewRunning \/ mPreviewStartDeferred
  /\ mPreviewWindow' = w
  /\ IF w = NoWindow
       THEN UNCHANGED clientVars
       ELSE call' = "setPreviewWindow" /\ cpc' = "lock"
  /\ UNCHANGED <<flagVars, mPreviewLock, cam, frameVars, threadVars, opens>>

SetPreviewWindowLocked ==
  /\ ClientLocks /\ call = "setPreviewWindow"
  /\ \/ StopAndWait
     \/ /\ ~mPreviewRunning \/ mPreviewStartDeferred
        /\ mPreviewLock' = "client"
        /\ cpc' = "configure"
        /\ UNCHANGED <<call, flagVars, tpc>>
  /\ UNCHANGED <<mPreviewWindow, cam, frameVars, origin, parked, opens>>

(* The calls on the window.  A failing one returns at once, WITHOUT          *)
(* unlocking mPreviewLock.  Otherwise a deferred start is made good.         *)
ConfigureWindow ==
  /\ cpc = "configure"
  /\ \/ /\ WindowFaults
        /\ call' = "none" /\ cpc' = "idle"
        /\ UNCHANGED mPreviewLock
     \/ IF mPreviewRunning /\ mPreviewStartDeferred
          THEN cpc' = "driver" /\ UNCHANGED <<call, mPreviewLock>>
          ELSE Return
  /\ UNCHANGED <<flagVars, mPreviewWindow, cam, frameVars, threadVars, opens>>

(* release(): tell the thread to exit, let it run and wake it up, without    *)
(* the lock; join it; then free the heap and close the camera.               *)
CallRelease ==
  /\ cpc = "idle"
  /\ call' = "release"
  /\ mExitPreviewThread' = TRUE
  /\ cpc' = "signalExit"
  /\ UNCHANGED <<mPreviewRunning, mPreviewStartDeferred, mPreviewWindow,
                 mPreviewLock, cam, frameVars, threadVars, opens>>

ReleaseSignal ==
  /\ cpc = "signalExit"
  /\ mPreviewRunning' = TRUE
  /\ SignalPreview
  /\ cpc' = "join"
  /\ UNCHANGED <<mPreviewStartDeferred, mExitPreviewThread, mPreviewWindow,
                 mPreviewLock, cam, call, frameVars, origin, parked, opens>>

\* requestExit() in place of requestExitAndWait().
ReleaseJoin_Bug ==
  /\ cpc = "join"
  /\ cpc' = "freeAll"
  /\ UNCHANGED <<flagVars, mPreviewWindow, mPreviewLock, cam, call,
                 frameVars, threadVars, opens>>

ReleaseJoin ==
  /\ cpc = "join"
  /\ tpc = "exited"
  /\ cpc' = "freeAll"
  /\ UNCHANGED <<flagVars, mPreviewWindow, mPreviewLock, cam, call,
                 frameVars, threadVars, opens>>

ReleaseFree ==
  /\ cpc = "freeAll"
  /\ mPreviewHeap' = "none"
  /\ cam' \in DeinitCamera(cam)
  /\ cpc' = "released"
  /\ UNCHANGED <<flagVars, mPreviewWindow, mPreviewLock, call, mSkipFrame,
                 sinceStart, restarted, threadVars, opens>>

(* close() deletes the HAL object and open() constructs a new one around     *)
(* the same SecCamera object.                                                *)
Reopen ==
  /\ cpc = "released"
  /\ opens < MaxOpens
  /\ opens' = opens + 1
  /\ mPreviewRunning' = FALSE
  /\ mPreviewStartDeferred' = FALSE
  /\ mExitPreviewThread' = FALSE
  /\ mPreviewWindow' = NoWindow
  /\ mPreviewHeap' = "none"
  /\ mSkipFrame' = 0
  /\ mPreviewLock' = "free"
  /\ call' = "none"
  /\ cpc' = "idle"
  /\ tpc' = "new"
  /\ origin' = NoWindow
  /\ parked' = FALSE
  /\ sinceStart' = 0
  /\ restarted' = FALSE
  /\ \E r \in InitCamera(cam) : cam' = r.cam

-----------------------------------------------------------------------------
(* The preview thread: previewThreadWrapper() and previewThread().           *)

\* Everything the thread leaves to the client while it works on a frame.
threadOnly == <<flagVars, mPreviewWindow, mPreviewLock, clientVars, parked,
                opens>>

\* The thread's mSecCamera->stopPreview(), whose result it does not look at.
StopCamera_Bug == UNCHANGED cam
StopCamera == \E r \in StopPreview(cam) : cam' = r.cam

(* Thread::_threadLoop(): a thread asked to exit (requestExit(), just before *)
(* mExitPreviewThread is set) before it got going never enters threadLoop(). *)
ThreadBegin ==
  /\ tpc = "new"
  /\ tpc' = IF mExitPreviewThread THEN "exited" ELSE "top"
  /\ UNCHANGED <<threadOnly, cam, frameVars, origin>>

(* mPreviewLock.lock(), at the top of the loop or on the way out of wait().  *)
ThreadLock ==
  /\ tpc \in {"top", "woken"}
  /\ mPreviewLock = "free"
  /\ mPreviewLock' = "thread"
  /\ tpc' = "check"
  /\ UNCHANGED <<flagVars, mPreviewWindow, cam, clientVars, frameVars,
                 origin, parked, opens>>

(* while (!mPreviewRunning): stop the driver and say so, or leave the loop   *)
(* with the mutex released.                                                  *)
ThreadCheck ==
  /\ tpc = "check"
  /\ IF mPreviewRunning
       THEN /\ tpc' = "exitCheck"
            /\ mPreviewLock' = "free"
            /\ UNCHANGED <<cam, clientVars>>
       ELSE /\ tpc' = "park"
            /\ StopCamera
            /\ SignalStopped
            /\ UNCHANGED <<call, mPreviewLock>>
  /\ UNCHANGED <<flagVars, mPreviewWindow, frameVars, origin, parked, opens>>

ThreadWait ==
  /\ tpc = "park"
  /\ mPreviewLock' = "free"
  /\ tpc' = "waiting"
  /\ parked' = TRUE
  /\ UNCHANGED <<flagVars, mPreviewWindow, cam, clientVars, frameVars,
                 origin, opens>>

(* A wait that returns without a signal. *)
SpuriousWake ==
  /\ SpuriousWakeups
  /\ tpc # "crashed"
  /\ \/ /\ tpc = "waiting"
        /\ tpc' = "woken"
        /\ UNCHANGED cpc
     \/ /\ cpc = "stopWait"
        /\ cpc' = "stopWoken"
        /\ UNCHANGED tpc
  /\ UNCHANGED <<flagVars, mPreviewWindow, mPreviewLock, cam, call, frameVars,
                 origin, parked, opens>>

ThreadExitCheck ==
  /\ tpc = "exitCheck"
  /\ IF mExitPreviewThread
       THEN StopCamera /\ tpc' = "exited"
       ELSE tpc' = "getPreview" /\ UNCHANGED cam
  /\ UNCHANGED <<threadOnly, frameVars, origin>>

(* getPreview(): preview not started, or no data for a second, leads to the  *)
(* reset; nothing protects the flag between the test and the reset.          *)
GetPreview ==
  /\ tpc = "getPreview"
  /\ \/ tpc' = "reset"
     \/ cam.started /\ tpc' = "dequeueFrame"
  /\ UNCHANGED <<threadOnly, cam, frameVars, origin>>

(* The reset, which may restart the sensor.  It sets no number of frames to  *)
(* skip; when the restart fails, buffer 0 is used without a new frame in it. *)
GetPreviewReset ==
  /\ tpc = "reset"
  /\ \E r \in ResetPreview(cam) :
       /\ cam' = r.cam
       /\ tpc' = CASE r.ret < 0 -> "top"
                   [] r.ret = 0 -> "skip"
                   [] OTHER     -> "dequeueFrame"
       /\ sinceStart' = IF r.ret < 0 THEN sinceStart ELSE 0
       /\ restarted' = (restarted \/ ~(r.ret < 0))
  /\ UNCHANGED <<threadOnly, mPreviewHeap, mSkipFrame, origin>>

GetPreviewDequeue ==
  /\ tpc = "dequeueFrame"
  /\ \E r \in DequeuePreview(cam) :
       IF r.ret < 0
         THEN tpc' = "top" /\ UNCHANGED sinceStart
         ELSE /\ tpc' = "skip"
              /\ sinceStart' = IF sinceStart > INITIAL_SKIP_FRAME
                                 THEN sinceStart ELSE sinceStart + 1
  /\ UNCHANGED <<threadOnly, cam, mPreviewHeap, mSkipFrame, restarted, origin>>

SkipThisFrame == mSkipFrame > 0

(* Throw the frame away, or go on with it (a failing address query, like a   *)
(* frame thrown away, ends this round).                                      *)
SkipFrame ==
  /\ tpc = "skip"
  /\ IF SkipThisFrame
       THEN mSkipFrame' = mSkipFrame - 1 /\ tpc' = "top"
       ELSE /\ UNCHANGED mSkipFrame
            /\ tpc' \in {"window"} \cup IfFaulty({"top"})
  /\ UNCHANGED <<threadOnly, cam, mPreviewHeap, sinceStart, restarted, origin>>

(* if (mPreviewWindow && mGrallocHal): tested here, read again below.        *)
TestWindow ==
  /\ tpc = "window"
  /\ tpc' = IF mPreviewWindow = NoWindow THEN "callback" ELSE "dequeue"
  /\ UNCHANGED <<threadOnly, cam, frameVars, origin>>

(* mPreviewWindow->dequeue_buffer() and the gralloc lock. *)
DequeueBuffer ==
  /\ tpc = "dequeue"
  /\ \/ mPreviewWindow = NoWindow /\ tpc' = "crashed" /\ UNCHANGED origin
     \/ /\ mPreviewWindow # NoWindow
        /\ \/ tpc' \in {"copy", "enqueue"} /\ origin' = mPreviewWindow
           \/ tpc' = "callback" /\ UNCHANGED origin
  /\ UNCHANGED <<threadOnly, cam, frameVars>>

(* Copy the frame out of mPreviewHeap. *)
CopyFrame ==
  /\ tpc = "copy"
  /\ tpc' = IF mPreviewHeap = "live" THEN "enqueue" ELSE "crashed"
  /\ UNCHANGED <<threadOnly, cam, frameVars, origin>>

(* mPreviewWindow->enqueue_buffer(). *)
EnqueueBuffer ==
  /\ tpc = "enqueue"
  /\ tpc' = IF mPreviewWindow = NoWindow THEN "crashed" ELSE "callback"
  /\ origin' = NoWindow
  /\ UNCHANGED <<threadOnly, cam, frameVars>>

(* The preview callback, if the client has enabled the message, reads and    *)
(* hands out mPreviewHeap.  The recording half of previewThread() that       *)
(* follows is module CameraRecording's subject.                              *)
FrameCallback ==
  /\ tpc = "callback"
  /\ \/ tpc' = "top"
     \/ mPreviewHeap # "live" /\ tpc' = "crashed"
  /\ UNCHANGED <<threadOnly, cam, frameVars, origin>>

-----------------------------------------------------------------------------
\* A thread that dereferences NULL takes the process, and the client's calls,
\* with it.
Alive == tpc # "crashed"

\* What the client decides to do, and the steps of a call under way.
ClientCalls ==
  /\ Alive
  /\ \/ CallStartPreview
     \/ CallStopPreview
     \/ \E w \in Windows \cup {NoWindow} : CallSetPreviewWindow(w)
     \/ SetEffect
     \/ CallRelease
     \/ Reopen

ClientSteps ==
  /\ Alive
  /\ \/ StartPreviewLocked \/ StartDriver \/ StartAlloc
     \/ StopPreviewLocked \/ StopWoken
     \/ SetPreviewWindowLocked \/ ConfigureWindow
     \/ ReleaseSignal \/ ReleaseJoin \/ ReleaseFree

ThreadSteps ==
  \/ ThreadBegin \/ ThreadLock \/ ThreadCheck \/ ThreadWait
  \/ ThreadExitCheck \/ GetPreview \/ GetPreviewReset \/ GetPreviewDequeue
  \/ SkipFrame \/ TestWindow \/ DequeueBuffer \/ CopyFrame
  \/ EnqueueBuffer \/ FrameCallback

Next == ClientCalls \/ ClientSteps \/ ThreadSteps \/ SpuriousWake

Spec == Init /\ [][Next]_vars

(* A thread that can run does; the client finishes the calls it makes but    *)
(* need not make any.                                                        *)
FairSpec == Spec /\ WF_vars(ClientSteps) /\ WF_vars(ThreadSteps)

(* The same with a mutex that nobody waits for in vain.                      *)
StrongSpec == Spec /\ SF_vars(ClientSteps) /\ WF_vars(ThreadSteps)

-----------------------------------------------------------------------------
(* What the client sees of it: module PreviewPromise.                        *)

\* Preview as the calls that have returned, and the one under way, tell it.
preview ==
  CASE cpc \in {"driver", "alloc"}       -> "starting"
    [] cpc = "stopWait"                  -> "stopping"
    [] cpc \in {"signalExit", "join"}    -> "closing"
    [] cpc \in {"freeAll", "released"}   -> "gone"
    [] OTHER -> IF mPreviewRunning
                  THEN IF mPreviewStartDeferred THEN "deferred" ELSE "on"
                  ELSE "off"

\* The thread has seen that preview runs and will take a frame, or is at it.
busy ==
  parked /\ \/ tpc \in FramePCs \cup {"crashed"}
            \/ tpc = "exitCheck" /\ ~mExitPreviewThread

Promise == INSTANCE PreviewPromise
  WITH preview <- preview, busy <- busy, window <- mPreviewWindow

-----------------------------------------------------------------------------
(* Properties.  Where one says "parked", it is about a preview thread that   *)
(* has reached its first wait: until then the handshake of the two threads   *)
(* does not cover it, and a thread that is late to it works on frames of a   *)
(* preview that is only deferred, although the comment on its creation       *)
(* (SecCameraHWInterface.cpp:123-125) has it "initially in stopped state".   *)

\* Every variable has a value the code can give it.
TypeOK ==
  /\ mPreviewRunning \in BOOLEAN
  /\ mPreviewStartDeferred \in BOOLEAN
  /\ mExitPreviewThread \in BOOLEAN
  /\ mPreviewWindow \in Windows \cup {NoWindow}
  /\ mPreviewHeap \in {"none", "refused", "live"}
  /\ mSkipFrame \in Nat
  /\ mPreviewLock \in {"client", "thread", "free"}
  /\ cam \in Camera
  /\ call \in Calls
  /\ cpc \in ClientPCs
  /\ tpc \in ThreadPCs
  /\ origin \in Windows \cup {NoWindow}
  /\ parked \in BOOLEAN
  /\ sinceStart \in 0..(INITIAL_SKIP_FRAME + 1)
  /\ restarted \in BOOLEAN
  /\ opens \in 1..MaxOpens

\* Preview has been started and not only promised.
Going == mPreviewRunning /\ ~mPreviewStartDeferred

\* The thread touches the camera, the heap and the window only while preview
\* is going or the client still waits for it to stop.  So once stopPreview(),
\* or the stop inside setPreviewWindow(), has returned, and as long as a start
\* is deferred, no frame is worked on and no preview callback made.
FramesOnlyWhenTold == parked /\ tpc \in FramePCs => Going \/ cpc = "stopWait"

\* SecCamera has no lock of its own: startPreview() in the client and
\* getPreview() in the thread must never overlap.
DriverExclusive == parked /\ cpc \in {"driver", "alloc"} => tpc \notin FramePCs

\* Neither a start, nor a stop, nor release() takes the heap from under a frame
\* that is copied from it or handed out with it, although the thread reads
\* mPreviewHeap without a lock: if there is none, then because mGetMemoryCb
\* refused it.  That is not tested (SecCameraHWInterface.cpp:728, unlike 788 and
\* 1194): preview starts, and the thread dereferences NULL at 563.
HeapSafe ==
  parked /\ tpc \in {"copy", "callback"} => mPreviewHeap \in {"live", "refused"}

\* previewThread() tests mPreviewWindow once and reads it three more times.
\* If the client sets windows only while preview is stopped or deferred, the
\* window is there each time and a buffer goes back where it came from.
WindowSafe ==
  parked => /\ tpc = "dequeue" => mPreviewWindow # NoWindow
            /\ tpc \in {"copy", "enqueue"} => origin = mPreviewWindow

\* The first INITIAL_SKIP_FRAME frames after startPreviewInternal() has started
\* the sensor, which has not settled for them, reach neither the window nor the
\* client, whatever effects are set meanwhile and however many of the dequeues
\* fail.  It says nothing of frames after getPreview() has restarted the sensor
\* itself (SecCamera.cpp:998): those ARE shown, as nothing sets the count again.
SkipHonoured ==
  /\ parked /\ ~restarted
  /\ tpc \in {"window", "dequeue", "copy", "enqueue", "callback"}
  => sinceStart > INITIAL_SKIP_FRAME

\* The process has died of a heap that was refused.
DiedOfHeap == tpc = "crashed" /\ mPreviewHeap = "refused"

\* A client that waits for preview to stop gets its answer (unless the process
\* dies of a refused heap).
StopReturns ==
  parked /\ cpc = "stopWait" ~> cpc \in {"idle", "configure"} \/ DiedOfHeap

\* A start that succeeds in the driver is not lost on the preview thread: it
\* gets to work, unless the client has changed its mind by then.
StartRuns ==
  parked /\ cpc = "alloc" ~> \/ tpc = "getPreview"
                             \/ ~mPreviewRunning
                             \/ mExitPreviewThread

\* The two threads together do what PreviewPromise says: a stop or a close that
\* returns leaves no frame under way, none begins before the next start, and the
\* driver is started and the window changed only between frames.
KeepsPromise == Promise!Spec

\* mPreviewLock protects what it is meant to: the client is in
\* startPreviewInternal() or setting up a window, or the thread is in its
\* stop-and-wait loop, but never both; and each holds the mutex then.
MutualExclusion ==
  /\ cpc \in {"configure", "driver", "alloc"} => mPreviewLock = "client"
  /\ tpc \in {"check", "park"} => mPreviewLock = "thread"

\* The sensor is not left streaming when preview is off and the thread asleep,
\* whatever windows do and however threads wake up (driver calls not failing).
CameraOffWhenIdle ==
  tpc = "waiting" /\ ~mPreviewRunning => ~cam.started /\ ~cam.streaming

\* "signal it so it wakes up and can exit" (SecCameraHWInterface.cpp:2117-2119):
\* release() gets the preview thread to exit, and returns.
ReleaseReturns == cpc = "signalExit" ~> cpc = "released"
=============================================================================
