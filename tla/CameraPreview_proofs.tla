------------------------ MODULE CameraPreview_proofs ------------------------
(***************************************************************************)
(* Proofs about CameraPreview, for every set of windows, every number of   *)
(* frames to skip and every choice of environment: type correctness, the   *)
(* mutual exclusion that mPreviewLock gives; without spurious wakeups, the *)
(* handshake of client and preview thread with what follows from it; and,  *)
(* without driver failures, that a camera nobody previews is off.          *)
(***************************************************************************)
EXTENDS CameraPreview, SecCamera_proofs

USE PreviewAssumption

-----------------------------------------------------------------------------
(* TypeOK in three parts: the provers take them one at a time.             *)

FlagsOK ==
  /\ mPreviewRunning \in BOOLEAN
  /\ mPreviewStartDeferred \in BOOLEAN
  /\ mExitPreviewThread \in BOOLEAN
  /\ parked \in BOOLEAN
  /\ restarted \in BOOLEAN

CountsOK ==
  /\ mSkipFrame \in Nat
  /\ sinceStart \in 0..(INITIAL_SKIP_FRAME + 1)
  /\ opens \in 1..MaxOpens

PlacesOK ==
  /\ mPreviewWindow \in Windows \cup {NoWindow}
  /\ origin \in Windows \cup {NoWindow}
  /\ mPreviewHeap \in {"none", "refused", "live"}
  /\ mPreviewLock \in {"client", "thread", "free"}
  /\ call \in Calls
  /\ cpc \in ClientPCs
  /\ tpc \in ThreadPCs

\* TypeOK in four parts.
LEMMA TypeParts == TypeOK <=> FlagsOK /\ CountsOK /\ PlacesOK /\ cam \in Camera
BY DEF TypeOK, FlagsOK, CountsOK, PlacesOK

\* The camera is always a camera: only the calls of SecCamera change it.
LEMMA CameraStep == cam \in Camera /\ [Next]_vars => cam' \in Camera
<1> SUFFICES ASSUME cam \in Camera, [Next]_vars PROVE cam' \in Camera
  OBVIOUS
<1>1. CASE Reopen
  BY <1>1, InitCameraType, ReplyFields DEF Reopen
<1>2. CASE StartDriver
  BY <1>2, StartPreviewType, ReplyFields DEF StartDriver, SetSkipFrame
<1>3. CASE ReleaseFree
  BY <1>3, DeinitCameraType DEF ReleaseFree
<1>4. CASE ThreadCheck
  BY <1>4, StopPreviewType, ReplyFields DEF ThreadCheck, StopCamera
<1>5. CASE ThreadExitCheck
  BY <1>5, StopPreviewType, ReplyFields DEF ThreadExitCheck, StopCamera
<1>6. CASE GetPreviewReset
  BY <1>6, ResetPreviewType, ReplyFields DEF GetPreviewReset
<1>7. CASE UNCHANGED cam
  BY <1>7
<1>8. QED
  BY <1>1, <1>2, <1>3, <1>4, <1>5, <1>6, <1>7
  DEF Next, ClientCalls, ClientSteps, ThreadSteps, SpuriousWake, vars, threadOnly,
      CallStartPreview, CallStopPreview, CallSetPreviewWindow, SetEffect,
      CallRelease,
      StartPreviewLocked, ClientLocks, StartAlloc, StopPreviewLocked,
      StopWoken,
      SetPreviewWindowLocked, ConfigureWindow, ReleaseSignal, ReleaseJoin,
      ThreadBegin, ThreadLock, ThreadWait, GetPreview, GetPreviewDequeue,
      SkipFrame, SkipThisFrame, TestWindow, DequeueBuffer, CopyFrame,
      EnqueueBuffer, FrameCallback

\* The flags stay Boolean.
LEMMA FlagsStep == FlagsOK /\ [Next]_vars => FlagsOK'
<1> SUFFICES ASSUME FlagsOK, [Next]_vars PROVE FlagsOK'
  OBVIOUS
<1>1. CASE GetPreviewReset
  <2>1. restarted' \in BOOLEAN
    BY <1>1 DEF GetPreviewReset
  <2>2. QED
    BY <1>1, <2>1 DEF GetPreviewReset, threadOnly, flagVars, FlagsOK
<1>2. CASE StartDriver
  BY <1>2 DEF StartDriver, flagVars, threadVars, frameVars, FlagsOK
<1>3. CASE Reopen
  BY <1>3 DEF Reopen, FlagsOK
<1>4. CASE UNCHANGED restarted
  BY <1>4
  DEF FlagsOK, Next, ClientCalls, ClientSteps, ThreadSteps, SpuriousWake, vars,
      threadOnly, flagVars, threadVars, Return, StopAndWait, Reopen, StartDriver,
      ReleaseFree, ThreadCheck, ThreadExitCheck, GetPreviewReset,
      CallStartPreview, CallStopPreview, CallSetPreviewWindow, SetEffect,
      CallRelease,
      StartPreviewLocked, ClientLocks, StartAlloc, StopPreviewLocked,
      StopWoken,
      SetPreviewWindowLocked, ConfigureWindow, ReleaseSignal, ReleaseJoin,
      ThreadBegin, ThreadLock, ThreadWait, GetPreview, GetPreviewDequeue,
      SkipFrame, TestWindow, DequeueBuffer, CopyFrame,
      EnqueueBuffer, FrameCallback
<1>5. QED
  BY <1>1, <1>2, <1>3, <1>4
  DEF Next, ClientCalls, ClientSteps, ThreadSteps, SpuriousWake, vars,
      threadOnly, frameVars, ReleaseFree, ThreadCheck, ThreadExitCheck,
      CallStartPreview, CallStopPreview, CallSetPreviewWindow, SetEffect,
      CallRelease,
      StartPreviewLocked, StartAlloc, StopPreviewLocked, StopWoken,
      SetPreviewWindowLocked, ConfigureWindow, ReleaseSignal, ReleaseJoin,
      ThreadBegin, ThreadLock, ThreadWait, GetPreview, GetPreviewDequeue,
      SkipFrame, TestWindow, DequeueBuffer, CopyFrame,
      EnqueueBuffer, FrameCallback

\* The counters stay in their ranges.
LEMMA CountsStep == CountsOK /\ [Next]_vars => CountsOK'
<1> SUFFICES ASSUME CountsOK, [Next]_vars PROVE CountsOK'
  OBVIOUS
<1> USE DEF CountsOK
<1>1. CASE Reopen
  BY <1>1 DEF Reopen
<1>2. CASE StartDriver
  BY <1>2 DEF StartDriver, SetSkipFrame, frameVars
<1>3. CASE SkipFrame
  BY <1>3 DEF SkipFrame, SkipThisFrame, threadOnly
<1>4. CASE SetEffect
  BY <1>4 DEF SetEffect, SetSkipFrame
<1>5. CASE GetPreviewReset
  BY <1>5 DEF GetPreviewReset, threadOnly
<1>6. CASE GetPreviewDequeue
  BY <1>6 DEF GetPreviewDequeue, threadOnly
<1>7. CASE UNCHANGED <<mSkipFrame, sinceStart, opens>>
  BY <1>7
<1>8. QED
  BY <1>1, <1>2, <1>3, <1>4, <1>5, <1>6, <1>7
  DEF Next, ClientCalls, ClientSteps, ThreadSteps, SpuriousWake, vars,
      threadOnly, flagVars, threadVars, frameVars, clientVars, Return,
      SignalPreview, SignalStopped, StopAndWait, Reopen, StartDriver,
      SetSkipFrame,
      ReleaseFree, ThreadCheck, StopCamera, ThreadExitCheck,
      GetPreviewReset,
      CallStartPreview, CallStopPreview, CallSetPreviewWindow, SetEffect,
      CallRelease,
      StartPreviewLocked, ClientLocks, StartAlloc, StopPreviewLocked,
      StopWoken,
      SetPreviewWindowLocked, ConfigureWindow, ReleaseSignal, ReleaseJoin,
      ThreadBegin, ThreadLock, ThreadWait, GetPreview, GetPreviewDequeue,
      SkipFrame, SkipThisFrame, TestWindow, DequeueBuffer, CopyFrame,
      EnqueueBuffer, FrameCallback

\* Windows, heap, lock and program counters stay in their sets.
LEMMA PlacesStep == PlacesOK /\ [Next]_vars => PlacesOK'
<1> SUFFICES ASSUME PlacesOK, [Next]_vars PROVE PlacesOK'
  OBVIOUS
<1> USE DEF PlacesOK, Calls, ClientPCs, ThreadPCs, clientVars, threadVars,
            frameVars, threadOnly, Return, SignalPreview, SignalStopped
<1>1. CASE ClientCalls
  <2>1. CASE CallStartPreview
    BY <2>1 DEF CallStartPreview
  <2>2. CASE CallStopPreview
    BY <2>2 DEF CallStopPreview
  <2>3. CASE CallRelease
    BY <2>3 DEF CallRelease
  <2>4. CASE Reopen
    BY <2>4 DEF Reopen
  <2>effect. CASE SetEffect
    BY <2>effect DEF SetEffect, SetSkipFrame
  <2>5. ASSUME NEW w \in Windows \cup {NoWindow}, CallSetPreviewWindow(w)
        PROVE  PlacesOK'
    BY <2>5 DEF CallSetPreviewWindow
  <2>6. QED
    BY <1>1, <2>1, <2>2, <2>3, <2>4, <2>effect, <2>5
    DEF ClientCalls
<1>2. CASE ClientSteps
  <2>1. CASE StartPreviewLocked
    BY <2>1 DEF StartPreviewLocked, ClientLocks
  <2>2. CASE StartDriver
    BY <2>2 DEF StartDriver, SetSkipFrame
  <2>3. CASE StartAlloc
    BY <2>3 DEF StartAlloc
  <2>4. CASE StopPreviewLocked
    BY <2>4 DEF StopPreviewLocked, ClientLocks, StopAndWait
  <2>5. CASE StopWoken
    BY <2>5 DEF StopWoken
  <2>6. CASE SetPreviewWindowLocked
    BY <2>6 DEF SetPreviewWindowLocked, ClientLocks, StopAndWait
  <2>7. CASE ConfigureWindow
    BY <2>7 DEF ConfigureWindow
  <2>8. CASE ReleaseSignal
    BY <2>8 DEF ReleaseSignal
  <2>9. CASE ReleaseJoin
    BY <2>9 DEF ReleaseJoin
  <2>10. CASE ReleaseFree
    BY <2>10 DEF ReleaseFree
  <2>11. QED
    BY <1>2, <2>1, <2>2, <2>3, <2>4, <2>5, <2>6, <2>7, <2>8, <2>9, <2>10
    DEF ClientSteps
<1>3. CASE ThreadSteps
  <2>1. CASE ThreadBegin
    BY <2>1 DEF ThreadBegin
  <2>2. CASE ThreadLock
    BY <2>2 DEF ThreadLock
  <2>3. CASE ThreadCheck
    BY <2>3 DEF ThreadCheck, StopCamera
  <2>4. CASE ThreadWait
    BY <2>4 DEF ThreadWait
  <2>5. CASE ThreadExitCheck
    BY <2>5 DEF ThreadExitCheck, StopCamera
  <2>6. CASE GetPreview
    BY <2>6 DEF GetPreview
  <2>7. CASE GetPreviewReset
    BY <2>7 DEF GetPreviewReset
  <2>8. CASE GetPreviewDequeue
    BY <2>8 DEF GetPreviewDequeue
  <2>9. CASE SkipFrame
    BY <2>9 DEF SkipFrame, SkipThisFrame, IfFaulty
  <2>10. CASE TestWindow
    BY <2>10 DEF TestWindow
  <2>11. CASE DequeueBuffer
    BY <2>11 DEF DequeueBuffer
  <2>12. CASE CopyFrame
    BY <2>12 DEF CopyFrame
  <2>13. CASE EnqueueBuffer
    BY <2>13 DEF EnqueueBuffer
  <2>14. CASE FrameCallback
    BY <2>14 DEF FrameCallback
  <2>15. QED
    BY <1>3, <2>1, <2>2, <2>3, <2>4, <2>5, <2>6, <2>7, <2>8, <2>9, <2>10, <2>11,
    <2>12, <2>13, <2>14
    DEF ThreadSteps
<1>4. CASE SpuriousWake
  BY <1>4 DEF SpuriousWake
<1>5. CASE UNCHANGED vars
  BY <1>5 DEF vars
<1>6. QED
  BY <1>1, <1>2, <1>3, <1>4, <1>5 DEF Next

\* Every step of the model keeps every variable in its type.
THEOREM TypeCorrect == Spec => []TypeOK
<1>1. Init => TypeOK
  <2> SUFFICES ASSUME Init PROVE TypeOK
    OBVIOUS
  <2>1. FlagsOK
    BY DEF Init, FlagsOK
  <2>2. CountsOK
    BY DEF Init, CountsOK
  <2>3. PlacesOK
    BY DEF Init, PlacesOK, Calls, ClientPCs, ThreadPCs
  <2>4. cam \in Camera
    BY InitCameraType, NewCameraType, ReplyFields DEF Init
  <2>5. QED
    BY <2>1, <2>2, <2>3, <2>4, TypeParts
<1>2. TypeOK /\ [Next]_vars => TypeOK'
  <2>1. (FlagsOK /\ CountsOK /\ PlacesOK /\ cam \in Camera)' => TypeOK'
    BY DEF TypeOK, FlagsOK, CountsOK, PlacesOK
  <2>2. QED
    BY <2>1, TypeParts, FlagsStep, CountsStep, PlacesStep, CameraStep
<1>3. QED
  BY <1>1, <1>2, PTL DEF Spec

-----------------------------------------------------------------------------
\* mPreviewLock excludes: the mutex is taken only when it is free and given
\* up only by its holder, and this needs no assumption on the environment.
THEOREM MutexHolds == Spec => []MutualExclusion
<1>1. Init => MutualExclusion
  BY DEF Init, MutualExclusion
<1>2. MutualExclusion /\ [Next]_vars => MutualExclusion'
  <2> SUFFICES ASSUME MutualExclusion, [Next]_vars PROVE MutualExclusion'
    OBVIOUS
  <2> USE DEF MutualExclusion, clientVars, threadVars, threadOnly, Return,
              SignalPreview, SignalStopped
  <2>stutter. CASE UNCHANGED vars
    BY <2>stutter DEF vars
  <2>call. CASE ClientCalls
    <3>1. CASE CallStartPreview
      BY <3>1 DEF CallStartPreview
    <3>2. CASE CallStopPreview
      BY <3>2 DEF CallStopPreview
    <3>3. CASE CallRelease
      BY <3>3 DEF CallRelease
    <3>4. CASE Reopen
      BY <3>4 DEF Reopen
    <3>effect. CASE SetEffect
      BY <3>effect DEF SetEffect
    <3>5. ASSUME NEW w \in Windows \cup {NoWindow}, CallSetPreviewWindow(w)
          PROVE  MutualExclusion'
      BY <3>5 DEF CallSetPreviewWindow
    <3>6. QED
      BY <2>call, <3>1, <3>2, <3>3, <3>4, <3>effect, <3>5
      DEF ClientCalls
  <2>step. CASE ClientSteps
    <3>1. CASE StartPreviewLocked
      BY <3>1 DEF StartPreviewLocked, ClientLocks
    <3>2. CASE StartDriver
      BY <3>2 DEF StartDriver, SetSkipFrame
    <3>3. CASE StartAlloc
      BY <3>3 DEF StartAlloc
    <3>4. CASE StopPreviewLocked
      BY <3>4 DEF StopPreviewLocked, ClientLocks, StopAndWait
    <3>5. CASE StopWoken
      BY <3>5 DEF StopWoken
    <3>6. CASE SetPreviewWindowLocked
      BY <3>6 DEF SetPreviewWindowLocked, ClientLocks, StopAndWait
    <3>7. CASE ConfigureWindow
      BY <3>7 DEF ConfigureWindow
    <3>8. CASE ReleaseSignal
      BY <3>8 DEF ReleaseSignal
    <3>9. CASE ReleaseJoin
      BY <3>9 DEF ReleaseJoin
    <3>10. CASE ReleaseFree
      BY <3>10 DEF ReleaseFree
    <3>11. QED
      BY <2>step, <3>1, <3>2, <3>3, <3>4, <3>5, <3>6, <3>7, <3>8, <3>9, <3>10
      DEF ClientSteps
  <2>thread. CASE ThreadSteps
    <3>1. CASE ThreadBegin
      BY <3>1 DEF ThreadBegin
    <3>2. CASE ThreadLock
      BY <3>2 DEF ThreadLock
    <3>3. CASE ThreadCheck
      BY <3>3 DEF ThreadCheck, StopCamera
    <3>4. CASE ThreadWait
      BY <3>4 DEF ThreadWait
    <3>5. CASE ThreadExitCheck
      BY <3>5 DEF ThreadExitCheck, StopCamera
    <3>6. CASE GetPreview
      BY <3>6 DEF GetPreview
    <3>7. CASE GetPreviewReset
      BY <3>7 DEF GetPreviewReset
    <3>8. CASE GetPreviewDequeue
      BY <3>8 DEF GetPreviewDequeue
    <3>9. CASE SkipFrame
      BY <3>9 DEF SkipFrame, SkipThisFrame, IfFaulty
    <3>10. CASE TestWindow
      BY <3>10 DEF TestWindow
    <3>11. CASE DequeueBuffer
      BY <3>11 DEF DequeueBuffer
    <3>12. CASE CopyFrame
      BY <3>12 DEF CopyFrame
    <3>13. CASE EnqueueBuffer
      BY <3>13 DEF EnqueueBuffer
    <3>14. CASE FrameCallback
      BY <3>14 DEF FrameCallback
    <3>15. QED
      BY <2>thread, <3>1, <3>2, <3>3, <3>4, <3>5, <3>6, <3>7, <3>8, <3>9, <3>10, <3>11,
      <3>12, <3>13, <3>14
      DEF ThreadSteps
  <2>wake. CASE SpuriousWake
    BY <2>wake DEF SpuriousWake
  <2> QED
    BY <2>stutter, <2>call, <2>step, <2>thread, <2>wake DEF Next
<1>3. QED
  BY <1>1, <1>2, PTL DEF Spec

-----------------------------------------------------------------------------
(* The handshake.  FramesOnlyWhenTold is not inductive: nothing in it keeps  *)
(* a start from finding the thread still at work.  The missing fact is that  *)
(* a parked thread that is on its way through its loop, and not asleep,      *)
(* has been told to go, is being waited for, or has been asked to exit;      *)
(* release() and the start of the driver are tied in by the rest.            *)

OnItsWay == {"top", "check", "woken", "exitCheck"}

Handshake ==
  /\ parked => tpc # "new"
  /\ FramesOnlyWhenTold
  /\ parked /\ tpc \in OnItsWay =>
       Going \/ cpc = "stopWait" \/ mExitPreviewThread
  /\ mExitPreviewThread <=> cpc \in {"signalExit", "join", "freeAll", "released"}
  /\ tpc = "exited" => mExitPreviewThread
  /\ cpc \in {"driver", "alloc"} => mPreviewRunning
  /\ parked /\ cpc \in {"driver", "alloc"} => tpc \in {"waiting", "crashed"}
  /\ cpc \in {"freeAll", "released"} => tpc = "exited"
  /\ cpc = "stopWait" => ~mPreviewRunning

(* The thread takes a frame or will go on to one; a thread that has been     *)
(* told to stop or to exit will not.                                         *)
WillTake ==
  parked /\ \/ tpc \in FramePCs
            \/ tpc = "exitCheck" /\ ~mExitPreviewThread
            \/ /\ tpc \in {"top", "check", "woken"}
               /\ mPreviewRunning /\ ~mExitPreviewThread

(* The heap is not taken from under such a thread.                           *)
HeapKept == WillTake => mPreviewHeap # "none"

(* For such a thread, and the start that will wake it, the frames taken      *)
(* since the start and those still to be thrown away make up the count; the  *)
(* frame in hand at "skip" is taken and may yet be thrown away: one more.    *)
SkipsLeft ==
  ~restarted /\ (WillTake \/ (cpc = "alloc" /\ parked)) =>
    /\ sinceStart + mSkipFrame >= INITIAL_SKIP_FRAME
    /\ tpc = "skip" => sinceStart + mSkipFrame > INITIAL_SKIP_FRAME

-----------------------------------------------------------------------------
\* The handshake survives every step that is not a spurious wakeup.
LEMMA HandshakeStep ==
  ASSUME ~SpuriousWakeups, FlagsOK, PlacesOK, MutualExclusion, Handshake,
         [Next]_vars
  PROVE  Handshake'
<1> USE DEF FlagsOK, Handshake, FramesOnlyWhenTold, Going, OnItsWay, FramePCs,
            flagVars, clientVars, threadVars, threadOnly, Return,
            SignalPreview, SignalStopped
<1>1. CASE ClientCalls
  <2>1. CASE CallStartPreview
    BY <2>1 DEF CallStartPreview
  <2>2. CASE CallStopPreview
    BY <2>2 DEF CallStopPreview
  <2>3. CASE CallRelease
    BY <2>3 DEF CallRelease
  <2>4. CASE Reopen
    BY <2>4 DEF Reopen
  <2>effect. CASE SetEffect
    BY <2>effect DEF SetEffect, SetSkipFrame
  <2>5. ASSUME NEW w \in Windows \cup {NoWindow}, CallSetPreviewWindow(w)
        PROVE  Handshake'
    BY <2>5 DEF CallSetPreviewWindow
  <2>6. QED
    BY <1>1, <2>1, <2>2, <2>3, <2>4, <2>effect, <2>5
    DEF ClientCalls
<1>2. CASE ClientSteps
  <2>1. CASE StartPreviewLocked
    BY <2>1 DEF StartPreviewLocked, ClientLocks, PlacesOK, ThreadPCs,
                MutualExclusion
  <2>2. CASE StartDriver
    BY <2>2 DEF StartDriver, SetSkipFrame
  <2>3. CASE StartAlloc
    BY <2>3 DEF StartAlloc
  <2>4. CASE StopPreviewLocked
    BY <2>4 DEF StopPreviewLocked, ClientLocks, StopAndWait
  <2>5. CASE StopWoken
    BY <2>5 DEF StopWoken
  <2>6. CASE SetPreviewWindowLocked
    BY <2>6 DEF SetPreviewWindowLocked, ClientLocks, StopAndWait
  <2>7. CASE ConfigureWindow
    BY <2>7 DEF ConfigureWindow, PlacesOK, ThreadPCs, MutualExclusion
  <2>8. CASE ReleaseSignal
    BY <2>8 DEF ReleaseSignal
  <2>9. CASE ReleaseJoin
    BY <2>9 DEF ReleaseJoin
  <2>10. CASE ReleaseFree
    BY <2>10 DEF ReleaseFree
  <2>11. QED
    BY <1>2, <2>1, <2>2, <2>3, <2>4, <2>5, <2>6, <2>7, <2>8, <2>9, <2>10
    DEF ClientSteps
<1>3. CASE ThreadSteps
  <2>1. CASE ThreadBegin
    BY <2>1 DEF ThreadBegin
  <2>2. CASE ThreadLock
    BY <2>2 DEF ThreadLock
  <2>3. CASE ThreadCheck
    BY <2>3 DEF ThreadCheck, StopCamera
  <2>4. CASE ThreadWait
    BY <2>4 DEF ThreadWait
  <2>5. CASE ThreadExitCheck
    BY <2>5 DEF ThreadExitCheck, StopCamera
  <2>6. CASE GetPreview
    BY <2>6 DEF GetPreview
  <2>7. CASE GetPreviewReset
    BY <2>7 DEF GetPreviewReset
  <2>8. CASE GetPreviewDequeue
    BY <2>8 DEF GetPreviewDequeue
  <2>9. CASE SkipFrame
    BY <2>9 DEF SkipFrame, SkipThisFrame, IfFaulty
  <2>10. CASE TestWindow
    BY <2>10 DEF TestWindow
  <2>11. CASE DequeueBuffer
    BY <2>11 DEF DequeueBuffer
  <2>12. CASE CopyFrame
    BY <2>12 DEF CopyFrame
  <2>13. CASE EnqueueBuffer
    BY <2>13 DEF EnqueueBuffer
  <2>14. CASE FrameCallback
    BY <2>14 DEF FrameCallback
  <2>15. QED
    BY <1>3, <2>1, <2>2, <2>3, <2>4, <2>5, <2>6, <2>7, <2>8, <2>9, <2>10, <2>11,
    <2>12, <2>13, <2>14
    DEF ThreadSteps
<1>4. CASE SpuriousWake
  BY <1>4 DEF SpuriousWake
<1>5. CASE UNCHANGED vars
  BY <1>5 DEF vars
<1>6. QED
  BY <1>1, <1>2, <1>3, <1>4, <1>5 DEF Next

\* A thread on its way to a frame was that already, or a start has woken it; and
\* while it is, the client neither starts the driver nor frees anything.
LEMMA TakeStep ==
  ASSUME ~SpuriousWakeups, FlagsOK, PlacesOK, MutualExclusion, Handshake,
         [Next]_vars, WillTake'
  PROVE  \/ StartAlloc
         \/ /\ WillTake
            /\ cpc \notin {"driver", "alloc", "freeAll", "released"}
<1> DEFINE Kept == \/ StartAlloc
                   \/ /\ WillTake
                      /\ cpc \notin {"driver", "alloc", "freeAll", "released"}
<1> USE DEF FlagsOK, Handshake, Going, OnItsWay, FramePCs, WillTake,
            flagVars, clientVars, threadVars, threadOnly, Return,
            SignalPreview, SignalStopped
<1>1. CASE ClientCalls
  <2>1. CASE CallStartPreview
    BY <2>1 DEF CallStartPreview
  <2>2. CASE CallStopPreview
    BY <2>2 DEF CallStopPreview
  <2>3. CASE CallRelease
    BY <2>3 DEF CallRelease
  <2>4. CASE Reopen
    BY <2>4 DEF Reopen
  <2>effect. CASE SetEffect
    BY <2>effect DEF SetEffect, SetSkipFrame
  <2>5. ASSUME NEW w \in Windows \cup {NoWindow}, CallSetPreviewWindow(w)
        PROVE  Kept
    BY <2>5 DEF CallSetPreviewWindow
  <2>6. QED
    BY <1>1, <2>1, <2>2, <2>3, <2>4, <2>effect, <2>5
    DEF ClientCalls
<1>2. CASE ClientSteps
  <2>1. CASE StartPreviewLocked
    BY <2>1 DEF StartPreviewLocked, ClientLocks
  <2>2. CASE StartDriver
    BY <2>2 DEF StartDriver, SetSkipFrame
  <2>3. CASE StartAlloc
    BY <2>3
  <2>4. CASE StopPreviewLocked
    BY <2>4 DEF StopPreviewLocked, ClientLocks, StopAndWait
  <2>5. CASE StopWoken
    BY <2>5 DEF StopWoken
  <2>6. CASE SetPreviewWindowLocked
    BY <2>6 DEF SetPreviewWindowLocked, ClientLocks, StopAndWait
  <2>7. CASE ConfigureWindow
    BY <2>7 DEF ConfigureWindow
  <2>8. CASE ReleaseSignal
    BY <2>8 DEF ReleaseSignal
  <2>9. CASE ReleaseJoin
    BY <2>9 DEF ReleaseJoin
  <2>10. CASE ReleaseFree
    BY <2>10 DEF ReleaseFree
  <2>11. QED
    BY <1>2, <2>1, <2>2, <2>3, <2>4, <2>5, <2>6, <2>7, <2>8, <2>9, <2>10
    DEF ClientSteps
<1>3. CASE ThreadSteps
  <2>1. CASE ThreadBegin
    BY <2>1 DEF ThreadBegin
  <2>2. CASE ThreadLock
    BY <2>2 DEF ThreadLock
  <2>3. CASE ThreadCheck
    BY <2>3 DEF ThreadCheck, StopCamera
  <2>4. CASE ThreadWait
    BY <2>4 DEF ThreadWait
  <2>5. CASE ThreadExitCheck
    BY <2>5 DEF ThreadExitCheck, StopCamera
  <2>6. CASE GetPreview
    BY <2>6 DEF GetPreview
  <2>7. CASE GetPreviewReset
    BY <2>7 DEF GetPreviewReset
  <2>8. CASE GetPreviewDequeue
    BY <2>8 DEF GetPreviewDequeue
  <2>9. CASE SkipFrame
    BY <2>9 DEF SkipFrame, SkipThisFrame, IfFaulty
  <2>10. CASE TestWindow
    BY <2>10 DEF TestWindow
  <2>11. CASE DequeueBuffer
    BY <2>11 DEF DequeueBuffer
  <2>12. CASE CopyFrame
    BY <2>12 DEF CopyFrame
  <2>13. CASE EnqueueBuffer
    BY <2>13 DEF EnqueueBuffer
  <2>14. CASE FrameCallback
    BY <2>14 DEF FrameCallback
  <2>15. QED
    BY <1>3, <2>1, <2>2, <2>3, <2>4, <2>5, <2>6, <2>7, <2>8, <2>9, <2>10, <2>11,
    <2>12, <2>13, <2>14
    DEF ThreadSteps
<1>4. CASE SpuriousWake
  BY <1>4 DEF SpuriousWake
<1>5. CASE UNCHANGED vars
  BY <1>5 DEF vars
<1>6. QED
  BY <1>1, <1>2, <1>3, <1>4, <1>5 DEF Next

\* No frame loses its heap: StartDriver and release() take the heap away
\* only from a thread that sleeps or is gone.
LEMMA HeapStep ==
  ASSUME ~SpuriousWakeups, FlagsOK, PlacesOK, MutualExclusion, Handshake,
         HeapKept, [Next]_vars
  PROVE  HeapKept'
<1> SUFFICES ASSUME WillTake' PROVE mPreviewHeap' # "none"
  BY DEF HeapKept
<1>1. CASE StartAlloc
  BY <1>1 DEF StartAlloc
<1>2. CASE ~StartAlloc
  <2>1. WillTake /\ cpc \notin {"driver", "alloc", "freeAll", "released"}
    BY <1>2, TakeStep
  <2>2. UNCHANGED mPreviewHeap
    BY <2>1
    DEF Next, ClientCalls, ClientSteps, ThreadSteps, SpuriousWake, vars,
        threadOnly, frameVars, Reopen, StartDriver, StartAlloc, ReleaseFree,
        ThreadCheck, ThreadExitCheck, GetPreviewReset,
        CallStartPreview, CallStopPreview, CallSetPreviewWindow, SetEffect,
        CallRelease, StartPreviewLocked, StopPreviewLocked, StopWoken,
        SetPreviewWindowLocked, ConfigureWindow, ReleaseSignal, ReleaseJoin,
        ThreadBegin, ThreadLock, ThreadWait, GetPreview, GetPreviewDequeue,
        SkipFrame, TestWindow, DequeueBuffer, CopyFrame, EnqueueBuffer,
        FrameCallback
  <2>3. QED
    BY <2>1, <2>2 DEF HeapKept
<1>3. QED
  BY <1>1, <1>2

\* Windows do not change under a thread that works on a frame, unless the
\* client changes them while preview is going.
LEMMA WindowStep ==
  ASSUME ~SpuriousWakeups, ~LiveWindowChange, FlagsOK, PlacesOK, Handshake,
         WindowSafe, [Next]_vars
  PROVE  WindowSafe'
<1> USE DEF FlagsOK, Handshake, FramesOnlyWhenTold, Going, FramePCs, WindowSafe,
            clientVars, threadVars, threadOnly, Return,
            SignalPreview, SignalStopped
<1>1. CASE ClientCalls
  <2>1. CASE CallStartPreview
    BY <2>1 DEF CallStartPreview
  <2>2. CASE CallStopPreview
    BY <2>2 DEF CallStopPreview
  <2>3. CASE CallRelease
    BY <2>3 DEF CallRelease
  <2>4. CASE Reopen
    BY <2>4 DEF Reopen
  <2>effect. CASE SetEffect
    BY <2>effect DEF SetEffect, SetSkipFrame
  <2>5. ASSUME NEW w \in Windows \cup {NoWindow}, CallSetPreviewWindow(w)
        PROVE  WindowSafe'
    BY <2>5 DEF CallSetPreviewWindow
  <2>6. QED
    BY <1>1, <2>1, <2>2, <2>3, <2>4, <2>effect, <2>5
    DEF ClientCalls
<1>2. CASE ClientSteps
  <2>1. CASE StartPreviewLocked
    BY <2>1 DEF StartPreviewLocked, ClientLocks
  <2>2. CASE StartDriver
    BY <2>2 DEF StartDriver, SetSkipFrame
  <2>3. CASE StartAlloc
    BY <2>3 DEF StartAlloc
  <2>4. CASE StopPreviewLocked
    BY <2>4 DEF StopPreviewLocked, ClientLocks, StopAndWait
  <2>5. CASE StopWoken
    BY <2>5 DEF StopWoken
  <2>6. CASE SetPreviewWindowLocked
    BY <2>6 DEF SetPreviewWindowLocked, ClientLocks, StopAndWait
  <2>7. CASE ConfigureWindow
    BY <2>7 DEF ConfigureWindow
  <2>8. CASE ReleaseSignal
    BY <2>8 DEF ReleaseSignal
  <2>9. CASE ReleaseJoin
    BY <2>9 DEF ReleaseJoin
  <2>10. CASE ReleaseFree
    BY <2>10 DEF ReleaseFree
  <2>11. QED
    BY <1>2, <2>1, <2>2, <2>3, <2>4, <2>5, <2>6, <2>7, <2>8, <2>9, <2>10
    DEF ClientSteps
<1>3. CASE ThreadSteps
  <2>1. CASE ThreadBegin
    BY <2>1 DEF ThreadBegin
  <2>2. CASE ThreadLock
    BY <2>2 DEF ThreadLock
  <2>3. CASE ThreadCheck
    BY <2>3 DEF ThreadCheck, StopCamera
  <2>4. CASE ThreadWait
    BY <2>4 DEF ThreadWait
  <2>5. CASE ThreadExitCheck
    BY <2>5 DEF ThreadExitCheck, StopCamera
  <2>6. CASE GetPreview
    BY <2>6 DEF GetPreview
  <2>7. CASE GetPreviewReset
    BY <2>7 DEF GetPreviewReset
  <2>8. CASE GetPreviewDequeue
    BY <2>8 DEF GetPreviewDequeue
  <2>9. CASE SkipFrame
    BY <2>9 DEF SkipFrame, SkipThisFrame, IfFaulty
  <2>10. CASE TestWindow
    BY <2>10 DEF TestWindow
  <2>11. CASE DequeueBuffer
    BY <2>11 DEF DequeueBuffer
  <2>12. CASE CopyFrame
    BY <2>12 DEF CopyFrame
  <2>13. CASE EnqueueBuffer
    BY <2>13 DEF EnqueueBuffer
  <2>14. CASE FrameCallback
    BY <2>14 DEF FrameCallback
  <2>15. QED
    BY <1>3, <2>1, <2>2, <2>3, <2>4, <2>5, <2>6, <2>7, <2>8, <2>9, <2>10, <2>11,
    <2>12, <2>13, <2>14
    DEF ThreadSteps
<1>4. CASE SpuriousWake
  BY <1>4 DEF SpuriousWake
<1>5. CASE UNCHANGED vars
  BY <1>5 DEF vars
<1>6. QED
  BY <1>1, <1>2, <1>3, <1>4, <1>5 DEF Next

\* A sum grows with its second part.
LEMMA SumGrows ==
  ASSUME NEW a \in Nat, NEW b \in Nat, NEW c \in Nat, NEW n \in Nat, c >= b
  PROVE  /\ a + b >= n => a + c >= n
         /\ a + b > n => a + c > n
OBVIOUS

\* A sum is at least its second part.
LEMMA SumCovers ==
  ASSUME NEW a \in Nat, NEW c \in Nat, NEW n \in Nat, c >= n
  PROVE  a + c >= n
OBVIOUS

\* A frame that is taken adds one, a frame thrown away moves one over, an effect
\* only adds; a start counts anew, and a restart ends the account.
LEMMA SkipsStep ==
  ASSUME ~SpuriousWakeups, FlagsOK, CountsOK, PlacesOK, MutualExclusion, Handshake,
         SkipsLeft, [Next]_vars
  PROVE  SkipsLeft'
<1>1. CASE StartDriver
  <2>1. parked' => tpc' # "skip"
    BY <1>1 DEF StartDriver, Handshake, threadVars
  <2>2. CASE cpc' = "alloc"
    <3>1. sinceStart' \in Nat /\ mSkipFrame' \in Nat /\ mSkipFrame' >= INITIAL_SKIP_FRAME
      BY <1>1, <2>2 DEF StartDriver, SetSkipFrame, Return, CountsOK
    <3>2. WillTake' \/ (cpc' = "alloc" /\ parked') => tpc' # "skip"
      BY <2>1 DEF WillTake
    <3>3. sinceStart' + mSkipFrame' >= INITIAL_SKIP_FRAME
      BY <3>1, SumCovers
    <3>4. QED
      BY <3>2, <3>3 DEF SkipsLeft
  <2>3. CASE cpc' # "alloc"
    <3>1. ~StartAlloc
      BY <1>1 DEF StartDriver, StartAlloc
    <3>2. ~WillTake'
      BY <1>1, <3>1, TakeStep DEF StartDriver
    <3>3. QED
      BY <2>3, <3>2 DEF SkipsLeft
  <2>4. QED
    BY <2>2, <2>3
<1>2. CASE ~StartDriver
  <2> SUFFICES ASSUME ~restarted', WillTake' \/ (cpc' = "alloc" /\ parked')
               PROVE  /\ sinceStart' + mSkipFrame' >= INITIAL_SKIP_FRAME
                      /\ tpc' = "skip" => sinceStart' + mSkipFrame' > INITIAL_SKIP_FRAME
    BY DEF SkipsLeft
  <2> DEFINE Account == /\ sinceStart + mSkipFrame >= INITIAL_SKIP_FRAME
                        /\ tpc = "skip" => sinceStart + mSkipFrame > INITIAL_SKIP_FRAME
  <2>alloc. cpc' = "alloc" /\ parked' => cpc = "alloc" /\ parked
    BY <1>2
    DEF Next, ClientCalls, ClientSteps, ThreadSteps, SpuriousWake, vars,
        threadOnly, clientVars, threadVars, Return, SignalStopped, StopAndWait,
        Reopen, MutualExclusion,
        StartAlloc, ReleaseFree, ThreadCheck, ThreadExitCheck, GetPreviewReset,
        CallStartPreview, CallStopPreview, CallSetPreviewWindow, SetEffect,
        CallRelease, StartPreviewLocked, StopPreviewLocked, StopWoken,
        SetPreviewWindowLocked, ConfigureWindow, ReleaseSignal, ReleaseJoin,
        ThreadBegin, ThreadLock, ThreadWait, GetPreview, GetPreviewDequeue,
        SkipFrame, TestWindow, DequeueBuffer, CopyFrame, EnqueueBuffer,
        FrameCallback
  <2>before. WillTake \/ (cpc = "alloc" /\ parked)
    BY <2>alloc, TakeStep DEF StartAlloc, WillTake
  <2>kept. ~restarted => Account
    BY <2>before DEF SkipsLeft
  <2>1. CASE SkipFrame
    <3>1. /\ tpc = "skip" /\ tpc' # "skip"
          /\ UNCHANGED <<sinceStart, restarted>>
          /\ mSkipFrame' = mSkipFrame \/ mSkipFrame' = mSkipFrame - 1
      BY <2>1 DEF SkipFrame, SkipThisFrame, IfFaulty
    <3>2. QED
      BY <3>1, <2>kept DEF CountsOK
  <2>2. CASE SetEffect
    <3>1. /\ mSkipFrame' \in Nat /\ mSkipFrame' >= mSkipFrame
          /\ UNCHANGED <<sinceStart, restarted, tpc>>
      BY <2>2 DEF SetEffect, SetSkipFrame, threadVars, CountsOK
    <3>2. Account
      BY <3>1, <2>kept
    <3>3. sinceStart \in Nat /\ mSkipFrame \in Nat
      BY DEF CountsOK
    <3>4. /\ sinceStart + mSkipFrame' >= INITIAL_SKIP_FRAME
          /\ tpc = "skip" => sinceStart + mSkipFrame' > INITIAL_SKIP_FRAME
      BY <3>1, <3>2, <3>3, SumGrows
    <3>5. QED
      BY <3>1, <3>4
  <2>3. CASE GetPreviewReset
    <3>1. PICK r \in ResetPreview(cam) :
            /\ tpc' = CASE r.ret < 0 -> "top"
                        [] r.ret = 0 -> "skip"
                        [] OTHER     -> "dequeueFrame"
            /\ sinceStart' = IF r.ret < 0 THEN sinceStart ELSE 0
            /\ restarted' = (restarted \/ ~(r.ret < 0))
      BY <2>3 DEF GetPreviewReset
    <3>2. ~restarted /\ r.ret < 0
      BY <3>1
    <3>3. UNCHANGED <<sinceStart, mSkipFrame>> /\ tpc' = "top"
      BY <2>3, <3>1, <3>2 DEF GetPreviewReset
    <3>4. QED
      BY <3>2, <3>3, <2>kept
  <2>4. CASE GetPreviewDequeue
    <3>1. UNCHANGED <<mSkipFrame, restarted>>
      BY <2>4 DEF GetPreviewDequeue
    <3>2. \/ tpc' = "top" /\ UNCHANGED sinceStart
          \/ sinceStart' = IF sinceStart > INITIAL_SKIP_FRAME
                             THEN sinceStart ELSE sinceStart + 1
      BY <2>4 DEF GetPreviewDequeue
    <3>3. QED
      BY <3>1, <3>2, <2>kept DEF CountsOK
  <2>5. CASE /\ UNCHANGED <<sinceStart, mSkipFrame, restarted>>
             /\ tpc' = "skip" => tpc = "skip"
    BY <2>5, <2>kept
  <2>6. CASE Reopen
    BY <2>6 DEF Reopen, WillTake
  <2>7. QED
    BY <1>2, <2>1, <2>2, <2>3, <2>4, <2>5, <2>6
    DEF Next, ClientCalls, ClientSteps, ThreadSteps, SpuriousWake, vars,
        threadOnly, frameVars, threadVars, SignalPreview, StopAndWait,
        StartAlloc, ReleaseFree, ThreadCheck, ThreadExitCheck,
        CallStartPreview, CallStopPreview, CallSetPreviewWindow,
        CallRelease, StartPreviewLocked, StopPreviewLocked, StopWoken,
        SetPreviewWindowLocked, ConfigureWindow, ReleaseSignal, ReleaseJoin,
        ThreadBegin, ThreadLock, ThreadWait, GetPreview,
        TestWindow, DequeueBuffer, CopyFrame, EnqueueBuffer, FrameCallback
<1>3. QED
  BY <1>1, <1>2

\* No early frame gets past SkipFrame, and no later step makes one early.
LEMMA SkipHonouredStep ==
  ASSUME ~SpuriousWakeups, FlagsOK, CountsOK, PlacesOK, Handshake, SkipsLeft,
         SkipHonoured, [Next]_vars
  PROVE  SkipHonoured'
<1> DEFINE Shown == {"window", "dequeue", "copy", "enqueue", "callback"}
<1>1. CASE Reopen
  BY <1>1 DEF Reopen, SkipHonoured
<1>2. CASE StartDriver
  <2>1. parked => tpc' \in {"waiting", "crashed"}
    BY <1>2 DEF StartDriver, SetSkipFrame, Handshake, threadVars
  <2>2. parked' = parked
    BY <1>2 DEF StartDriver, SetSkipFrame, threadVars
  <2>3. QED
    BY <2>1, <2>2 DEF SkipHonoured, FlagsOK
<1>3. CASE SkipFrame
  <2>1. CASE mSkipFrame > 0
    BY <1>3, <2>1 DEF SkipFrame, SkipThisFrame, SkipHonoured
  <2>2. CASE ~(mSkipFrame > 0)
    <3>1. tpc = "skip"
      BY <1>3 DEF SkipFrame
    <3>2. parked /\ ~restarted => sinceStart > INITIAL_SKIP_FRAME
      BY <2>2, <3>1 DEF CountsOK, SkipsLeft, WillTake, FramePCs
    <3>3. UNCHANGED <<parked, sinceStart, restarted>>
      BY <1>3 DEF SkipFrame, SkipThisFrame, threadOnly
    <3>4. QED
      BY <3>2, <3>3 DEF SkipHonoured
  <2>3. QED
    BY <2>1, <2>2
<1>4. CASE GetPreviewReset \/ GetPreviewDequeue
  <2>1. tpc' \notin Shown
    BY <1>4 DEF GetPreviewReset, GetPreviewDequeue
  <2>2. QED
    BY <2>1 DEF SkipHonoured
<1>5. CASE /\ UNCHANGED <<sinceStart, restarted>>
           /\ parked' /\ tpc' \in Shown => parked /\ tpc \in Shown
  BY <1>5 DEF SkipHonoured
<1>6. QED
  BY <1>1, <1>2, <1>3, <1>4, <1>5
  DEF Next, ClientCalls, ClientSteps, ThreadSteps, SpuriousWake, vars,
      threadOnly, flagVars, threadVars, frameVars, clientVars, Return,
      SignalPreview, SignalStopped, StopAndWait, StartAlloc, ReleaseFree, SetEffect,
      ThreadCheck, StopCamera, ThreadExitCheck,
      CallStartPreview, CallStopPreview, CallSetPreviewWindow, CallRelease,
      StartPreviewLocked, ClientLocks, StopPreviewLocked, StopWoken,
      SetPreviewWindowLocked, ConfigureWindow, ReleaseSignal, ReleaseJoin,
      ThreadBegin, ThreadLock, ThreadWait, GetPreview,
      TestWindow, DequeueBuffer, CopyFrame, EnqueueBuffer, FrameCallback

-----------------------------------------------------------------------------
\* The strengthened invariant of the last three parts together.
PreviewInv == TypeOK /\ MutualExclusion /\ Handshake /\ HeapKept
                /\ SkipsLeft /\ SkipHonoured

\* The invariant holds in every reachable state.
LEMMA PreviewInvHolds ==
  ASSUME ~SpuriousWakeups
  PROVE  Spec => []PreviewInv
<1>1. Init => Handshake /\ HeapKept /\ SkipsLeft /\ SkipHonoured
  BY DEF Init, Handshake, FramesOnlyWhenTold, HeapKept, SkipsLeft, SkipHonoured,
         FramePCs, OnItsWay, WillTake
<1>2. /\ TypeOK /\ MutualExclusion
      /\ Handshake /\ HeapKept /\ SkipsLeft /\ SkipHonoured
      /\ [Next]_vars
      => Handshake' /\ HeapKept' /\ SkipsLeft' /\ SkipHonoured'
  BY TypeParts, HandshakeStep, HeapStep, SkipsStep, SkipHonouredStep
<1>3. QED
  BY <1>1, <1>2, TypeCorrect, MutexHolds, PTL DEF Spec, PreviewInv

\* stopPreview() means it: the thread works on frames only while preview is
\* going or somebody waits for it to stop.
THEOREM FramesOnlyWhenToldHolds ==
  ASSUME ~SpuriousWakeups
  PROVE  Spec => []FramesOnlyWhenTold
<1>1. PreviewInv => FramesOnlyWhenTold
  BY DEF PreviewInv, Handshake
<1>2. QED
  BY <1>1, PreviewInvHolds, PTL

\* The client never starts the driver while the thread is inside it.
THEOREM DriverExclusiveHolds ==
  ASSUME ~SpuriousWakeups
  PROVE  Spec => []DriverExclusive
<1>1. PreviewInv => DriverExclusive
  BY DEF PreviewInv, Handshake, DriverExclusive, FramePCs
<1>2. QED
  BY <1>1, PreviewInvHolds, PTL

\* The heap is not taken from a frame: the thread reads and hands out the one the
\* start allocated, or the NULL it got instead of one.
THEOREM HeapSafeHolds ==
  ASSUME ~SpuriousWakeups
  PROVE  Spec => []HeapSafe
<1>1. PreviewInv => HeapSafe
  BY DEF PreviewInv, TypeOK, HeapKept, WillTake, HeapSafe, FramePCs
<1>2. QED
  BY <1>1, PreviewInvHolds, PTL

\* The first frames after a start are shown to nobody, unless getPreview() has
\* restarted the sensor by itself since.
THEOREM SkipHonouredHolds ==
  ASSUME ~SpuriousWakeups
  PROVE  Spec => []SkipHonoured
<1>1. PreviewInv => SkipHonoured
  BY DEF PreviewInv
<1>2. QED
  BY <1>1, PreviewInvHolds, PTL

\* The window tested is the window used, for a client that sets windows only
\* while preview is not going.
THEOREM WindowSafeHolds ==
  ASSUME ~SpuriousWakeups, ~LiveWindowChange
  PROVE  Spec => []WindowSafe
<1>1. Init => WindowSafe
  BY DEF Init, WindowSafe
<1>2. PreviewInv /\ WindowSafe /\ [Next]_vars => WindowSafe'
  BY TypeParts, WindowStep DEF PreviewInv
<1>3. QED
  BY <1>1, <1>2, PreviewInvHolds, PTL DEF Spec

-----------------------------------------------------------------------------
(* The refinement.  One fact that is not visible in the promise is needed: a *)
(* client in setPreviewWindow() has a window and found preview not going, so *)
(* that its call only makes a start good.  A process that dies of a refused  *)
(* heap leaves its frame unfinished for ever, which the promise allows.      *)

WindowCall ==
  /\ cpc \in {"stopWait", "stopWoken"} => call = "stopPreview"
  /\ \/ cpc = "lock" /\ call = "setPreviewWindow"
     \/ cpc = "configure"
     => mPreviewWindow # NoWindow /\ ~Going

PromiseInv == PreviewInv /\ WindowCall

\* The client sets a window only while preview is not going, and nobody else
\* starts it meanwhile.
LEMMA WindowCallStep ==
  ASSUME ~SpuriousWakeups, ~LiveWindowChange, FlagsOK, PlacesOK, Handshake,
         WindowCall, [Next]_vars
  PROVE  WindowCall'
<1> USE DEF FlagsOK, Handshake, Going, WindowCall, flagVars, clientVars,
            threadVars, threadOnly, Return, SignalPreview, SignalStopped
<1>1. CASE ClientCalls
  <2>1. CASE CallStartPreview
    BY <2>1 DEF CallStartPreview
  <2>2. CASE CallStopPreview
    BY <2>2 DEF CallStopPreview
  <2>3. CASE CallRelease
    BY <2>3 DEF CallRelease
  <2>4. CASE Reopen
    BY <2>4 DEF Reopen
  <2>effect. CASE SetEffect
    BY <2>effect DEF SetEffect, SetSkipFrame
  <2>5. ASSUME NEW w \in Windows \cup {NoWindow}, CallSetPreviewWindow(w)
        PROVE  WindowCall'
    BY <2>5 DEF CallSetPreviewWindow
  <2>6. QED
    BY <1>1, <2>1, <2>2, <2>3, <2>4, <2>effect, <2>5
    DEF ClientCalls
<1>2. CASE ClientSteps
  <2>1. CASE StartPreviewLocked
    BY <2>1 DEF StartPreviewLocked, ClientLocks
  <2>2. CASE StartDriver
    BY <2>2 DEF StartDriver, SetSkipFrame
  <2>3. CASE StartAlloc
    BY <2>3 DEF StartAlloc
  <2>4. CASE StopPreviewLocked
    BY <2>4 DEF StopPreviewLocked, ClientLocks, StopAndWait
  <2>5. CASE StopWoken
    BY <2>5 DEF StopWoken
  <2>6. CASE SetPreviewWindowLocked
    BY <2>6 DEF SetPreviewWindowLocked, ClientLocks, StopAndWait
  <2>7. CASE ConfigureWindow
    BY <2>7 DEF ConfigureWindow
  <2>8. CASE ReleaseSignal
    BY <2>8 DEF ReleaseSignal
  <2>9. CASE ReleaseJoin
    BY <2>9 DEF ReleaseJoin
  <2>10. CASE ReleaseFree
    BY <2>10 DEF ReleaseFree
  <2>11. QED
        BY <1>2, <2>1, <2>2, <2>3, <2>4, <2>5, <2>6, <2>7, <2>8, <2>9, <2>10
    DEF ClientSteps
<1>3. CASE ThreadSteps
  <2>1. CASE ThreadBegin
    BY <2>1 DEF ThreadBegin
  <2>2. CASE ThreadLock
    BY <2>2 DEF ThreadLock
  <2>3. CASE ThreadCheck
    BY <2>3 DEF ThreadCheck, StopCamera
  <2>4. CASE ThreadWait
    BY <2>4 DEF ThreadWait
  <2>5. CASE ThreadExitCheck
    BY <2>5 DEF ThreadExitCheck, StopCamera
  <2>6. CASE GetPreview
    BY <2>6 DEF GetPreview
  <2>7. CASE GetPreviewReset
    BY <2>7 DEF GetPreviewReset
  <2>8. CASE GetPreviewDequeue
    BY <2>8 DEF GetPreviewDequeue
  <2>9. CASE SkipFrame
    BY <2>9 DEF SkipFrame, SkipThisFrame, IfFaulty
  <2>10. CASE TestWindow
    BY <2>10 DEF TestWindow
  <2>11. CASE DequeueBuffer
    BY <2>11 DEF DequeueBuffer
  <2>12. CASE CopyFrame
    BY <2>12 DEF CopyFrame
  <2>13. CASE EnqueueBuffer
    BY <2>13 DEF EnqueueBuffer
  <2>14. CASE FrameCallback
    BY <2>14 DEF FrameCallback
  <2>15. QED
        BY <1>3, <2>1, <2>2, <2>3, <2>4, <2>5, <2>6, <2>7, <2>8, <2>9, <2>10,
       <2>11, <2>12, <2>13, <2>14
    DEF ThreadSteps
<1>4. CASE SpuriousWake
  BY <1>4 DEF SpuriousWake
<1>5. CASE UNCHANGED vars
  BY <1>5 DEF vars
<1>6. QED
  BY <1>1, <1>2, <1>3, <1>4, <1>5 DEF Next

\* Every step of client and thread is a step of the promise, or changes nothing
\* the client can see.
LEMMA PromiseStep ==
  ASSUME ~SpuriousWakeups, ~LiveWindowChange, FlagsOK, PlacesOK,
         MutualExclusion, Handshake, WindowCall, [Next]_vars
  PROVE  [Promise!Next]_(Promise!vars)
<1> USE DEF FlagsOK, MutualExclusion, Handshake, FramesOnlyWhenTold, OnItsWay,
            WindowCall, Going, FramePCs, preview, busy,
            flagVars, clientVars, threadVars, threadOnly, Return,
            SignalPreview, SignalStopped,
            Promise!Next, Promise!vars
<1>alive. ClientCalls \/ ClientSteps => tpc # "crashed"
  BY DEF ClientCalls, ClientSteps, Alive
<1>1. CASE ClientCalls
  <2>1. CASE CallStartPreview
    BY <2>1 DEF CallStartPreview
  <2>2. CASE CallStopPreview
    BY <2>2 DEF CallStopPreview
  <2>3. CASE CallRelease
    BY <2>3 DEF CallRelease, Promise!Close
  <2>4. CASE Reopen
    BY <2>4 DEF Reopen, Promise!Reopen
  <2>effect. CASE SetEffect
    BY <2>effect DEF SetEffect, SetSkipFrame, frameVars
  <2>5. ASSUME NEW w \in Windows \cup {NoWindow}, CallSetPreviewWindow(w)
        PROVE  [Promise!Next]_(Promise!vars)
    BY <2>5, <1>alive, <1>1 DEF CallSetPreviewWindow, Promise!SetWindow
  <2>6. QED
    BY <1>1, <2>1, <2>2, <2>3, <2>4, <2>effect, <2>5
    DEF ClientCalls
<1>2. CASE ClientSteps
  <2>1. CASE StartPreviewLocked
    <3>1. UNCHANGED <<busy, mPreviewWindow>>
      BY <2>1 DEF StartPreviewLocked
    <3>2. CASE mPreviewRunning
      BY <2>1, <3>1, <3>2 DEF StartPreviewLocked, ClientLocks
    <3>3. CASE ~mPreviewRunning
      <4>1. preview = "off"
        BY <2>1, <3>3 DEF StartPreviewLocked, ClientLocks
      <4>2. preview' = IF mPreviewWindow = NoWindow THEN "deferred" ELSE "starting"
        BY <2>1, <3>3 DEF StartPreviewLocked, ClientLocks
      <4>3. ~busy
        BY <2>1, <3>3, <1>alive, <1>2 DEF StartPreviewLocked, ClientLocks
      <4>4. QED
        BY <3>1, <4>1, <4>2, <4>3 DEF Promise!Start
    <3>4. QED
      BY <3>2, <3>3
  <2>2. CASE StartDriver
    BY <2>2, <1>alive, <1>2 DEF StartDriver, SetSkipFrame, Promise!Started
  <2>3. CASE StartAlloc
    BY <2>3, <1>alive, <1>2 DEF StartAlloc, Promise!Started
  <2>4. CASE StopPreviewLocked
    BY <2>4 DEF StopPreviewLocked, ClientLocks, StopAndWait, Promise!Stop
  <2>5. CASE StopWoken
    BY <2>5 DEF StopWoken
  <2>6. CASE SetPreviewWindowLocked
    BY <2>6 DEF SetPreviewWindowLocked, ClientLocks, StopAndWait
  <2>7. CASE ConfigureWindow
    <3>1. UNCHANGED <<busy, mPreviewWindow>>
      BY <2>7 DEF ConfigureWindow
    <3>2. CASE cpc' = "driver"
      <4>1. preview = "deferred" /\ ~busy /\ mPreviewWindow # NoWindow
        BY <2>7, <3>2, <1>alive, <1>2 DEF ConfigureWindow
      <4>2. preview' = "starting"
        BY <3>2
      <4>3. QED
        BY <3>1, <4>1, <4>2 DEF Promise!MakeGood
    <3>3. CASE cpc' = "idle"
      BY <2>7, <3>1, <3>3 DEF ConfigureWindow
    <3>4. QED
      BY <2>7, <3>2, <3>3 DEF ConfigureWindow
  <2>8. CASE ReleaseSignal
    BY <2>8 DEF ReleaseSignal
  <2>9. CASE ReleaseJoin
    BY <2>9 DEF ReleaseJoin, Promise!Closed
  <2>10. CASE ReleaseFree
    BY <2>10 DEF ReleaseFree
  <2>11. QED
        BY <1>2, <2>1, <2>2, <2>3, <2>4, <2>5, <2>6, <2>7, <2>8, <2>9, <2>10
    DEF ClientSteps
<1>3. CASE ThreadSteps
  <2>1. CASE ThreadBegin
    BY <2>1 DEF ThreadBegin
  <2>2. CASE ThreadLock
    BY <2>2 DEF ThreadLock
  <2>3. CASE ThreadCheck
    BY <2>3 DEF ThreadCheck, StopCamera, Promise!Stopped, Promise!BeginFrame
  <2>4. CASE ThreadWait
    BY <2>4 DEF ThreadWait
  <2>5. CASE ThreadExitCheck
    BY <2>5 DEF ThreadExitCheck, StopCamera
  <2>6. CASE GetPreview
    BY <2>6 DEF GetPreview
  <2>7. CASE GetPreviewReset
    BY <2>7 DEF GetPreviewReset, Promise!EndFrame
  <2>8. CASE GetPreviewDequeue
    BY <2>8 DEF GetPreviewDequeue, Promise!EndFrame
  <2>9. CASE SkipFrame
    BY <2>9 DEF SkipFrame, SkipThisFrame, IfFaulty, Promise!EndFrame
  <2>10. CASE TestWindow
    BY <2>10 DEF TestWindow
  <2>11. CASE DequeueBuffer
    BY <2>11 DEF DequeueBuffer
  <2>12. CASE CopyFrame
    BY <2>12 DEF CopyFrame
  <2>13. CASE EnqueueBuffer
    BY <2>13 DEF EnqueueBuffer
  <2>14. CASE FrameCallback
    BY <2>14 DEF FrameCallback, Promise!EndFrame
  <2>15. QED
        BY <1>3, <2>1, <2>2, <2>3, <2>4, <2>5, <2>6, <2>7, <2>8, <2>9, <2>10,
       <2>11, <2>12, <2>13, <2>14
    DEF ThreadSteps
<1>4. CASE SpuriousWake
  BY <1>4 DEF SpuriousWake
<1>5. CASE UNCHANGED vars
  BY <1>5 DEF vars
<1>6. QED
  BY <1>1, <1>2, <1>3, <1>4, <1>5 DEF Next

\* The client and the preview thread together implement PreviewPromise, for a
\* client that sets windows only while preview is not going.
THEOREM KeepsPromiseHolds ==
  ASSUME ~SpuriousWakeups, ~LiveWindowChange
  PROVE  Spec => KeepsPromise
<1>1. Init => WindowCall
  BY DEF Init, WindowCall
<1>2. PreviewInv /\ WindowCall /\ [Next]_vars => WindowCall'
  BY TypeParts, WindowCallStep DEF PreviewInv
<1>3. Spec => []PromiseInv
  BY <1>1, <1>2, PreviewInvHolds, PTL DEF Spec, PromiseInv
<1>4. Init => Promise!Init
  BY DEF Init, Promise!Init, preview, busy
<1>5. PromiseInv /\ [Next]_vars => [Promise!Next]_(Promise!vars)
  BY TypeParts, PromiseStep DEF PromiseInv, PreviewInv
<1>6. QED
  BY <1>3, <1>4, <1>5, PTL DEF Spec, KeepsPromise, Promise!Spec

-----------------------------------------------------------------------------
(* The sensor when nobody wants it, as long as the driver does what it is    *)
(* told.  The invariant keeps the flag of SecCamera with the stream it stands *)
(* for, and the node open until release() has closed it; a thread that is at *)
(* its wait finds the camera off unless preview is going, or the client, in  *)
(* startPreviewInternal(), has just turned it on and is about to wake it.    *)

Off(c) == ~c.started /\ ~c.streaming
Sound(c) == (c.init => c.fd) /\ (c.streaming => c.started)

IdleInv ==
  /\ Sound(cam)
  /\ cpc # "released" => cam.fd
  /\ cpc \in {"freeAll", "released"} => tpc = "exited"
  /\ cpc \in {"driver", "alloc"} => mPreviewRunning
  /\ tpc \in {"park", "waiting"} /\ cpc # "alloc" => Off(cam) \/ Going

\* initCamera(): the node is open.
LEMMA InitCameraSound ==
  ASSUME ~DriverFaults, NEW c \in Camera, Sound(c), NEW r \in InitCamera(c)
  PROVE  Sound(r.cam) /\ r.cam.fd
<1>1. r = Result(0, IF c.init THEN c
                    ELSE [c EXCEPT !.init = TRUE, !.fd = TRUE, !.fd2 = TRUE])
  BY DEF InitCamera, IfFaulty
<1>2. QED
  BY <1>1 DEF Result, Camera, Sound

\* startPreview() on an open node succeeds.
LEMMA StartPreviewSound ==
  ASSUME ~DriverFaults, NEW c \in Camera, Sound(c), c.fd, NEW r \in StartPreview(c)
  PROVE  Sound(r.cam) /\ r.cam.fd /\ r.ret = 0
<1>1. r = Result(0, IF c.started THEN c
                    ELSE [c EXCEPT !.started = TRUE, !.streaming = TRUE])
  BY DEF StartPreview, IfFaulty
<1>2. QED
  BY <1>1 DEF Result, Camera, Sound

\* stopPreview() on an open node turns the sensor off.
LEMMA StopPreviewSound ==
  ASSUME ~DriverFaults, NEW c \in Camera, Sound(c), c.fd, NEW r \in StopPreview(c)
  PROVE  Sound(r.cam) /\ r.cam.fd /\ Off(r.cam)
<1>1. r = Result(0, IF c.started THEN [c EXCEPT !.started = FALSE, !.streaming = FALSE]
                    ELSE c)
  BY DEF StopPreview, IfFaulty
<1>2. QED
  BY <1>1 DEF Result, Camera, Sound, Off

\* The reset of getPreview(), without failures, only stops.
LEMMA ResetPreviewSound ==
  ASSUME ~DriverFaults, NEW c \in Camera, Sound(c), c.fd, NEW r \in ResetPreview(c)
  PROVE  Sound(r.cam) /\ r.cam.fd
<1>1. PICK s \in StopPreview(c) : r = Result(-1, s.cam)
  BY DEF ResetPreview, IfFaulty
<1>2. QED
  BY <1>1, StopPreviewSound, ResultFields

\* DeinitCamera() ends the stream.
LEMMA DeinitCameraSound ==
  ASSUME NEW c \in Camera, Sound(c), NEW d \in DeinitCamera(c)
  PROVE  Sound(d)
<1>1. CASE ~c.init
  BY <1>1 DEF DeinitCamera
<1>2. CASE c.init
  <2>1. PICK r \in StopRecord(c) :
          d = [r.cam EXCEPT !.init = FALSE, !.fd = FALSE, !.fd2 = FALSE,
                            !.streaming = FALSE, !.recStreaming = FALSE]
    BY <1>2 DEF DeinitCamera
  <2>2. r.cam \in Camera
    BY StopRecordType, ReplyFields
  <2>3. QED
    BY <2>1, <2>2 DEF Camera, Sound
<1>3. QED
  BY <1>1, <1>2

\* With no failing driver call, the camera is off before it is used.
LEMMA IdleInit ==
  ASSUME ~DriverFaults, Init
  PROVE  IdleInv
<1>1. PICK r \in InitCamera(NewCamera) : cam = r.cam
  BY DEF Init
<1>2. Sound(NewCamera) /\ NewCamera \in Camera
  BY NewCameraType DEF NewCamera, Sound
<1>3. QED
  BY <1>1, <1>2, InitCameraSound DEF Init, IdleInv

\* Every step of client and thread keeps it, spurious wakeups included.
LEMMA IdleStep ==
  ASSUME ~DriverFaults, cam \in Camera, MutualExclusion, IdleInv, [Next]_vars
  PROVE  IdleInv'
<1> USE DEF clientVars, threadVars, flagVars, threadOnly, Return, Going, SignalPreview,
            SignalStopped
<1>1. CASE Reopen
  <2>1. PICK r \in InitCamera(cam) : cam' = r.cam
    BY <1>1 DEF Reopen
  <2>2. QED
    BY <1>1, <2>1, InitCameraSound DEF Reopen, IdleInv
<1>2. CASE StartDriver
  <2>1. PICK r \in StartPreview(cam) :
          cam' = r.cam /\ (~(r.ret < 0) => cpc' = "alloc")
    BY <1>2 DEF StartDriver
  <2>2. cam.fd
    BY <1>2 DEF StartDriver, IdleInv
  <2>3. Sound(cam') /\ cam'.fd /\ cpc' = "alloc"
    BY <2>1, <2>2, StartPreviewSound DEF IdleInv
  <2>4. mPreviewRunning /\ UNCHANGED <<tpc, mPreviewRunning>>
    BY <1>2 DEF StartDriver, IdleInv
  <2>5. QED
    BY <2>3, <2>4 DEF IdleInv
<1>3. CASE ReleaseFree
  <2>1. Sound(cam') /\ cpc = "freeAll" /\ cpc' = "released" /\ tpc' = tpc
    BY <1>3, DeinitCameraSound DEF ReleaseFree, IdleInv
  <2>2. QED
    BY <2>1 DEF IdleInv
<1>4. CASE ThreadCheck
  <2>1. cpc # "released" /\ cam.fd
    BY <1>4 DEF ThreadCheck, IdleInv
  <2>2. CASE mPreviewRunning
    BY <1>4, <2>2 DEF ThreadCheck, IdleInv
  <2>3. CASE ~mPreviewRunning
    <3>1. Sound(cam') /\ cam'.fd /\ Off(cam')
      BY <1>4, <2>1, <2>3, StopPreviewSound DEF ThreadCheck, StopCamera, IdleInv
    <3>2. cpc' = cpc \/ cpc' = "stopWoken"
      BY <1>4, <2>3 DEF ThreadCheck
    <3>3. cpc \notin {"freeAll", "released", "driver", "alloc"}
      BY <1>4, <2>3 DEF ThreadCheck, IdleInv
    <3>4. QED
      BY <3>1, <3>2, <3>3 DEF IdleInv
  <2>4. QED
    BY <2>2, <2>3
<1>5. CASE ThreadExitCheck
  <2>1. cam.fd /\ cpc \notin {"freeAll", "released"}
    BY <1>5 DEF ThreadExitCheck, IdleInv
  <2>2. Sound(cam') /\ cam'.fd
    BY <1>5, <2>1, StopPreviewSound DEF ThreadExitCheck, StopCamera, IdleInv
  <2>3. QED
    BY <1>5, <2>1, <2>2 DEF ThreadExitCheck, IdleInv
<1>6. CASE GetPreviewReset
  <2>1. cam.fd /\ cpc \notin {"freeAll", "released"}
    BY <1>6 DEF GetPreviewReset, IdleInv
  <2>2. PICK r \in ResetPreview(cam) :
          cam' = r.cam /\ tpc' \in {"top", "skip", "dequeueFrame"}
    BY <1>6 DEF GetPreviewReset
  <2>3. Sound(cam') /\ cam'.fd
    BY <2>1, <2>2, ResetPreviewSound DEF IdleInv
  <2>4. QED
    BY <1>6, <2>1, <2>2, <2>3 DEF GetPreviewReset, IdleInv
<1>7. CASE CallRelease \/ ReleaseSignal \/ ReleaseJoin
  BY <1>7 DEF CallRelease, ReleaseSignal, ReleaseJoin, IdleInv
<1>8. CASE CallStartPreview \/ CallStopPreview \/ SetEffect
             \/ \E w \in Windows \cup {NoWindow} : CallSetPreviewWindow(w)
  BY <1>8 DEF CallStartPreview, CallStopPreview, CallSetPreviewWindow, SetEffect, IdleInv
<1>9. CASE StartPreviewLocked
  BY <1>9 DEF StartPreviewLocked, ClientLocks, IdleInv
<1>10. CASE StartAlloc
  BY <1>10 DEF StartAlloc, IdleInv, MutualExclusion
<1>11. CASE StopPreviewLocked \/ SetPreviewWindowLocked
  BY <1>11 DEF StopPreviewLocked, SetPreviewWindowLocked, ClientLocks, StopAndWait,
               IdleInv, MutualExclusion
<1>12. CASE StopWoken \/ ConfigureWindow
  BY <1>12 DEF StopWoken, ConfigureWindow, IdleInv
<1>13. CASE ThreadBegin \/ ThreadLock \/ ThreadWait \/ SpuriousWake
  BY <1>13 DEF ThreadBegin, ThreadLock, ThreadWait, SpuriousWake, IdleInv
<1>14. CASE GetPreview \/ GetPreviewDequeue \/ SkipFrame \/ TestWindow \/ DequeueBuffer
              \/ CopyFrame \/ EnqueueBuffer \/ FrameCallback
  BY <1>14 DEF GetPreview, GetPreviewDequeue, SkipFrame, TestWindow, DequeueBuffer,
               CopyFrame, EnqueueBuffer, FrameCallback, IfFaulty, IdleInv
<1>15. CASE UNCHANGED vars
  BY <1>15 DEF vars, IdleInv
<1>16. QED
  BY <1>1, <1>2, <1>3, <1>4, <1>5, <1>6, <1>7, <1>8, <1>9, <1>10, <1>11, <1>12, <1>13,
     <1>14, <1>15
  DEF Next, ClientCalls, ClientSteps, ThreadSteps

\* A driver that does what it is told leaves no sensor streaming behind a preview that
\* is off: not after a window that failed with the mutex held, nor after a wait that
\* returned early, nor in the camera that release() leaves for the next open().
THEOREM CameraOffWhenIdleHolds ==
  ASSUME ~DriverFaults
  PROVE  Spec => []CameraOffWhenIdle
<1>1. Init => IdleInv
  BY IdleInit
<1>2. TypeOK /\ MutualExclusion /\ IdleInv /\ [Next]_vars => IdleInv'
  BY IdleStep, TypeParts
<1>3. TypeOK /\ MutualExclusion /\ IdleInv => CameraOffWhenIdle
  BY DEF IdleInv, Off, Going, CameraOffWhenIdle, MutualExclusion
<1>4. QED
  BY <1>1, <1>2, <1>3, TypeCorrect, MutexHolds, PTL DEF Spec
=============================================================================
