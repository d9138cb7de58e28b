# Verification of the Samsung "venturi" hardware abstraction layers

This directory is a TLA+ development about the device tree in `src/`: the C++
and C code, run inside Android's media server, that drives the camera and the
audio hardware of the Samsung Galaxy S WiFi 4.0/5.0.  Modules (`*.tla`) model the
components that have threads, locks and failing drivers; TLC configurations
(`*.cfg`) check them on small instances; `*_proofs.tla` prove theorems for every
value of the constants.  `PROJECT.json` maps each definition to the lines it
stands for.  File names below are relative to `src/`.

## 1. Inventory

**Camera HAL, preview** (`libcamera/SecCameraHWInterface.cpp`, class
`CameraHardwareSec`).  State: `mPreviewRunning`, `mPreviewStartDeferred`,
`mExitPreviewThread`, `mPreviewWindow`, `mPreviewHeap`, `mSkipFrame`, one mutex
`mPreviewLock` and two condition variables.  Operations: `startPreview`,
`stopPreview`, `setPreviewWindow`, `release`, called one at a time by
CameraService, and the loop of the preview thread.  They interact by shared
memory and by a stop-and-wait handshake (the client clears the flag and waits;
the thread stops the sensor and signals).  Hard: the thread works on frames
*without* the mutex, so the handshake alone keeps it off the driver, the heap
and the window.  Correct if: no frame work after a stop has returned, no overlap
in the driver, heap and window not taken away while used, no frame shown before the
sensor has settled after a start, and no stop, start or release that waits for ever.

**Camera HAL, still capture.**  State: `mCaptureInProgress` under
`mCaptureLock`, `mRawHeap`, the picture thread.  Operations: `takePicture`,
`cancelPicture`, `startPreview` (which waits for the flag), `release`, and the
picture thread with its callbacks.  Hard: the flag is set after the thread has
been started; the thread takes the preview node over; a wait times out after
five seconds; early returns with the snapshot buffer mapped.

**Camera HAL, auto focus.**  A thread that sleeps until `autoFocus()` signals it
(without the mutex), drives the lens and calls back; `cancelAutoFocus()` talks
to the sensor only.  Hard: lost signals, late cancels, a release that must wake
the sleeper.

**Camera HAL, recording.**  State: `mRecordRunning` and `mRecordHeap` under
`mRecordLock`, the message mask, and the buffers of a second node, each queued in
the driver, with the preview thread or lent to the encoder.  Operations:
`startRecording`, `stopRecording`, `releaseRecordingFrame`, and the second half of
`previewThread`.  Hard: buffers are given back without the lock, by another
thread, perhaps after a stop; the preview thread waits in the driver with the
lock held; each error path may drop a buffer.  Correct if: a buffer is in one
place at a time, none is dropped, the driver gets none it does not expect, no
frame comes after a stop, and a stop returns.

**Camera HAL, parameters** (`setParameters`, `initDefaultParameters`,
`SecCameraUtils`).  State: `mParameters`, which the client reads back; the
settings `SecCamera` has stored, which outlive the HAL object; what the sensor was
last told; and the frame size, which is also that of `mPreviewHeap` and of the
window's buffers.  Hard: a setter stores a value whether or not it is sent, and
sends it only if it differs and preview has started; `setParameters` goes on
after every failure, so a refused request leaves part of itself behind; a scene
decides on flash and focus; starting, stopping, resetting and recording change
settings as well.  Correct if: the sensor has what is stored, an accepted
request is read back whole, sizes agree while frames are taken, and the torch is
out when preview is.

**Camera HAL, device module**: the function table and message types.

**SecCamera** (`libcamera/SecCamera.cpp`): the V4L2 wrapper, a process-wide
object without any lock that outlives every HAL object.  State: two file
descriptors, flags for "initialised", "preview started", "recording started",
the mapped snapshot buffer.  Each operation is a sequence of ioctls with early
returns, so each failure leaves a state of its own.

**Audio HAL** (`libaudio/AudioHardware.cpp`): an output stream, input streams and
the device, each with a mutex, acquired in the order out, in, hw.  State: standby
flags and counters of the streams, a shared PCM and a shared mixer with reference
counts, the mode, the mute flag, the echo reference shared by the streams.
Operations: `write`, `read`, `standby`, `setParameters` of the streams; `setMode`,
`setMicMute`, opening and closing of streams on the device; adding and removing
effects.  Hard: a thread that needs a mutex of an earlier level gives up the ones
it has, retakes all, and must see whether what it had seen still holds; each
stream reopens the other; streams are reference-counted objects whose destructor
takes the same mutexes.  Also here: FM radio and the RIL client (a library from outside the
repository).

**Audio HAL, capture** (`AudioStreamInALSA`: `readFrames`, `processFrames`,
`pushEchoReference`, the resampler's buffer provider).  State: frames in
`mInputBuf`, in the down sampler, in `mProcBuf`, in the effects, in `mRefBuf`, each
with a count of its own, and the sizes of the memory.  All of it runs under the
input's mutex, but standbys, restarts and changes of the effects come between
reads.  Hard: a client asks for any number of frames, the driver delivers periods,
effects consume part of what they are offered and produce some other number; a
close frees memory and leaves counts, an open resets them.  Correct if: no frame
is lost, repeated or swapped, no count exceeds its memory, and a read returns.

**Recovery and LVM update scripts** (`recoverycheck.sh`, `updater.sh`,
`releasetools.py`).  State: the boot partition, the files of `/cache`, the LVM
volumes, the system partition, all persistent.  A zip installed from an old
recovery first writes a new one to the boot partition, leaves a script and a
marker in `/cache` and reboots; the new recovery runs the script and installs the
zip again.  Hard: the power may fail anywhere, a file may not be on flash yet, and
the scripts look at the result of hardly any command.  Correct if: only a new recovery touches the partitions, the marker that
skips the check is found by no other, and the installation gets done.

**Lights HAL** (`liblights/lights.c`), **recovery UI** (`recovery/`), **build-time
patches**, and init, policy and media configuration: see section 7.

## 2. Modules

| module | models | built on |
| --- | --- | --- |
| `SecCamera` | the V4L2 wrapper, as operators on one record | |
| `SecCamera_proofs` | what each operator returns, as lemmas | `SecCamera` |
| `PreviewPromise` | what a client is promised of preview: the abstract specification | |
| `CameraPreview` | preview: client and preview thread; refines `PreviewPromise` | `SecCamera`, `PreviewPromise` |
| `CameraPreview_proofs` | nine theorems about it | `CameraPreview`, `SecCamera_proofs` |
| `CameraCapture` | still capture: client and picture thread | `SecCamera` |
| `CameraFocus` | auto focus: client and focus thread | `SecCamera` |
| `CameraThreads` | the picture and the focus thread behind one client, and their end in `release()` | `CameraCapture`, `CameraFocus` |
| `CameraCapture_proofs` | eight theorems: five about still capture, two about auto focus, one about both threads | `CameraThreads`, `SecCamera_proofs` |
| `CameraRecording` | recording: client, preview thread and encoder | `SecCamera` |
| `CameraRecording_proofs` | six theorems about it | `CameraRecording`, `SecCamera_proofs` |
| `CameraParameters` | requests, settings and sizes, against all calls that change them | `SecCamera` |
| `CameraParameters_proofs` | five theorems about it | `CameraParameters` |
| `AudioHardware` | streams, device and locks; three threads | |
| `AudioHardware_proofs` | eight theorems about it | `AudioHardware` |
| `AudioCapture` | the way of captured frames through an input stream | |
| `AudioCapture_proofs` | four theorems about it | `AudioCapture` |
| `RecoveryUpdate` | the update scripts, with the power failing anywhere | |
| `RecoveryUpdate_proofs` | three theorems about it | `RecoveryUpdate` |

**How code becomes steps.**  Every module about threads is a set of them with a program
counter each (`cpc` the client's, `focusClient` in `CameraFocus`; `tpc`, `ppc`, `fpc` the
camera threads'; `pc` in `AudioHardware`).  A step is what a thread does between two points at which
another can see the difference: taking or releasing a mutex, waiting, a driver
call, a test of a variable that is not protected.  Within a critical section
nothing is cut unless somebody reads the same state without the mutex.  A
condition variable is a state "waiting" of the one thread that can wait on it;
a signal moves it to "woken", where it competes for the mutex, and is lost if
nobody waits.

**SecCamera.**  A record with the fields `init`, `fd`, `fd2`, `started`, `streaming`,
`recStarted`, `recStreaming`, `mapped`.  Each method is an operator that maps the
record to the *set* of (return value, record) pairs the code can produce: success
and, if `DriverFaults`, one outcome for each early return that leaves a different
state.  Callers choose with `\E`.  The odd branches of the source are kept:
`DeinitCamera` does not clear `m_flag_camera_start`; `getPreview`'s reset gives
up when the driver answers (`ResetPreview`); a failed restart returns 0, a valid
buffer index.

**CameraPreview.**  Variables carry the source's names.  `StartPreviewLocked`,
`StartDriver`, `StartAlloc` are `startPreview()`; `StopPreviewLocked`,
`StopAndWait`, `StopWoken` are `stopPreview()`; `SetPreviewWindowLocked` and
`ConfigureWindow` are `setPreviewWindow()`, whose four error returns leave the
mutex locked; `ReleaseSignal`, `ReleaseJoin`, `ReleaseFree` are `release()`.  The
thread's actions follow `previewThreadWrapper()` and the display half of
`previewThread()`.  `origin`, `parked`, `sinceStart` are history: the window a
dequeued buffer belongs to, whether the thread has once waited, the frames
dequeued since the sensor was started; `restarted` is history too: since
`startPreviewInternal()`, `getPreview()` has restarted the sensor itself, which
sets no count of frames to skip (`GetPreviewReset`).  `SetEffect` is the one thing
`setParameters()` does to this state, the skip count of a new effect.  The heap may
be refused (`HeapFaults`): nothing tests that, so preview starts, and the thread's
next copy is a crash (`tpc = "crashed"`), after which nobody moves (`Alive`).

**PreviewPromise** has no thread and no lock: preview is off, deferred, starting,
on, stopping, closing or gone, and a frame is taken or not (`busy`).  A frame
begins only while preview is on; a stop, or a close, is over only when none is under
way; the driver is started and the window changed only between frames.
`CameraPreview` defines `preview` from its flags and the client's program counter,
`busy` from the thread's, and `KeepsPromise` is `Promise!Spec` under that mapping,
with `mPreviewWindow` as the window.  The thread's frame is busy from its test of
`mExitPreviewThread`, not from the moment it touches the camera: that is as early
as the mapping needs, since a thread past the test will take a frame.

**CameraCapture** and **CameraFocus.**  Preview appears in the first only as the
state of the driver; what the preview thread may do meanwhile is what
`CameraPreview` establishes.  `SharedLock` says whether the client's callbacks
take a lock that is also held around HAL calls, as the comment at
`SecCameraHWInterface.cpp:838-845` has it of CameraService.  In the second, `asked` and
`answered` count requests and callbacks; of the camera it has only whether it is
open (`focusOpen`, `FocusFaults`).  **CameraThreads** composes the two: one client
makes one call at a time (`NoCall`), each call and each step of a thread is that
of its component with the other's state unchanged, and three steps belong to both:
`release()` joins the focus thread and goes on to the picture thread
(`ReleaseNextThread`), frees and closes (`ReleaseAll`), and the device is opened
again (`ReopenAll`).

**CameraRecording.**  `queued`, `frame`, `lent` and `back` say where each buffer is:
in the driver, dequeued by the preview thread, out with the client, or inside
`releaseRecordingFrame()` between its test of `m_flag_record_start` (`ReturnFrame`)
and the ioctl (`QueueReturned`).  `lost` are the buffers that nobody will queue in
this recording: a failed ioctl, an address the driver did not give
(`FillAddress`), frames the client forgot (`ForgetFrames`).  `unexpected` is history:
the driver was given a buffer while it was stopped or had that buffer.  The
section under `mRecordLock` is the thread's program counter (`Recording`); the
client's is one step.  Preview is `mPreviewRunning`, tested at the start of each
frame.  Dequeuing waits for a filled buffer, as V4L2 has it for a node opened
without `O_NONBLOCK` (`libcamera/SecCamera.cpp:603`).  `Serialised` says whether
CameraService's lock is also around `releaseRecordingFrame()`, `LateReturns` whether a
client may start to record with frames of the last recording still out.

**CameraParameters.**  Here the actions are whole calls: CameraService serialises
them, and that a stop has stopped the thread when it returns is what
`CameraPreview` shows.  `hal` is `mParameters`; `dev` is the `SecCamera` object with the
sensor (`stored` is `m_params`, `sensor` what was sent, `frames` the size the node was
started with).  `Put` is all the setters, which have one shape; `ApplyTo` is
`setParameters()` past its first tests, composed of what a scene asks for
(`AskedFor`), what some branch recognises (`Recognised`), and the three keys that
follow the scene (`FpsFor`, `FlashesFor`, the focus distances).  `bad` are the
ioctls that fail; `other` stands for one of the settings that are not modelled.
`StartSensor`, `StopSensor` and `StopRecorder` add to the operators of `SecCamera` what
those calls do to the settings.  `missed` is history: what the sensor should have
been told, but for a failure.  What the sensor was told before it stopped is
forgotten (`Idle`), except a burning torch, since a start sends everything again.

**AudioHardware.**  `audio` is a record of four: the streams `out` and `in`, the
device `hw`, and `chip`, the hardware controls that the code writes.  The device's
operators (`OpenPcm`, `CloseMixer`, `OpenOut`, `StandbyOut`, ...) map such a record
to a record or to a set of outcomes, and the threads' actions compose them as the
functions do.  `lock` says who holds which mutex; mutexes taken and released
within a step are not recorded but must be free.  `fresh` stands for the
comparison of `standbyCnt()` with the value `prepareLock()` returned: the threads
for which it would still be equal.  `cont` is the return address of the input's
`doStandby_l()`, which has lock operations in its middle.

**AudioCapture.**  A buffer is a sequence as long as its count says (`mProcBuf` has
`mProcFramesIn` frames), next to the size of its memory; `held` and `fx` are what the
down sampler and the effects keep.  A frame is its number, counted from the next
one `read()` has to return, so that numbers stay small: `Returns` renumbers what
remains.  `Lost` marks a frame that belongs to an earlier session or to none any
more, `Junk` memory that was freed or never written.  `read()` is cut at
`readFrames()`, `pushEchoReference()` and `process()`; other threads come in where
the mutex is free (`Unlocked`), as `AudioHardware` shows they do: `Standby`, `Restart`
(by `write()`), and the two halves of adding and removing an echo canceller (`ctl`).
The sampler library takes a frame in or gives one out as it likes, up to `Capacity`
inside it; the effects, together one processor, consume some of the frames they
are offered, hold up to `Capacity` and produce others, in order; `ProcessFails` is
their error, which nobody looks at.

**RecoveryUpdate.**  One program counter for whatever runs (`pc`), the persistent
state twice for `/cache` (as programs see it, and on flash), and one action per
command of the scripts.  `After` is the order of the commands.  `PowerFails` keeps
of each file the old or the new version, of the script a prefix, of a partition
being written nothing, the old or the new; a file system being made may be lost.
Commands fail as well (`Fault`).  Where the scripts do not look, the action goes on
with what the failure leaves: after a `dd` the old or a torn boot partition, after
the LVM commands a pool with parts missing (`pool` is the set of those there), after
a `reboot` the next line, which ends with `exit 0`.  `ignored` is history: one of
`dd` and `reboot`, the two that decide under which recovery the zip is installed,
has failed so (`IgnoredFault`).  An old recovery may or may not manage to install
the system.  `RunExtendedCommand` and `FormatCommand` are recovery's side, from the script that
`recoverycheck.sh` writes and the patch in `patches/bootable`.

## 3. What is checked

Passing runs:

| run | question | main bounds |
| --- | --- | --- |
| `preview` | Do client and thread together keep the promise of `PreviewPromise`, take neither heap nor window from under a frame, skip what a start and an effect ask for, and lose no stop or start, when driver calls fail and heaps are refused? | two windows, two openings, two skipped frames after a start and one after an effect |
| `preview_hostile` | Is the sensor still switched off when window calls fail, windows change during preview and waits return without a signal? | the same |
| `threads` | Does `mCaptureInProgress` keep preview and pictures apart, and are heap and snapshot buffer there when used and gone afterwards?  Is there one callback per focus request, is each accepted request answered, and does `release()` get both threads to end? | two openings, three focus requests each |
| `recording` | Is a buffer in one place at a time, is none dropped, does the driver get only buffers it expects, and does every call return while the driver has a buffer to fill? | two buffers, two openings |
| `parameters` | Do report, stored settings, sensor and sizes stay together under any order of requests, starts, stops, pictures, recordings and resets? | one changed key a request, one refused setting, two openings, two sizes |
| `audio` | Lock order, reference counts, wake lock, no write to a closed PCM, order of opening, mute | one stream each way, two routes, three modes |
| `audio_echo` | Does nobody use a freed echo reference, with an echo canceller and with streams closed under their users? | one route, no calls |
| `audio_capture` | Does each frame reach the client once and in order, through reads of several sizes, effects that come and go, standbys and failures; do counts fit the memory; does a read return; is a refused rate answered with one that is accepted? | periods of two frames, reads of one and three, two frames held back, eight rates |
| `recovery` | Unless `dd` or `reboot` fails unnoticed, does the marker speak only of the new recovery, and do old ones leave the partitions alone?  Does the installation get done, whatever fails? | four power failures or failing commands |

Runs that end in a violation, each a disagreement of code and comment:

| run | what happens |
| --- | --- |
| `preview_release` | `release()` signals without `mPreviewLock`; a thread between its test and its wait sleeps for ever, and `release()` with it |
| `capture_cancel` | a client that cancels a picture joins the picture thread with a lock held that its callback needs (`SharedLock`); what the comment at 838-845 avoids for auto focus |
| `audio_deadlock` | `setMode()` holds the output's mutex when the input's standby locks it |

Two more such disagreements need no run, since one line shows each: the reset in
`getPreview()` tests `fimc_v4l2_enuminput()` the wrong way round
(`SecCamera.cpp:994`), so that it gives up exactly when the driver answers and
preview stays stopped; and `autoFocus()` (`SecCameraHWInterface.cpp:898`) signals a
thread that may not be waiting, and leaves no trace.  Both are listed hazards.

Type invariants are proved for every value of the constants; only that of
`CameraParameters`, whose records are large, is also run.

**Why the bounds are enough.**  The camera modules have two threads and a state
that returns to its start after a few calls; what opening the device a second
time adds is the state that `SecCamera` keeps, hence `MaxOpens = 2`.  Two windows
tell "the same window" from "another one".  Two skipped frames separate "first",
"more" and "none left", and one after an effect is fewer, as in the code.  Three focus requests allow one in progress, one being
lost and one after both.  Two buffers let one be queued while the other is out, and
both be out; a run with three finds nothing else, and the theorems are for any
number.  In `CameraParameters` a request changes one key of the last report
(`MaxEdits`): several changes are several requests, since the properties are
invariants and each request meets all that the ones before it have left.  For
each key there is a default, another value and one that no branch knows; the
scenes are the neutral one, the one with a frame rate of its own, and an unknown
one; `effect` stands for the settings that are validated alone.  One refusal at a
time (`MaxFaults`), since failures of different settings do not meet.  Two sizes,
the defaults of the two cameras, and two openings, the second with what the
first has left in `SecCamera`.  `KeepsSize` is an assumption about the client: it
changes the size only while the sensor is stopped, for the code, which tests
that, reports an error and changes the size all the same
(`SecCameraHWInterface.cpp:1464-1484`).  In `AudioHardware` the only unbounded quantities, the
reference counts, are bounded by the three users there can be, which `RefCounts`
states.  The Boolean constants are assumptions about the environment, and the runs
differ in them: with `QuietClose = FALSE` threads do deadlock (a destructor runs
under the mutexes it takes), so `audio_echo` checks safety only.  `CallFaults`
is `FALSE` throughout: `setMode()` ignores a failure to open and closes
unconditionally, which `RefCounts` plainly does not survive (a listed hazard).
In `AudioCapture` reads of one and three frames against periods of two leave every
remainder there can be, and make a read need one period, two, or none;
`Capacity = 2` lets the sampler and the effects hold more than one frame; the rates
are those at and next to the middles between two supported ones, below the lowest
and above the highest.  The numbers of frames are relative and so need no bound.
In `RecoveryUpdate` four faults allow a failure in each of the attempt, the attempt
after it, the reboot and the second installation.  The runs that end in a violation
are as small as shows it: one opening, one route, drivers without failures.

Deadlock is checked in `audio`, where no client may ever stop the system.  The
camera runs turn it off because a released device that may not be opened again
(`MaxOpens`) is a legitimate end, `recovery` because an installed system, or a device
whose boot partition is torn, is one, and `audio_echo` for the reason above.

**Fairness.**  `FairSpec` of the camera modules asks for weak fairness of the
worker thread's steps and of the client's steps *within* a call: a thread that
can run is scheduled.  Nothing obliges the client to make a call.  `StrongSpec`
adds strong fairness of the client's steps, that is, a mutex that does not pass
over a waiter for ever.  `CameraRecording` needs that for its passing run too,
since the preview thread takes `mRecordLock` anew for each frame; its `FairSpec`
also has the encoder give frames back for as long as the video message is enabled,
which the comment at `SecCameraHWInterface.cpp:2247-2252` demands of it.  `CameraThreads` asks it of
each of its threads.  The violation of `preview_release` is found under
`StrongSpec`; that of `capture_cancel` ends where neither thread can move, which no
fairness would help.  `AudioCapture` asks for weak
fairness of the steps of a `read()` that has begun: the thread is scheduled,
`pcm_read()` returns, with frames or with an error, and effects that are given
frames do something with them.  `RecoveryUpdate` asks that scripts go on, and that
the user powers the device on and tries again until the system is installed; power
failures are bounded (`MaxFaults`), for against endless ones nothing gets done.
`InstallFinishes` leaves out a power failure in the `dd` itself, after which the
device may not boot.  `AudioHardware` has safety properties only.

Each property of a passing run has a mutant: a definition whose name ends in
`_Bug` stands before the definition it spoils, and the property fails when it is
put in its place.  Mutants are no part of the model.

## 4. What is proved

Each theorem holds for *every* value of the constants (sets of windows, modes and
devices, skip count, numbers of openings and requests) and for every choice of
the environment's Booleans, except those it names.

| theorem | shows `Spec => []`... | assuming |
| --- | --- | --- |
| `TypeCorrect` | `TypeOK` (preview) | |
| `MutexHolds` | `MutualExclusion` | |
| `FramesOnlyWhenToldHolds`, `DriverExclusiveHolds`, `HeapSafeHolds`, `SkipHonouredHolds` | the property of that name (the heap is not taken away, but may be refused; skipped frames up to a restart by `getPreview()`) | no spurious wakeups |
| `KeepsPromiseHolds` | not an invariant: that `Spec` implements `PreviewPromise` | as `WindowSafeHolds` |
| `WindowSafeHolds` | `WindowSafe` | also: windows change only while preview is stopped or deferred |
| `CameraOffWhenIdleHolds` | `CameraOffWhenIdle` | the driver does what it is told (`~DriverFaults`) |
| `CaptureTypeCorrect` | `TypeOK` (still capture) | |
| `FlagHonestHolds`, `StartExcludesPictureHolds`, `BufferReturnedHolds` | the property of that name | |
| `RawHeapSafeHolds` | `RawHeapSafe` | the raw heap can be allocated (`HeapFaults = FALSE`) |
| `FocusTypeCorrect`, `OncePerRequestHolds` | `FocusTypeOK`, `OncePerRequest` (of `FocusSpec`) | |
| `ThreadsImplementBoth` | not an invariant: that `ThreadsSpec` implements `Spec` of `CameraCapture` and `FocusSpec` | |
| `RecordingTypeCorrect`, `FrameOwnedHolds`, `NoBufferLeaksHolds` | `TypeOK` (recording) and the property of that name | `~LateReturns` |
| `NoFrameAfterStopHolds` | `NoFrameAfterStop` (an action property) | `~LateReturns` |
| `QbufExpectedHolds` | `QbufExpected` | also `Serialised` |
| `RecordHeapSafeHolds` | `RecordHeapSafe` | `~LateReturns`, memory does not run out (`HeapFaults = FALSE`) |
| `ParametersTypeCorrect`, `SensorFollowsHolds`, `TorchOutHolds`, `AcceptedReportedHolds` | `TypeOK` (parameters) and the property of that name | |
| `SizesAgreeHolds` | `SizesAgree` | the client keeps the size while preview is on (`KeepsSize`) |
| `AudioTypeCorrect`, `EchoSafeHolds`, `OutputBeforeInputHolds`, `MuteHonouredHolds` | `TypeOK` (audio) and the property of that name | |
| `RefCountsHolds`, `PlaybackLiveHolds`, `WakeBalancedHolds` | the property of that name | opening for a call does not fail (`~CallFaults`) |
| `LockOrderHolds` | `LockOrder` | also `~EchoCancel` and `QuietClose` |
| `CaptureStreamTypeCorrect`, `BuffersFitHolds`, `FramesInOrderHolds`, `RateSettledHolds` | `TypeOK` (capture stream) and the property of that name | |
| `RecoveryTypeCorrect` | `TypeOK` (recovery) | |
| `MarkerHonestHolds`, `OldTouchesNothingHolds` | `MarkerHonest`, `OldTouchesNothing` (an action property) | in the properties: `dd` or `reboot` has not failed unnoticed (`~ignored`) |

Of `AudioHardware` all but the lock order is proved wider than the runs go.  The
echo references, the order of the two PCMs and the muted microphone hold in every
environment.  The counts, the open PCM and the wake lock hold with echo cancellers
too, and with streams closed while another thread refers to them (`QuietClose =
FALSE`), where the threads may deadlock but spoil nothing; they do not survive a
call that could not open the device, which `setMode()` does not notice.  The lock
order does not survive an echo canceller, as `audio_deadlock` shows, nor a stream
that is destroyed by the thread that lets go of it last (a listed hazard); it is
proved without these, as `audio` checks it, and so says nothing of the deadlocks
they lead to.
`CameraOffWhenIdle` cannot hold with
a driver that refuses to stop.  The assumptions on constants are
`PreviewAssumption`, `CaptureAssumption` (one in `CameraCapture`, one in
`AudioCapture`), `FocusAssumption`, `RecordingAssumption`, `ParametersAssumption`,
`AudioAssumption`, `RecoveryAssumption` and `DriverFaultsAssumption`, which the
runs evaluate.

**Preview.**  None of the handshake properties is inductive.  The invariant,
`PreviewInv`, joins `TypeOK` and `MutualExclusion` with `Handshake` (where the
client and the thread can be at the same time: a thread that works on frames has
been told to, or the client waits for it), and two parts about a thread that takes a frame
or will go on to one (`WillTake`): `HeapKept`, that its heap is live or was
refused, and `SkipsLeft`, that up to a restart by `getPreview()` the frames taken
since the start and those still to be thrown away make up the count, with
`SkipHonoured`.  The proof has a lemma per part and in it a step
per action; the lemmas about `SecCamera`'s operators say that the calls return a
record of the right type, which is all the invariant needs of the driver.  The
refinement rests on the same invariant: initial states map to initial states, and
the proof goes through the actions once more, each being a named step of the
promise or none.  `Handshake` is what lets a stop, a start and a change of the
window meet no frame, as the promise has it.  `CameraOffWhenIdle` has an invariant of
its own, `IdleInv`, which needs no more of the handshake than the types, and so holds
with spurious wakeups: a streaming node is one that was started (`Sound`), and a
thread at its wait, other than during `startPreview()`'s own section, has left the
node off or preview going.  The lemmas about `SecCamera` (`InitCameraSound` and those
after it) say what a driver that obeys makes of each call.

**Still capture.**  `CaptureInv` is the type, three of the properties and
`ReleasedAlone` (what `release()` frees, it frees after the picture thread is
gone).  The properties support each other: the flag is honest because
`takePicture()` gets to start the thread only past its wait, when the flag is
down and so no picture is under way.  `RawHeapSafe` needs `HeapReady` as well, that
a `takePicture()` about to start the thread has a heap.  `BufferReturned` asks more
of the driver than its type: the lemmas of `SecCamera_proofs` whose names end in
`Mapped` say which calls leave the snapshot buffer as it was.

**Auto focus.**  `FocusInv` is the type and `OncePerRequest` together: the bound on
the number of callbacks, part of the type, follows from the other.

**Both threads.**  `ThreadsImplementBoth` goes through the composed steps
(`ThreadsStep`): each is a step of a component or leaves its variables alone, so the
invariants of the two hold of the composition without another induction.  That
`release()` gets past both joins is liveness, and left to the run.

**Recording.**  `RecordingInv` says that a buffer is in one place (`OnePlace`), which
needs that nothing is out when `startRecord()` queues all of them (`NothingOut`); that
the preview thread in its section records, for all others have to wait for
`mRecordLock` (`Control`); and that frames come only from a node that streams, also
when `m_flag_record_start` is stale because `DeinitCamera()` met a failure
(`Streams`).  `QbufExpected` follows with `Serialised`: without it the test of the flag
and the ioctl in `releaseRecordFrame()` are two steps, and a stop fits between.

**Parameters.**  `ParamInv` is the type, taken apart (`StateOK`), with what each part
of the state owes the others: a report has each key and only values some branch
knows (`HalOK`); the device agrees with itself, which includes `SensorFollows` and
`TorchOut`, and has the size that is reported (`DevOK`); and what `WorkOK` says of sizes, heap and window.  `KeepsSize`
is a premise of two of its parts, the sizes of the heap and of the running node, so
that all but `SizesAgree` is proved without it.  `AcceptedReported` belongs to the invariant, because a step that leaves
report and device alone must find it to keep it.  `ApplyTo` is proved in parts, one
per key it sets, since the whole of `setParameters()` is beyond one obligation.

**Audio.**  The proof is in layers, each with the assumptions it needs and no more.

`EchoInv` holds in every environment.  `ControlOK` are the types of program counters
and mutexes.  `ReleaseRule` says who has the output's and the device's mutex, and
where a `doStandby_l()` that has let go of its mutexes will return to.  `ReleaseInv`
adds why a reference that waits to be released is still one: `setMode()` and
`standby()` wait for the output's mutex only while the output is there, and
`closeOutputStream()` makes the input forget its reference before the output goes.
It also has that only an echo canceller makes an input take a reference, which the
upper layers use where there is none.

`PathInv`, on top of `EchoInv` alone, is for the PCMs' order and the mute flag.
Neither is inductive: what they need is that between the moment `setMode()` has
found the input inactive, or has locked it, and its end nobody wakes the input, so
that the call opens the playback PCM with the capture PCM closed; and that there is
no mode `IN_CALL` without a call except at the moment of entering one, since in that
mode neither `open_l()` nor `setMicMute()` sets the path that the flag asks for.
With an echo canceller that moment may be spent waiting for the output's mutex
(`CtlAt`), and the path may be wrong until the control thread has put the input in
standby (`Settling`).  `InRule` says where a thread has the input's mutex for
certain.

`SharesInv` adds to `EchoInv`, for calls that can open the device, the counts of
`RefCounts`; for each stream, that out of standby it has its PCM, and in standby
nothing, outside the critical sections that change it (`StandbyInv`); a call's share
of the device (`CallInv`); and the wake lock (`WakeInv`).  An echo canceller puts two
more places into it.  `setMode()` may wait for the output's mutex in the middle of
its work, and what is then true of the call is what will be true at the place it
returns to (`CtlAt`).  And `write()` may wait, with its output opened but still in
standby, for a reference that only its own mutex would free (`Waking`); it waits for
ever, but what it has opened is counted.

`AudioInv` adds to that, without an echo canceller, `LockInv`: who holds which mutex
is a function of the program counters, so that a thread on its way out of standby may
rely on what it has seen.  `StreamInv` says that a stream which a thread is about to
lock is still there, for which streams must be closed when nobody refers to them.
`OrderPreventsCircles` is a lemma of plain logic, about any state in which the order
is kept: among threads in a circle the one that wants the highest mutex waits for a
holder that wants a higher one.

**Capture stream.**  `FramesInOrder` speaks of the concatenation of six sequences.
The invariant, `IInv`, says of each buffer that it follows on from its place
(`InParts`), which is the number of the last captured frame less what is behind it;
a lemma of plain sequences (`PartsInOrder`) puts the parts together and takes them
apart.  Every step then moves a piece of one buffer to the next (`FollowUpto`,
`FollowBeyond`, `FollowConcat`), renumbers all of them (`Shifted`), or takes away all
numbers at once.  `BuffersFit` needs `Phases` (what is read into `mProcBuf` stays below
the size it was grown to) and `NoJunk`: after a close there is junk in the counts,
but no way to a read other than through `Opens`.  `RateSettled` is inductive by itself;
its proof says where the loop of `getInputSampleRate()` ends: the distances to the
six rates fall, and grow from one place on (`Turn`, `LoopEnds`).

**Recovery.**  `RecoveryInv` is the type with what each place in the scripts
presupposes: an upgrade is run by an old recovery; as long as nothing was `ignored`,
after `dd` the boot partition has the new recovery (`BootFollows`), an installation is
run by a new one, and a recovery other than the boot partition's runs only between
`dd` and the reboot (`OldUpgrades`); `/cache` is mounted only if it has a file system
(`CacheLives`).  The premise cannot go: without it TLC finds the marker beside an
old recovery after one failed `dd`, and an old recovery installing after one failed
`reboot`.

**Only model-checked:** liveness (`StopReturns`, `StartRuns`, `AcceptedAnswered`, `ReleaseReturns`, `CallsReturnUnlessStarved`, `ReadReturns`,
`InstallFinishes`), which with `ENABLED` is out of the prover's reach, as is
induction over data; and what the three violating runs show.  Every safety property
that a run checks has a theorem.  No module declares a RECURSIVE operator.

## 5. Abstractions to keep in mind

* CameraService holds a lock around HAL calls, so the client makes one at a
  time; the code relies on it (`mPreviewRunning` is written without the lock).
* Frames, heaps and windows are "none", "live" or a model value; sizes, formats
  and picture contents are left out.  An index out of range is outside the model.
* A preview thread that has not yet reached its first wait is outside most
  preview properties (`parked`): a deferred start that comes earlier makes it work
  on frames, which is a listed hazard.
* One input stream at a time, although the code allows several of which one is
  active.  Closing a stream of a given direction requires that its own thread is
  out of the HAL.
* `mSleepReq` (a delay of 10 ms), volumes, TTY, the RIL client's messages and the
  values of the input source are left out; `setParameters()` of the input keeps the
  opening and closing of the mixer that goes with a new source.
* In `CameraParameters`, a request starts from what `getParameters()` reports, so a
  back camera's scene is always there (`setParameters()` compares it without a
  test).  Memory and window calls succeed.  The preview format, and a picture that
  is still being taken, are the one action `RefuseParameters`.
* Plainly false, and so stated by no property: that a retry after a failed ioctl
  reaches the sensor (the value is already stored, and the setter returns 0); that
  `getParameters()` tells of a torch that a stop has put out; that the preview thread
  survives a heap that `mGetMemoryCb` refused (line 728 does not test it, 563 uses
  it), and that frames after a restart inside `getPreview()` are thrown away (no
  count is set there, and a restart that fails even shows buffer 0 as it is); that a
  recording whose buffers the HAL's own error paths have dropped
  (`SecCameraHWInterface.cpp:642-646`, a failed `qbuf`) can still be stopped
  (`CallsReturnUnlessStarved` is about the driver having a buffer, whoever lost the
  others), or one whose client keeps its frames once it has disabled the video message,
  as the comment at 2247-2250 lets it; that after a `dd` that failed unnoticed the
  marker, and after such a `reboot` the recovery that installs, is the new one (section
  4); that a cancel between the focus thread's wakeup and
  `setAutofocus()` has an effect; that an output which becomes active while
  `setMode()` waits for the input has the path of the mode.
* In `AudioCapture` one frame of the down sampler stands for the frames it is made
  from; all effects are one processor, as a client's effects on a stream are one
  session; `memcpy()` of regions that overlap (`AudioHardware.cpp:1894`, `1968`) copies
  forwards.  What the removal of the last effect strands in `mProcBuf`, and what an
  effect that fails swallows, count as lost: that the first comes out late and the
  second leaves the client a buffer nobody has written is plain.
* In `RecoveryUpdate` a `dd`, `make_ext4fs` or reboot that works leaves its data on
  flash; the zip stays where the user has put it; writes to `/cache` do not fail
  (other than by `/cache` not being mounted); what `pvcreate` does is part of
  `vgcreate`.  Without a system volume nothing is installed.  The path that
  `recoverycheck.sh:87` corrects loses a slash, so the script may or may not find
  the zip; then the user installs it.  The script's own `format("/cache")`
  (`recoverycheck.sh:111`) removes the marker, so it serves only when the script was
  cut short.  Data that was left without a file system stays so (`updater.sh:34`).
* A thread at the first mutex of a call, holding nothing, counts as not having
  made the call.

## 6. Plan

1. Done: `SecCamera`, `CameraPreview`, `CameraCapture`, `CameraFocus`, `CameraThreads`,
   `CameraRecording`, `CameraParameters`, `AudioHardware`, `AudioCapture`,
   `RecoveryUpdate`, each with proofs of all its safety properties;
   `PreviewPromise` with the refinement proved.
2. Abstract specifications for still capture and recording, as for preview, and
   the refinements proved.
3. A second input stream in `AudioHardware`, of which one is active.

## 7. Not modelled, and why

* FM radio: `enableFMRadio()` and `disableFMRadio()` change the reference counts
  without the device's mutex, and an `fm_off` need not follow an `fm_on`.  As actions
  of `AudioHardware` they would break `RefCounts` and `PlaybackLive` in one step, which
  says no more than the lines themselves, and nothing could be said of the rest.
* The delay sent along with the echo reference (`getCaptureDelay`), `getBufferSize`,
  and dumps: arithmetic and output without effect on other state.
* EXIF and the JPEG encoding of `SecCamera`, `SecCameraUtils`, and the settings that
  stand alone (quality, thumbnail, rotation, brightness, GPS): each is validated,
  stored and reported without regard to any other state.
* Lights: stateless writes to sysfs under one mutex.  (That every open
  initialises the mutex again is a listed hazard.)
* Recovery UI, build files, patches, init scripts, SELinux policy, media
  configuration, headers of other projects: straight-line code or data without a
  behaviour to check.
* The RIL client, the V4L2 and ALSA drivers, CameraService and AudioFlinger are
  outside the repository; they appear as the environment's choices.
