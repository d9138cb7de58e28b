--------------------------- MODULE AudioHardware ---------------------------
(***************************************************************************)
(* The audio HAL (libaudio/AudioHardware.cpp): one output stream, one      *)
(* input stream and the device they share, used by three threads.  "play"  *)
(* writes to the output, "rec" reads from the input, "ctl" changes the     *)
(* mode, mutes the microphone, adds effects, opens and closes streams.     *)
(* Each stream and the device has a mutex; a thread that finds it needs a  *)
(* mutex of a lower level gives up those it holds, takes all of them in    *)
(* the order out, in, hw, and looks whether what it had seen still holds.  *)
(*                                                                         *)
(* A step is what happens between two lock operations: everything below is *)
(* read and written under the device's mutex, mNeedEchoReference excepted. *)
(* mSleepReq only delays a stream's next call and is left out, as are the  *)
(* input source, the RIL client, whose calls change nothing here, and the  *)
(* FM radio.                                                               *)
(***************************************************************************)
EXTENDS Integers, FiniteSets

CONSTANTS
  Devices,        \* output devices a client may route to
  Receiver,       \* the earpiece, where setMode() leaves the path after a call
  ClientModes,    \* the modes a client sets
  DriverFaults,   \* TRUE: opening, writing and reading for a stream may fail
  CallFaults,     \* TRUE: opening for a call may fail too
  EchoCancel,     \* TRUE: an echo canceller may be added to the input
  QuietClose      \* TRUE: no stream is closed while another thread refers to it

ASSUME AudioAssumption ==
  /\ Devices # {} /\ Receiver \notin Devices
  /\ ClientModes \subseteq {"NORMAL", "RINGTONE", "IN_CALL"}
  /\ {DriverFaults, CallFaults, EchoCancel, QuietClose} \subseteq BOOLEAN

VARIABLES
  audio,  \* the streams and the device, see Audio
  lock,   \* who holds each mutex
  pc,     \* where each thread is
  call,   \* the HAL call each thread is in
  cont    \* where a thread goes on after the input's doStandby_l()

vars == <<audio, lock, pc, call, cont>>

Threads == {"play", "rec", "ctl"}
Locks == {"out", "in", "hw"}
Modes == {"NORMAL", "RINGTONE", "IN_CALL"}

\* "closed": the device has forgotten the stream, a thread still refers to it.
StreamStates == {"none", "open", "closed"}

\* fresh: the threads whose prepareLock() value is still standbyCnt().
Out == [state : StreamStates, standby : BOOLEAN, pcm : BOOLEAN, mixer : BOOLEAN,
        echo : BOOLEAN, device : Devices, fresh : SUBSET Threads]
In == [state : StreamStates, standby : BOOLEAN, pcm : BOOLEAN, mixer : BOOLEAN,
       echo : BOOLEAN, need : BOOLEAN, fresh : SUBSET Threads]
\* echo: mEchoReference exists.  History: callPcm, callMixer, the call's share of
\* the two counts; late, the playback PCM was once opened with the
\* capture PCM of a known input open.
Hw == [mode : Modes, inCall : BOOLEAN, pcmCnt : Nat, mixerCnt : Nat,
       mute : BOOLEAN, echo : BOOLEAN,
       callPcm : BOOLEAN, callMixer : BOOLEAN, late : BOOLEAN]
\* The controls of the mixer chip, and the wake lock.
Chip == [play : Devices \cup {Receiver}, mic : BOOLEAN, wake : BOOLEAN]
Audio == [out : Out, in : In, hw : Hw, chip : Chip]

NewOut(d) == [state |-> "none", standby |-> TRUE, pcm |-> FALSE, mixer |-> FALSE,
              echo |-> FALSE, device |-> d, fresh |-> {}]
NewIn == [state |-> "none", standby |-> TRUE, pcm |-> FALSE, mixer |-> FALSE,
          echo |-> FALSE, need |-> FALSE, fresh |-> {}]

Init ==
  /\ \E d \in Devices :
       audio = [out |-> NewOut(d), in |-> NewIn,
                hw |-> [mode |-> "NORMAL", inCall |-> FALSE, pcmCnt |-> 0,
                        mixerCnt |-> 0, mute |-> FALSE, echo |-> FALSE,
                        callPcm |-> FALSE, callMixer |-> FALSE, late |-> FALSE],
                chip |-> [play |-> d, mic |-> TRUE, wake |-> FALSE]]
  /\ lock = [l \in Locks |-> "free"]
  /\ pc = [t \in Threads |-> "idle"]
  /\ call = [t \in Threads |-> "none"]
  /\ cont = [t \in Threads |-> "none"]

Faulty(b, S) == IF b THEN S ELSE {}

-----------------------------------------------------------------------------
(* The device's operators, on the whole state a; those that may fail return  *)
(* the set of outcomes.  A name ending in _Bug marks a mistake in the        *)
(* definition that follows it, which is not part of the model.               *)

\* closePcmOut_l() and closeMixer_l(): a count of zero stays zero.
ClosePcm(a) == [a EXCEPT !.hw.pcmCnt = IF @ = 0 THEN 0 ELSE @ - 1]
CloseMixer(a) == [a EXCEPT !.hw.mixerCnt = IF @ = 0 THEN 0 ELSE @ - 1]

\* openPcmOut_l() and openMixer_l(): only the first user opens the device, so
\* only the first can fail.
OpenPcm(a, faults) ==
  {[a EXCEPT !.hw.pcmCnt = @ + 1,
             !.hw.late = @ \/ (a.hw.pcmCnt = 0 /\ a.in.state = "open" /\ a.in.pcm)]}
    \cup Faulty(faults /\ a.hw.pcmCnt = 0, {a})
OpenMixer(a, faults) ==
  {[a EXCEPT !.hw.mixerCnt = @ + 1]} \cup Faulty(faults /\ a.hw.mixerCnt = 0, {a})

\* AudioStreamOutALSA::close_l().
CloseOut_Bug(a) == [a EXCEPT !.out.pcm = FALSE, !.out.mixer = FALSE]
CloseOut(a) ==
  LET m == IF a.out.mixer THEN CloseMixer(a) ELSE a
      p == IF a.out.pcm THEN ClosePcm(m) ELSE m
  IN  [p EXCEPT !.out.pcm = FALSE, !.out.mixer = FALSE]

\* AudioStreamOutALSA::open_l(): the path is left alone during a call.
OpenOut(a) ==
  UNION {IF p.hw.pcmCnt = a.hw.pcmCnt THEN {p} ELSE
           {[m EXCEPT !.out.pcm = TRUE,
                      !.out.mixer = (m.hw.mixerCnt > a.hw.mixerCnt),
                      !.chip.play = IF m.hw.mixerCnt > a.hw.mixerCnt /\
                                       m.hw.mode # "IN_CALL"
                                      THEN m.out.device ELSE @] :
              m \in OpenMixer(p, DriverFaults)} :
         p \in OpenPcm(a, DriverFaults)}

\* AudioStreamOutALSA::doStandby_l().
StandbyOut(a) ==
  CloseOut([a EXCEPT !.out.fresh = {}, !.out.standby = TRUE,
                     !.chip.wake = IF a.out.standby THEN @ ELSE FALSE])

\* AudioStreamInALSA::close_l(), open_l().
CloseIn(a) ==
  LET m == IF a.in.mixer THEN CloseMixer(a) ELSE a
  IN  [m EXCEPT !.in.pcm = FALSE, !.in.mixer = FALSE]

OpenIn(a) ==
  {[m EXCEPT !.in.pcm = TRUE,
             !.in.mixer = (m.hw.mixerCnt > a.hw.mixerCnt),
             !.chip.mic = IF m.hw.mixerCnt > a.hw.mixerCnt /\
                             m.hw.mode # "IN_CALL"
                            THEN ~m.hw.mute ELSE @] :
     m \in OpenMixer(a, DriverFaults)}
    \cup Faulty(DriverFaults, {a})

\* releaseEchoReference(), and getEchoReference() for an open output, which returns
\* NULL when the reference cannot be made.
ReleaseEcho_Bug(a) == [a EXCEPT !.hw.echo = FALSE]
ReleaseEcho(a) ==
  [a EXCEPT !.hw.echo = FALSE,
            !.out.echo = IF a.out.state = "open" THEN FALSE ELSE @]
GetEcho(a) ==
  {[ReleaseEcho(a) EXCEPT !.hw.echo = TRUE, !.out.echo = TRUE, !.in.echo = TRUE]}
    \cup Faulty(DriverFaults, {[ReleaseEcho(a) EXCEPT !.in.echo = FALSE]})

\* read() asks for a reference if it needs one and has none.
WithEcho(a) == IF a.in.need /\ ~a.in.echo THEN GetEcho(a) ELSE {a}

\* getActiveInput_l(), and its counterpart for the output in setMode().
ActiveIn(a) == a.in.state = "open" /\ ~a.in.standby
ActiveOut(a) == a.out.state = "open" /\ ~a.out.standby


\* What AudioStreamInALSA::doStandby_l() does at its end; it forgets the echo
\* reference only if the stream was active.
StandbyIn(a) ==
  CloseIn([a EXCEPT !.in.echo = IF a.in.standby THEN @ ELSE FALSE,
                    !.in.standby = TRUE])

-----------------------------------------------------------------------------
(* Control flow.                                                             *)

Goto(t, p) == pc' = [pc EXCEPT ![t] = p]

\* The call ends.
Return(t) ==
  /\ pc' = [pc EXCEPT ![t] = "idle"]
  /\ call' = [call EXCEPT ![t] = "none"]

\* t, at p, locks mutex l and goes on at q.
Acquire(t, p, l, q) ==
  /\ pc[t] = p
  /\ lock[l] = "free"
  /\ lock' = [lock EXCEPT ![l] = t]
  /\ Goto(t, q)
  /\ UNCHANGED <<audio, call, cont>>

Start(t, name, p) ==
  /\ pc[t] = "idle"
  /\ call' = [call EXCEPT ![t] = name]
  /\ Goto(t, p)

\* t calls name, which locks mutex l at once, and goes on at p.
StartLocked(t, name, l, p) ==
  /\ lock[l] = "free"
  /\ lock' = [lock EXCEPT ![l] = t]
  /\ Start(t, name, p)
  /\ UNCHANGED <<audio, cont>>

\* t is at p and has just locked the device's mutex.
AtDevice(t, p) == pc[t] = p /\ lock["hw"] = "free"

\* Threads that have an sp<> to the output, or to the input, in a local.
RefersToOut(t) ==
  \/ pc[t] \in {"rLockOut", "rRelockIn", "rRelockHw", "sLockOut", "sLockIn", "sRelockHw"}
  \/ call[t] = "closeOutput" /\ pc[t] # "idle"
RefersToIn(t) == pc[t] \in {"wLockIn", "wRelockHw"}

\* t has both mutexes of the input and calls its doStandby_l() in state a; then
\* it is to go on at q, with both.  To release the echo reference it needs the
\* output's mutex, and gives up its own first.
DoStandbyIn(t, a, q) ==
  IF ~a.in.standby /\ a.in.echo /\ a.out.state = "open"
    THEN /\ audio' = [a EXCEPT !.in.fresh = {}]
         /\ lock' = [lock EXCEPT !["in"] = "free", !["hw"] = "free"]
         /\ Goto(t, "sLockOut")
         /\ cont' = [cont EXCEPT ![t] = q]
    ELSE /\ audio' = StandbyIn([a EXCEPT !.in.fresh = {}])
         /\ lock' = [lock EXCEPT !["in"] = t, !["hw"] = t]
         /\ Goto(t, q)
         /\ UNCHANGED cont

-----------------------------------------------------------------------------
(* The output stream: write(), standby(), setParameters().                   *)

CallWrite ==
  /\ audio.out.state = "open"
  /\ StartLocked("play", "write", "out",
                 IF audio.out.standby THEN "wLockHw" ELSE "wWrite")

\* The end of the way out of standby, in state a: a PCM that could not be opened
\* leads to standby().
WriteOpened_Bug(a) ==
  /\ audio' = [a EXCEPT !.out.standby = ~a.out.pcm]
  /\ lock' = [lock EXCEPT !["in"] = IF @ = "play" THEN "free" ELSE @,
                          !["out"] = IF a.out.pcm THEN @ ELSE "free"]
  /\ Goto("play", IF a.out.pcm THEN "wWrite" ELSE "oLock")
  /\ UNCHANGED <<call, cont>>
WriteOpened(a) ==
  /\ audio' = IF a.out.pcm THEN [a EXCEPT !.out.standby = FALSE]
                           ELSE [a EXCEPT !.chip.wake = FALSE]
  /\ lock' = [lock EXCEPT !["in"] = IF @ = "play" THEN "free" ELSE @,
                          !["out"] = IF a.out.pcm THEN @ ELSE "free"]
  /\ Goto("play", IF a.out.pcm THEN "wWrite" ELSE "oLock")
  /\ UNCHANGED <<call, cont>>

\* An active input must be closed while the output is opened.
WriteLookIn(a) ==
  IF ActiveIn(a)
    THEN /\ audio' = [a EXCEPT !.in.fresh = @ \cup {"play"}]
         /\ lock' = [lock EXCEPT !["in"] = IF @ = "play" THEN "free" ELSE @]
         /\ Goto("play", "wLockIn")
         /\ UNCHANGED <<call, cont>>
    ELSE \E b \in OpenOut(a) : WriteOpened(b)

WriteWake ==
  /\ AtDevice("play", "wLockHw")
  /\ WriteLookIn([audio EXCEPT !.chip.wake = TRUE])

WriteLockIn == Acquire("play", "wLockIn", "in", "wRelockHw")

\* The input as it was: reopen both.
ReopenBoth_Bug(a) == UNION {OpenIn(b) : b \in OpenOut(a)}
ReopenBoth(a) == UNION {OpenIn(b) : b \in OpenOut(CloseIn(a))}

WriteRelockHw ==
  /\ AtDevice("play", "wRelockHw")
  /\ IF ActiveIn(audio) /\ "play" \in audio.in.fresh
       THEN \E b \in ReopenBoth(audio) :
              IF b.in.pcm
                THEN WriteOpened(b)
                ELSE \* doStandby_l(); q is never reached: see LockOrder
                     IF b.in.echo
                       THEN DoStandbyIn("play", b, "wWrite") /\ UNCHANGED call
                       ELSE WriteOpened(StandbyIn([b EXCEPT !.in.fresh = {}]))
       ELSE IF audio.in.state = "closed"
              THEN \* the last reference goes: ~AudioStreamInALSA(), with locks
                   /\ lock' = [lock EXCEPT !["in"] = "free", !["hw"] = "play"]
                   /\ Goto("play", "iLock")
                   /\ UNCHANGED <<audio, call, cont>>
              ELSE WriteLookIn(audio)

\* pcm_write(), holding the output's mutex only.
WriteData ==
  /\ pc["play"] = "wWrite"
  /\ lock' = [lock EXCEPT !["out"] = "free"]
  /\ \/ Return("play")
     \/ DriverFaults /\ Goto("play", "oLock") /\ UNCHANGED call
  /\ UNCHANGED <<audio, cont>>

CallOutStandby ==
  /\ audio.out.state = "open"
  /\ StartLocked("play", "standby", "out", "oLockHw")

OutStandbyLock(t) == Acquire(t, "oLock", "out", "oLockHw")

\* A destroyed stream is gone with its last standby().
OutStandby(t) ==
  /\ AtDevice(t, "oLockHw")
  /\ LET a == StandbyOut(audio)
     IN  audio' = IF call[t] = "closeOutput"
                    THEN [a EXCEPT !.out = NewOut(a.out.device)] ELSE a
  /\ lock' = [lock EXCEPT !["out"] = "free"]
  /\ Return(t)
  /\ UNCHANGED cont

CallOutSetParameters ==
  /\ audio.out.state = "open"
  /\ StartLocked("play", "setParameters", "out", "pLockHw")

OutSetParameters ==
  /\ AtDevice("play", "pLockHw")
  /\ \E d \in Devices :
       LET a == [audio EXCEPT !.out.device = d]
       IN  audio' = IF d # audio.out.device /\ a.hw.mode # "IN_CALL"
                      THEN StandbyOut(a) ELSE a
  /\ lock' = [lock EXCEPT !["out"] = "free"]
  /\ Return("play")
  /\ UNCHANGED cont

-----------------------------------------------------------------------------
(* The input stream: read(), standby(), setParameters().                     *)

CallRead ==
  /\ audio.in.state = "open"
  /\ StartLocked("rec", "read", "in", IF audio.in.standby THEN "rLockHw" ELSE "rRead")

\* open_l() in state a, and on to reading or, if it failed, to standby().
ReadOpen(a) ==
  \E b \in OpenIn(a) :
    /\ audio' = IF b.in.pcm THEN [b EXCEPT !.in.standby = FALSE] ELSE b
    /\ lock' = [lock EXCEPT !["in"] = IF b.in.pcm THEN "rec" ELSE "free",
                            !["out"] = IF @ = "rec" THEN "free" ELSE @]
    /\ Goto("rec", IF b.in.pcm THEN "rRead" ELSE "iLock")
    /\ UNCHANGED <<call, cont>>

ReadWake_Bug ==
  /\ AtDevice("rec", "rLockHw")
  /\ IF audio.out.state = "open"
       THEN Goto("rec", "rLockOut") /\ UNCHANGED <<audio, lock, call, cont>>
       ELSE ReadOpen(audio)
ReadWake ==
  /\ AtDevice("rec", "rLockHw")
  /\ IF audio.out.state = "open"
       THEN /\ lock' = [lock EXCEPT !["in"] = "free"]
            /\ Goto("rec", "rLockOut")
            /\ UNCHANGED <<audio, call, cont>>
       ELSE ReadOpen(audio)

ReadLockOut == Acquire("rec", "rLockOut", "out", "rRelockIn")
ReadRelockIn == Acquire("rec", "rRelockIn", "in", "rRelockHw")

\* An active output is closed and opened again, before the input is opened.
RestartOut_Bug(a) == IF ~ActiveOut(a) THEN {a} ELSE OpenOut(CloseOut(a))
RestartOut(a) ==
  IF ~ActiveOut(a) THEN {a}
  ELSE {IF b.out.pcm THEN b ELSE StandbyOut(b) : b \in OpenOut(CloseOut(a))}

ReadRelockHw ==
  /\ AtDevice("rec", "rRelockHw")
  /\ IF audio.out.state = "open"
       THEN \E b \in RestartOut(audio) : \E c \in WithEcho(b) : ReadOpen(c)
       ELSE IF RefersToOut("ctl")
              THEN ReadOpen(audio)
              ELSE \* the last reference goes: ~AudioStreamOutALSA(), with locks
                   /\ lock' = [lock EXCEPT !["out"] = "free", !["hw"] = "rec"]
                   /\ Goto("rec", "oLock")
                   /\ UNCHANGED <<audio, call, cont>>

\* pcm_read() and the effects, holding the input's mutex only.
ReadData ==
  /\ pc["rec"] = "rRead"
  /\ lock' = [lock EXCEPT !["in"] = "free"]
  /\ \/ Return("rec")
     \/ DriverFaults /\ Goto("rec", "iLock") /\ UNCHANGED call
  /\ UNCHANGED <<audio, cont>>

CallInStandby ==
  /\ audio.in.state = "open"
  /\ StartLocked("rec", "standby", "in", "iLockHw")

InStandbyLock(t) == Acquire(t, "iLock", "in", "iLockHw")

InStandby(t) ==
  /\ AtDevice(t, "iLockHw")
  /\ DoStandbyIn(t, audio, "iUnlock")
  /\ UNCHANGED call

\* The rest of doStandby_l() of an input with an echo reference.
StandbyLockOut(t) == Acquire(t, "sLockOut", "out", "sLockIn")
StandbyLockIn(t) == Acquire(t, "sLockIn", "in", "sRelockHw")

StandbyRelockHw(t) ==
  /\ AtDevice(t, "sRelockHw")
  /\ LET a == IF audio.in.echo THEN ReleaseEcho(audio) ELSE audio
         last == a.out.state = "closed" /\ \A u \in Threads \ {t} : ~RefersToOut(u)
                   /\ call[t] # "closeOutput"
     IN  /\ audio' = IF last THEN a ELSE StandbyIn([a EXCEPT !.in.echo = FALSE])
         /\ Goto(t, IF last THEN "oLock" ELSE cont[t])
  /\ lock' = [lock EXCEPT !["out"] = "free", !["hw"] = t]
  /\ UNCHANGED <<call, cont>>

InStandbyEnd(t) ==
  /\ pc[t] = "iUnlock"
  /\ lock' = [lock EXCEPT !["in"] = "free", !["hw"] = "free"]
  /\ audio' = IF call[t] = "closeInput" THEN [audio EXCEPT !.in = NewIn] ELSE audio
  /\ IF call[t] = "closeOutput" THEN Goto(t, "cDrop") /\ UNCHANGED call
                                ELSE Return(t)
  /\ UNCHANGED cont

CallInSetParameters ==
  /\ audio.in.state = "open"
  /\ StartLocked("rec", "setParameters", "in", "qLockHw")

\* A new source, for which the mixer is opened and closed, a new input device,
\* or both.
InSetSource ==
  /\ AtDevice("rec", "qLockHw")
  /\ \E a \in OpenMixer(audio, DriverFaults) : audio' = CloseMixer(a)
  /\ Goto("rec", "qRouteHw")
  /\ UNCHANGED <<lock, call, cont>>

InSetRouting ==
  /\ AtDevice("rec", "qLockHw") \/ AtDevice("rec", "qRouteHw")
  /\ \/ /\ audio.hw.mode # "IN_CALL"
        /\ DoStandbyIn("rec", audio, "iUnlock")
        /\ UNCHANGED call
     \/ /\ lock' = [lock EXCEPT !["in"] = "free"]
        /\ Return("rec")
        /\ UNCHANGED <<audio, cont>>

-----------------------------------------------------------------------------
(* The device: setMode().                                                    *)

\* Of the mutexes, setMode() now holds those of S and no others.
ModeHolds(S) ==
  lock' = [l \in Locks |-> IF l \in S THEN "ctl"
                           ELSE IF lock[l] = "ctl" THEN "free" ELSE lock[l]]

\* Lock an active input, if there is one; then all is ready.  S: the output's
\* mutex, if setMode() has it.
ModeLookIn(S) ==
  /\ IF ActiveIn(audio)
       THEN /\ audio' = [audio EXCEPT !.in.fresh = @ \cup {"ctl"}]
            /\ ModeHolds(S)
            /\ Goto("ctl", "mLockIn")
       ELSE /\ ModeHolds(S \cup {"hw"})
            /\ Goto("ctl", "mSet")
            /\ UNCHANGED audio
  /\ UNCHANGED cont

\* Lock an active output, if there is one.
ModeLookOut ==
  IF ActiveOut(audio)
    THEN /\ audio' = [audio EXCEPT !.out.fresh = @ \cup {"ctl"}]
         /\ ModeHolds({})
         /\ Goto("ctl", "mLockOut")
         /\ UNCHANGED cont
    ELSE ModeLookIn({})

CallSetMode(m) ==
  /\ AtDevice("ctl", "idle")
  /\ ModeLookOut
  /\ call' = [call EXCEPT !["ctl"] = m]

ModeLockOut == Acquire("ctl", "mLockOut", "out", "mRelockHw")

\* The output as it was: keep its mutex and go on to the input.  Otherwise
\* unlock it and look again.
ModeRelockHw ==
  /\ AtDevice("ctl", "mRelockHw")
  /\ IF "ctl" \in audio.out.fresh THEN ModeLookIn({"out"}) ELSE ModeLookOut
  /\ UNCHANGED call

ModeLockIn == Acquire("ctl", "mLockIn", "in", "mRelockHwIn")

ModeRelockHwIn ==
  /\ AtDevice("ctl", "mRelockHwIn")
  /\ IF ActiveIn(audio) /\ "ctl" \in audio.in.fresh
       THEN /\ lock' = [lock EXCEPT !["hw"] = "ctl"]
            /\ Goto("ctl", "mSet")
            /\ UNCHANGED <<audio, cont>>
       ELSE ModeLookIn({l \in {"out"} : lock[l] = "ctl"})
  /\ UNCHANGED call

\* setMode() has locked the output (spOut # 0) or the input (spIn # 0).
OutLocked == lock["out"] = "ctl"
InLocked == lock["in"] = "ctl"

\* Put the streams that are locked in standby, the input last; then go to q.
ForceStandby(a, q) ==
  LET b == IF OutLocked THEN StandbyOut(a) ELSE a
  IN  IF InLocked
        THEN DoStandbyIn("ctl", b, q)
        ELSE audio' = b /\ Goto("ctl", q) /\ UNCHANGED <<lock, cont>>

\* Leaving a call: the playback path is reset, the call's share of the device
\* given back.
HangUp(a) ==
  ClosePcm(CloseMixer(
    [a EXCEPT
       !.chip.play = IF a.hw.mixerCnt > 0 THEN Receiver ELSE @,
       !.hw.callPcm = FALSE, !.hw.callMixer = FALSE]))

ModeSet ==
  /\ pc["ctl"] = "mSet"
  /\ LET a == [audio EXCEPT !.hw.mode = call["ctl"]]
         enter == a.hw.mode = "IN_CALL" /\ ~a.hw.inCall
         leave == a.hw.mode = "NORMAL" /\ a.hw.inCall
     IN  CASE a.hw.mode # audio.hw.mode /\ enter -> ForceStandby(a, "mEnter")
           [] a.hw.mode # audio.hw.mode /\ leave -> ForceStandby(HangUp(a), "mLeave")
           [] OTHER -> /\ audio' = a
                       /\ Goto("ctl", "mUnlock")
                       /\ UNCHANGED <<lock, cont>>
  /\ UNCHANGED call

\* Entering a call: take a share of the device.
TakeCall(a) ==
  UNION {{[m EXCEPT
             !.hw.inCall = TRUE,
             !.hw.callPcm = (p.hw.pcmCnt > a.hw.pcmCnt),
             !.hw.callMixer = (m.hw.mixerCnt > p.hw.mixerCnt)] :
            m \in OpenMixer(p, CallFaults)} :
         p \in OpenPcm(a, CallFaults)}

ModeEnter ==
  /\ pc["ctl"] = "mEnter"
  /\ audio' \in TakeCall(audio)
  /\ Goto("ctl", "mUnlock")
  /\ UNCHANGED <<lock, call, cont>>

ModeLeave ==
  /\ pc["ctl"] = "mLeave"
  /\ audio' = [audio EXCEPT !.hw.inCall = FALSE]
  /\ Goto("ctl", "mUnlock")
  /\ UNCHANGED <<lock, call, cont>>

ModeUnlock ==
  /\ pc["ctl"] = "mUnlock"
  /\ lock' = [l \in Locks |-> IF lock[l] = "ctl" THEN "free" ELSE lock[l]]
  /\ Return("ctl")
  /\ UNCHANGED <<audio, cont>>

-----------------------------------------------------------------------------
(* The device: setMicMute(), effects, opening and closing streams.  Whoever  *)
(* closes a stream has ended the thread that reads or writes it.             *)

MuteRestarts_Bug(a) == a.hw.mode = "NORMAL" /\ ActiveIn(a)
MuteRestarts(a) == a.hw.mode # "IN_CALL" /\ ActiveIn(a)

SetMicMute ==
  /\ AtDevice("ctl", "idle")
  /\ audio' = [audio EXCEPT !.hw.mute = ~@]
  /\ IF MuteRestarts(audio)
       THEN Start("ctl", "setMicMute", "iLock")
       ELSE UNCHANGED <<pc, call>>
  /\ UNCHANGED <<lock, cont>>

\* addAudioEffect() and removeAudioEffect() of an echo canceller: the flag is
\* changed without a lock.
SetNeedEcho ==
  /\ EchoCancel
  /\ audio.in.state = "open"
  /\ audio' = [audio EXCEPT !.in.need = ~@]
  /\ Start("ctl", "audioEffect", "iLock")
  /\ UNCHANGED <<lock, cont>>

OpenOutputStream ==
  /\ AtDevice("ctl", "idle")
  /\ audio.out.state = "none"
  /\ \E d \in Devices : audio' = [audio EXCEPT !.out = [NewOut(d) EXCEPT !.state = "open"]]
  /\ UNCHANGED <<lock, pc, call, cont>>

OpenInputStream ==
  /\ AtDevice("ctl", "idle")
  /\ audio.in.state = "none"
  /\ audio' = [audio EXCEPT !.in = [NewIn EXCEPT !.state = "open"]]
  /\ UNCHANGED <<lock, pc, call, cont>>

CloseOutputStream ==
  /\ AtDevice("ctl", "idle")
  /\ audio.out.state = "open" /\ pc["play"] = "idle"
  /\ QuietClose => ~RefersToOut("rec")
  /\ audio' = [audio EXCEPT !.out.state = "closed"]
  /\ Start("ctl", "closeOutput",
           IF audio.hw.echo /\ ActiveIn(audio) THEN "iLock" ELSE "cDrop")
  /\ UNCHANGED <<lock, cont>>

\* spOut.clear(): the last reference destroys the stream.
DropOutput ==
  /\ pc["ctl"] = "cDrop"
  /\ IF RefersToOut("rec") THEN Return("ctl")
                           ELSE Goto("ctl", "oLock") /\ UNCHANGED call
  /\ UNCHANGED <<audio, lock, cont>>

CloseInputStream ==
  /\ AtDevice("ctl", "idle")
  /\ audio.in.state = "open" /\ pc["rec"] = "idle"
  /\ QuietClose => ~RefersToIn("play")
  /\ audio' = [audio EXCEPT !.in.state = "closed"]
  /\ IF RefersToIn("play") THEN UNCHANGED <<pc, call>>
                           ELSE Start("ctl", "closeInput", "iLock")
  /\ UNCHANGED <<lock, cont>>

-----------------------------------------------------------------------------
PlaySteps ==
  \/ CallWrite \/ WriteWake \/ WriteLockIn \/ WriteRelockHw
  \/ WriteData \/ CallOutStandby
  \/ CallOutSetParameters \/ OutSetParameters

RecSteps ==
  \/ CallRead \/ ReadWake \/ ReadLockOut \/ ReadRelockIn
  \/ ReadRelockHw \/ ReadData \/ CallInStandby
  \/ CallInSetParameters \/ InSetSource \/ InSetRouting

CtlSteps ==
  \/ \E m \in ClientModes : CallSetMode(m)
  \/ ModeLockOut \/ ModeRelockHw \/ ModeLockIn \/ ModeRelockHwIn
  \/ ModeSet \/ ModeEnter \/ ModeLeave \/ ModeUnlock
  \/ SetMicMute \/ SetNeedEcho \/ OpenOutputStream \/ OpenInputStream
  \/ CloseOutputStream \/ DropOutput \/ CloseInputStream

StandbySteps ==
  \E t \in Threads :
    \/ OutStandbyLock(t) \/ OutStandby(t)
    \/ InStandbyLock(t) \/ InStandby(t) \/ InStandbyEnd(t)
    \/ StandbyLockOut(t) \/ StandbyLockIn(t) \/ StandbyRelockHw(t)

Next == PlaySteps \/ RecSteps \/ CtlSteps \/ StandbySteps

Spec == Init /\ [][Next]_vars

-----------------------------------------------------------------------------
PCs == {"idle", "wLockHw", "wLockIn", "wRelockHw", "wWrite",
        "oLock", "oLockHw", "pLockHw",
        "rLockHw", "rLockOut", "rRelockIn", "rRelockHw", "rRead",
        "iLock", "iLockHw", "iUnlock", "qLockHw", "qRouteHw",
        "sLockOut", "sLockIn", "sRelockHw",
        "mLockOut", "mRelockHw", "mLockIn", "mRelockHwIn",
        "mSet", "mEnter", "mLeave", "mUnlock", "cDrop"}

Calls == Modes \cup {"none", "write", "read", "standby", "setParameters",
                     "setMicMute", "audioEffect", "closeOutput", "closeInput"}

\* Every variable has a value the code can give it.
TypeOK ==
  /\ audio \in Audio
  /\ lock \in [Locks -> Threads \cup {"free"}]
  /\ pc \in [Threads -> PCs]
  /\ call \in [Threads -> Calls]
  /\ cont \in [Threads -> PCs \cup {"none"}]

\* The mutex a thread at p is waiting for.
Wanted(p) ==
  CASE p \in {"oLock", "rLockOut", "sLockOut", "mLockOut"} -> "out"
    [] p \in {"wLockIn", "rRelockIn", "iLock", "sLockIn", "mLockIn"} -> "in"
    [] p \in {"wLockHw", "wRelockHw", "oLockHw", "pLockHw", "rLockHw", "rRelockHw",
              "iLockHw", "qLockHw", "qRouteHw", "sRelockHw", "mRelockHw",
              "mRelockHwIn"} -> "hw"
    [] OTHER -> "none"

Rank(l) == CASE l = "out" -> 1 [] l = "in" -> 2 [] l = "hw" -> 3 [] OTHER -> 4

\* "Mutex acquisition order is always out -> in -> hw" (AudioHardware.cpp:435,
\* 1450, 2075, 2169): a thread that waits for a mutex holds none of the same or
\* of a later level.
LockOrder ==
  \A t \in Threads, l \in Locks :
    lock[l] = t => Rank(l) < Rank(Wanted(pc[t]))

\* No set of threads waits in a circle, each for a mutex another one holds.
NoCircularWait ==
  \A S \in (SUBSET Threads) \ {{}} :
    \E t \in S : Wanted(pc[t]) = "none" \/ lock[Wanted(pc[t])] \notin S

One(b) == IF b THEN 1 ELSE 0

\* The playback PCM and the mixer are counted once for each stream that has
\* them open and once for a call, through every failure and forced standby.
RefCounts ==
  LET a == audio
  IN  /\ a.hw.pcmCnt = One(a.out.pcm) + One(a.hw.callPcm)
      /\ a.hw.mixerCnt = One(a.out.mixer) + One(a.in.mixer) + One(a.hw.callMixer)

\* write() never writes to a PCM that is not open, although read() closes and
\* opens it, and setMode() closes it, from other threads.
PlaybackLive ==
  ActiveOut(audio) => audio.out.pcm /\ audio.hw.pcmCnt > 0

\* The phone is kept awake exactly while the output is active (and write(), on
\* its way out of standby, has the mutex).
WakeBalanced ==
  lock["out"] = "free" => audio.chip.wake = ~audio.out.standby

\* "open output before input" (AudioHardware.cpp:1467, 2087): the playback PCM
\* is never opened while an input stream the device knows of has the capture PCM
\* open.  (One that closeInputStream() has taken off mInputs and not yet
\* destroyed is not looked at and may still have it open.)
OutputBeforeInput == ~audio.hw.late

\* When setMicMute() and setMode() are done, and outside of calls, an active
\* input records what the mute flag says.
MuteHonoured ==
  pc["ctl"] = "idle" /\ audio.hw.mode # "IN_CALL" /\ ~audio.hw.inCall
    /\ ActiveIn(audio) /\ audio.in.mixer
    => audio.chip.mic = ~audio.hw.mute

\* A stream the device knows of never has an echo reference that was released.
EchoSafe ==
  /\ audio.in.echo => audio.hw.echo
  /\ audio.out.state = "open" /\ audio.out.echo => audio.hw.echo
=============================================================================
