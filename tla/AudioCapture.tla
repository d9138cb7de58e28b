---------------------------- MODULE AudioCapture ----------------------------
(***************************************************************************)
(* How captured frames get through an input stream of the audio HAL        *)
(* (libaudio/AudioHardware.cpp, AudioStreamInALSA): from the driver into   *)
(* mInputBuf, through the down sampler if the rate needs one, into         *)
(* mProcBuf, through the pre-processing effects, and into the buffer of    *)
(* read().  With an echo canceller the frames that are being played come   *)
(* along in mRefBuf.                                                       *)
(*                                                                         *)
(* A buffer is a sequence of as many frames as its count says.  Frames are *)
(* numbered from the next one that read() has to return, and frames that   *)
(* cannot reach the client in their turn any more are only marked as such: *)
(* those of an earlier session, and those lost with a failing effect or    *)
(* left behind by one that was taken away.  One frame of the down sampler  *)
(* stands for the frames it is made from.  The mutex is held through       *)
(* read(), so other threads (module AudioHardware) come in between reads.  *)
(***************************************************************************)
EXTENDS Integers, Sequences, FiniteSetsExt

CONSTANTS
  AUDIO_HW_IN_PERIOD_SZ, \* frames the driver delivers at a time
  ReadSizes,             \* how many frames a client may ask for
  AskedRates,            \* sampling rates a client may ask for
  Capacity               \* frames a down sampler or the effects may hold back

ASSUME CaptureAssumption ==
  /\ AUDIO_HW_IN_PERIOD_SZ \in Nat \ {0}
  /\ ReadSizes \subseteq Nat \ {0}
  /\ AskedRates \subseteq Nat
  /\ Capacity \in Nat \ {0}

VARIABLES
  pc,               \* where in read() the client is
  frames,           \* how many frames it has asked for
  out,              \* the frames processFrames() has put into its buffer
  fill,             \* the frames readFrames() has read, and where to
  mDownSampler,     \* there is a down sampler
  mInputBuf,        \* what is left of the last period from the driver
  held,             \* frames inside the down sampler
  mProcBuf,         \* frames for the effects: mProcFramesIn of them ...
  mProcBufSize,     \* ... in that much memory
  mPreprocessors,   \* the effects
  fx,               \* frames inside the effects
  active,           \* the stream is not in standby
  echo,             \* mEchoReference is set
  mRefBuf,          \* frames of the echo reference: mRefFramesIn of them ...
  mRefBufSize,      \* ... in that much memory
  ctl,              \* what addAudioEffect() or removeAudioEffect() still has to do
  asked, suggested, \* the rate a client was refused, and the one named instead
  captured          \* history: the number of the next frame to be captured

dataVars == <<out, fill, mInputBuf, held, mProcBuf, fx, captured>>
sizeVars == <<mProcBufSize, mRefBufSize>>
streamVars == <<mPreprocessors, active, echo, ctl>>
rateVars == <<mDownSampler, asked, suggested>>
vars == <<pc, frames, dataVars, sizeVars, mRefBuf, streamVars, rateVars>>

\* A definition whose name ends in _Bug is not part of the model: it is a mistake
\* in the definition that follows it, which one of the properties must notice.

Effects == {"aec", "ns"}
mNeedEchoReference == ctl # "idle" \/ "aec" \in mPreprocessors

\* Frames without a number: that are lost, and that freed memory may hold.
Lost == -1
Junk == -2

Copies(f, s) == [i \in DOMAIN s |-> f]
Frames(first, n) == [i \in 1..n |-> first + i - 1]
Upto(s, n) == SubSeq(s, 1, n)
Beyond(s, n) == SubSeq(s, n + 1, Len(s))
Larger(m, n) == IF m > n THEN m ELSE n
Smaller(m, n) == IF m < n THEN m ELSE n

\* The number that follows the last frame of s, and the numbers after n are given out.
NextAfter(s) == IF s = <<>> THEN 0 ELSE Larger(s[Len(s)] + 1, 0)
Renumbered(s, n) ==
  [i \in DOMAIN s |-> IF s[i] >= n THEN s[i] - n ELSE Smaller(s[i], Lost)]

-----------------------------------------------------------------------------
(* Opening the stream.                                                       *)

SampleRates == <<8000, 11025, 16000, 22050, 32000, 44100>>

Delta(r, i) ==
  IF r > SampleRates[i] THEN r - SampleRates[i] ELSE SampleRates[i] - r

GrowsAgain(r, i) == Delta(r, i) > Delta(r, i - 1)

\* getInputSampleRate(): the last rate before the distance grows again.
GetInputSampleRate_Bug(r) ==
  SampleRates[Min({i \in 2..Len(SampleRates) : GrowsAgain(r, i)}
                  \cup {Len(SampleRates)})]

GetInputSampleRate(r) ==
  SampleRates[Min({i \in 2..Len(SampleRates) : GrowsAgain(r, i)}
                  \cup {Len(SampleRates) + 1}) - 1]

Init ==
  /\ pc = "closed" /\ frames = 0
  /\ out = <<>> /\ fill = <<>> /\ mInputBuf = <<>> /\ held = <<>>
  /\ mProcBuf = <<>> /\ mProcBufSize = 0
  /\ mPreprocessors = {} /\ fx = <<>>
  /\ active = FALSE /\ echo = FALSE
  /\ mRefBuf = <<>> /\ mRefBufSize = 0
  /\ ctl = "idle"
  /\ mDownSampler = FALSE /\ asked = 0 /\ suggested = 0
  /\ captured = 0

\* set(): a rate that is not supported is refused and the nearest one named.
OpenInputStream(r) ==
  /\ pc = "closed"
  /\ IF GetInputSampleRate(r) = r
       THEN /\ pc' = "idle"
            /\ mDownSampler' = (r # 44100)
            /\ asked' = 0 /\ suggested' = 0
       ELSE /\ asked' = r /\ suggested' = GetInputSampleRate(r)
            /\ UNCHANGED <<pc, mDownSampler>>
  /\ UNCHANGED <<frames, dataVars, sizeVars, mRefBuf, streamVars>>

-----------------------------------------------------------------------------
(* The driver's end: open_l(), close_l() and doStandby_l().                  *)

\* A PCM that is opened starts with empty buffers; nobody resets the effects.
StartsEmpty_Bug ==
  /\ mInputBuf' = <<>> /\ held' = <<>>
  /\ UNCHANGED <<mProcBuf, mRefBuf>>

StartsEmpty ==
  /\ mInputBuf' = <<>> /\ held' = <<>>
  /\ mProcBuf' = <<>> /\ mRefBuf' = <<>>

Opens ==
  /\ active' = TRUE
  /\ StartsEmpty
  /\ mProcBufSize' = 0 /\ mRefBufSize' = 0
  /\ fx' = Copies(Lost, fx) /\ captured' = 0

\* Memory is freed, the counts are left.
Closes ==
  /\ active' = FALSE
  /\ mProcBuf' = Copies(Junk, mProcBuf) /\ mProcBufSize' = 0
  /\ mRefBuf' = Copies(Junk, mRefBuf) /\ mRefBufSize' = 0
  /\ mInputBuf' = Copies(Lost, mInputBuf) /\ held' = Copies(Lost, held)
  /\ fx' = Copies(Lost, fx) /\ captured' = 0

\* The echo reference is given up on the way from active to standby.
GoesToStandby == Closes /\ echo' = (echo /\ ~active)

\* mLock is free, and other threads may have it.
Unlocked == pc \in {"idle", "failed"}

(* standby(), setParameters() and setMode().                                 *)
Standby ==
  /\ Unlocked /\ active
  /\ GoesToStandby
  /\ UNCHANGED <<pc, frames, out, fill, mPreprocessors, ctl, rateVars>>

(* write(), on its way out of standby, closes and opens an active input.     *)
Restart ==
  /\ Unlocked /\ active
  /\ \/ Opens /\ UNCHANGED echo
     \/ GoesToStandby
  /\ UNCHANGED <<pc, frames, out, fill, mPreprocessors, ctl, rateVars>>

-----------------------------------------------------------------------------
(* addAudioEffect() and removeAudioEffect(): an echo canceller goes with a   *)
(* standby.  The flag is set before without the mutex, and the mutex is free *)
(* between the standby and the change.                                       *)

NeedEchoReference ==
  /\ pc # "closed" /\ ctl = "idle" /\ "aec" \notin mPreprocessors
  /\ ctl' = "need"
  /\ UNCHANGED <<pc, frames, dataVars, sizeVars, mRefBuf, mPreprocessors, active, echo,
                 rateVars>>

AddStandby ==
  /\ Unlocked /\ ctl = "need"
  /\ ctl' = "add"
  /\ GoesToStandby
  /\ UNCHANGED <<pc, frames, out, fill, mPreprocessors, rateVars>>

AddEffect ==
  /\ Unlocked
  /\ \/ /\ ctl = "add"
        /\ mPreprocessors' = mPreprocessors \cup {"aec"}
        /\ ctl' = "idle"
     \/ /\ ctl = "idle"
        /\ mPreprocessors' = mPreprocessors \cup {"ns"}
        /\ UNCHANGED ctl
  /\ UNCHANGED <<pc, frames, dataVars, sizeVars, mRefBuf, active, echo, rateVars>>

\* Without effects, what waits for them is left where it is and new frames pass it.
RemoveEffect(e) ==
  /\ Unlocked /\ ctl = "idle" /\ e \in mPreprocessors
  /\ mPreprocessors' = mPreprocessors \ {e}
  /\ ctl' = IF e = "aec" THEN "standby" ELSE "idle"
  /\ LET left == IF mPreprocessors = {e} THEN NextAfter(fx \o mProcBuf) ELSE 0
     IN  IF left > 0
           THEN /\ fx' = Copies(Lost, fx) /\ mProcBuf' = Copies(Lost, mProcBuf)
                /\ held' = Renumbered(held, left)
                /\ mInputBuf' = Renumbered(mInputBuf, left)
                /\ captured' = captured - left
           ELSE UNCHANGED <<fx, mProcBuf, held, mInputBuf, captured>>
  /\ UNCHANGED <<pc, frames, out, fill, sizeVars, mRefBuf, active, echo, rateVars>>

RemoveStandby ==
  /\ Unlocked /\ ctl = "standby"
  /\ ctl' = "idle"
  /\ GoesToStandby
  /\ UNCHANGED <<pc, frames, out, fill, mPreprocessors, rateVars>>

-----------------------------------------------------------------------------
(* read().                                                                   *)

\* processFrames() works on mProcBuf, readFrames() fills that or the client's buffer.
Begins == pc' = IF mPreprocessors = {} THEN "frames" ELSE "fill"

\* The echo reference needs an output; without one the stream opens all the same.
CallRead(n) ==
  /\ pc = "idle"
  /\ frames' = n
  /\ \/ /\ active
        /\ Begins
        /\ UNCHANGED <<dataVars, sizeVars, mRefBuf, active, echo>>
     \/ /\ ~active
        /\ echo' \in IF mNeedEchoReference THEN {echo, TRUE} ELSE {echo}
        /\ \/ Opens /\ Begins
           \/ pc' = "failed" /\ UNCHANGED <<mInputBuf, held, mProcBuf, fx, captured,
                                sizeVars, mRefBuf, active>>
        /\ UNCHANGED <<out, fill>>
  /\ UNCHANGED <<mPreprocessors, ctl, rateVars>>

Returns(buffer) ==
  /\ pc' = "idle" /\ out' = <<>> /\ fill' = <<>>
  /\ fx' = Renumbered(fx, NextAfter(buffer))
  /\ held' = Renumbered(held, NextAfter(buffer))
  /\ mInputBuf' = Renumbered(mInputBuf, NextAfter(buffer))
  /\ captured' = captured - NextAfter(buffer)

\* Error: the rest of read() after the mutex was given up.
ReadFailed ==
  /\ pc = "failed"
  /\ pc' = "idle" /\ out' = <<>> /\ fill' = <<>>
  /\ GoesToStandby
  /\ UNCHANGED <<frames, mPreprocessors, ctl, rateVars>>

(* readFrames(), getNextBuffer() and releaseBuffer().                        *)

Wanted == frames - IF mPreprocessors = {} THEN 0 ELSE Len(mProcBuf)
Reading == pc = "frames" /\ Len(fill) < Wanted
ReadUnchanged == <<frames, mProcBuf, sizeVars, fx, mRefBuf, streamVars, rateVars>>

NeedsPeriod == mInputBuf = <<>>

\* A read that fails goes to standby, and what was captured stays behind.
LosesAll ==
  /\ mInputBuf' = Copies(Lost, mInputBuf) /\ held' = Copies(Lost, held)
  /\ mProcBuf' = Copies(Lost, mProcBuf) /\ fx' = Copies(Lost, fx)
  /\ captured' = 0

PcmRead ==
  /\ Reading /\ NeedsPeriod
  /\ mDownSampler => Len(held) < Capacity
  /\ \/ /\ mInputBuf' = mInputBuf \o Frames(captured, AUDIO_HW_IN_PERIOD_SZ)
        /\ captured' = captured + AUDIO_HW_IN_PERIOD_SZ
        /\ UNCHANGED <<pc, out, fill, held, mProcBuf, fx>>
     \/ /\ pc' = "failed" /\ out' = <<>> /\ fill' = <<>>
        /\ LosesAll
  /\ UNCHANGED <<frames, sizeVars, mRefBuf, streamVars, rateVars>>

TakeFrames ==
  /\ Reading /\ ~mDownSampler /\ mInputBuf # <<>>
  /\ LET n == Smaller(Wanted - Len(fill), Len(mInputBuf))
     IN  /\ fill' = fill \o Upto(mInputBuf, n)
         /\ mInputBuf' = Beyond(mInputBuf, n)
  /\ UNCHANGED <<ReadUnchanged, pc, out, held, captured>>

\* The library's sampler takes frames in and gives frames out as it likes.
SamplerTakes ==
  /\ Reading /\ mDownSampler /\ mInputBuf # <<>> /\ Len(held) < Capacity
  /\ held' = Append(held, Head(mInputBuf))
  /\ mInputBuf' = Tail(mInputBuf)
  /\ UNCHANGED <<ReadUnchanged, pc, out, fill, captured>>

SamplerGives ==
  /\ Reading /\ mDownSampler /\ held # <<>>
  /\ fill' = Append(fill, Head(held))
  /\ held' = Tail(held)
  /\ UNCHANGED <<ReadUnchanged, pc, out, mInputBuf, captured>>

FramesRead ==
  /\ pc = "frames" /\ Len(fill) = Wanted
  /\ \/ /\ mPreprocessors = {}
        /\ Returns(fill)
        /\ UNCHANGED mProcBuf
     \/ /\ mPreprocessors # {}
        /\ mProcBuf' = mProcBuf \o fill
        /\ fill' = <<>>
        /\ pc' = IF echo THEN "push" ELSE "process"
        /\ UNCHANGED <<out, fx, held, mInputBuf, captured>>
  /\ UNCHANGED <<frames, sizeVars, mRefBuf, streamVars, rateVars>>

(* processFrames().                                                          *)

GrownProcBuf == Larger(mProcBufSize, frames)

Reloads_Bug == Len(mProcBuf) < frames /\ out = <<>>
Reloads == Len(mProcBuf) < frames

FillProcBuf ==
  /\ pc = "fill" /\ Len(out) < frames
  /\ \/ /\ Reloads
        /\ mProcBufSize' = GrownProcBuf
        /\ pc' = "frames"
     \/ /\ ~Reloads
        /\ pc' = IF echo THEN "push" ELSE "process"
        /\ UNCHANGED mProcBufSize
  /\ UNCHANGED <<frames, dataVars, mRefBufSize, mRefBuf, streamVars, rateVars>>

\* What the effects did not consume moves to the front, of mRefBuf and of mProcBuf.
Remaining_Bug(s, n) == Upto(s, Len(s) - n)
Remaining(s, n) == Beyond(s, n)

\* pushEchoReference() and updateEchoReference(): the reference may have fewer frames
\* than are needed, and the effects may consume fewer than they are offered.
PushEchoReference ==
  /\ pc = "push"
  /\ LET n == Len(mProcBuf)
         missing == Larger(n - Len(mRefBuf), 0)
     IN  /\ mRefBufSize' = IF missing > 0 THEN Larger(mRefBufSize, n) ELSE mRefBufSize
         /\ \E k \in 0..missing :
              LET buf == mRefBuf \o Frames(Len(mRefBuf), k)
              IN  \E c \in 0..Smaller(n, Len(buf)) :
                    mRefBuf' = Renumbered(Remaining(buf, c), c)
  /\ pc' = "process"
  /\ UNCHANGED <<frames, dataVars, mProcBufSize, streamVars, rateVars>>

\* The effects consume some frames, hold a few and produce others; given frames, they
\* do something.
ProcessRoom == frames - Len(out)

Process ==
  /\ pc = "process"
  /\ \E c \in 0..Len(mProcBuf), p \in 0..ProcessRoom :
       LET inside == fx \o Upto(mProcBuf, c)
       IN  /\ mProcBuf # <<>> => c + p > 0
           /\ p <= Len(inside) /\ Len(inside) - p <= Capacity
           /\ out' = out \o Upto(inside, p)
           /\ fx' = Beyond(inside, p)
           /\ mProcBuf' = Remaining(mProcBuf, c)
  /\ pc' = "fill"
  /\ UNCHANGED <<frames, fill, mInputBuf, held, captured, sizeVars,
                 mRefBuf, streamVars, rateVars>>

\* process() fails and leaves both counts as they were; nobody looks at its result.
ProcessFails ==
  /\ pc = "process"
  /\ out' = [i \in 1..frames |-> IF i > Len(out) THEN Junk ELSE Lost]
  /\ mProcBuf' = <<>>
  /\ fx' = Copies(Lost, fx)
  /\ LET lost == NextAfter(out \o fx \o mProcBuf)
     IN  /\ held' = Renumbered(held, lost)
         /\ mInputBuf' = Renumbered(mInputBuf, lost)
         /\ captured' = captured - lost
  /\ pc' = "fill"
  /\ UNCHANGED <<frames, fill, sizeVars, mRefBuf, streamVars, rateVars>>

FramesProcessed ==
  /\ pc = "fill" /\ Len(out) >= frames
  /\ Returns(out)
  /\ mProcBuf' = Renumbered(mProcBuf, NextAfter(out))
  /\ UNCHANGED <<frames, sizeVars, mRefBuf, streamVars, rateVars>>

\* closeInputStream() and the destructor.
CloseInputStream ==
  /\ pc = "idle" /\ ctl = "idle"
  /\ pc' = "closed" /\ frames' = 0 /\ mDownSampler' = FALSE
  /\ out' = <<>> /\ fill' = <<>> /\ mInputBuf' = <<>> /\ held' = <<>>
  /\ mProcBuf' = <<>> /\ mProcBufSize' = 0 /\ mRefBuf' = <<>> /\ mRefBufSize' = 0
  /\ mPreprocessors' = {} /\ fx' = <<>>
  /\ active' = FALSE /\ echo' = FALSE
  /\ captured' = 0
  /\ UNCHANGED <<ctl, asked, suggested>>

-----------------------------------------------------------------------------

ReadStep ==
  \/ ReadFailed \/ PcmRead \/ TakeFrames \/ SamplerTakes \/ SamplerGives
  \/ FramesRead \/ FillProcBuf \/ PushEchoReference \/ Process \/ ProcessFails
  \/ FramesProcessed

Next ==
  \/ \E r \in AskedRates : OpenInputStream(r)
  \/ \E n \in ReadSizes : CallRead(n)
  \/ ReadStep
  \/ Standby \/ Restart
  \/ NeedEchoReference \/ AddStandby \/ AddEffect \/ RemoveStandby
  \/ \E e \in Effects : RemoveEffect(e)
  \/ CloseInputStream

Spec == Init /\ [][Next]_vars

\* A thread that is in read() goes on; pcm_read() returns, with frames or an error.
FairSpec == Spec /\ WF_vars(ReadStep)

-----------------------------------------------------------------------------
(* Properties.                                                               *)

\* Every variable has a value the code can give it, and what the down sampler and the
\* effects hold back is bounded.
TypeOK ==
  /\ pc \in {"closed", "idle", "failed", "frames", "fill", "push", "process"}
  /\ frames \in ReadSizes \cup {0}
  /\ {out, fill, mInputBuf, held, mProcBuf, fx, mRefBuf} \subseteq Seq(Int)
  /\ Len(held) <= Capacity /\ Len(fx) <= Capacity
  /\ mProcBufSize \in Nat /\ mRefBufSize \in Nat
  /\ mDownSampler \in BOOLEAN /\ active \in BOOLEAN /\ echo \in BOOLEAN
  /\ mPreprocessors \subseteq Effects
  /\ ctl \in {"idle", "need", "add", "standby"}
  /\ captured \in Nat

\* What the code takes for frames is never more than the memory it has, and never
\* memory that was freed: standby frees mProcBuf and mRefBuf but leaves their counts.
BuffersFit ==
  /\ Len(out) <= frames
  /\ Len(mInputBuf) <= AUDIO_HW_IN_PERIOD_SZ
  /\ active =>
    /\ Len(mProcBuf) + (IF mPreprocessors = {} THEN 0 ELSE Len(fill)) <= mProcBufSize
    /\ Len(mRefBuf) <= mRefBufSize
    /\ \A i \in DOMAIN mProcBuf : mProcBuf[i] # Junk
    /\ \A i \in DOMAIN mRefBuf : mRefBuf[i] # Junk

\* Frames on their way to the client, the oldest first.
OnTheWay == out \o fx \o mProcBuf \o fill \o held \o mInputBuf

\* A stretch of frames that starts n after the next one to return: it has the numbers
\* that follow, and what is before the next one has none.
Follow(s, n) ==
  \A i \in DOMAIN s : IF n + i > 0 THEN s[i] = n + i - 1 ELSE s[i] < 0

\* The newest ones are those that were captured, in the order of their numbers.
CaptureInOrder ==
  /\ captured <= Len(OnTheWay)
  /\ Follow(OnTheWay, captured - Len(OnTheWay))

\* The echo reference's frames are numbered from the first the effects have not had.
EchoInOrder == active => mRefBuf = Frames(0, Len(mRefBuf))

\* However reads of different sizes, partial consumption by the effects and changes
\* of the effects mix, the client gets every captured frame once and in order, after
\* what the effects still held from the session before, and the effects get those of
\* the echo reference so.  The frames that a failing effect and the removal of the
\* last one cost the client are not among these.
FramesInOrder == CaptureInOrder /\ EchoInOrder

\* A client whose rate is refused is told one that is accepted, and none is nearer.
RateSettled ==
  suggested # 0 =>
    /\ GetInputSampleRate(suggested) = suggested
    /\ \A i \in DOMAIN SampleRates :
         asked - suggested \in -Delta(asked, i)..Delta(asked, i)

\* A read comes back, with the frames or with an error.
ReadReturns == pc \notin {"closed", "idle"} ~> pc = "idle"
=============================================================================
