---------------------- MODULE AudioHardware_proofs ----------------------
(***************************************************************************)
(* Proofs about AudioHardware, for every set of devices and modes and with *)
(* or without driver failures.                                             *)
(*                                                                         *)
(*   - In every environment: type correctness; that no stream uses an echo *)
(*     reference that was released; the order in which the two PCMs are    *)
(*     opened; the muted microphone.                                       *)
(*   - If opening the device for a call does not fail, with and without    *)
(*     echo cancellers: the counts of users of the playback PCM and of the *)
(*     mixer, the open PCM of an active output, and the wake lock.         *)
(*   - Without an echo canceller, and with streams closed when nobody      *)
(*     refers to them, which is where TLC finds them to hold: the mutex    *)
(*     order, and from it the absence of circular waits.                   *)
(***************************************************************************)
EXTENDS AudioHardware, TLAPS

\* Where setMode() is before it changes anything.
ModePCs == {"mLockOut", "mRelockHw", "mLockIn", "mRelockHwIn", "mSet"}

\* The types of the variables that are functions of the thread or the mutex.
ControlOK ==
  /\ lock \in [Locks -> Threads \cup {"free"}]
  /\ pc \in [Threads -> PCs]
  /\ call \in [Threads -> Calls]
  /\ cont \in [Threads -> PCs \cup {"none"}]

\* RefCounts, of any state of the streams and the device.
Counts(a) ==
  /\ a.hw.pcmCnt = One(a.out.pcm) + One(a.hw.callPcm)
  /\ a.hw.mixerCnt = One(a.out.mixer) + One(a.in.mixer) + One(a.hw.callMixer)

-----------------------------------------------------------------------------
(* The device's operators, each for every state it may be called in.         *)

\* What every operator leaves alone.
Keeps(a, b) ==
  /\ b.out.state = a.out.state /\ b.in.state = a.in.state
  /\ b.in.echo = a.in.echo /\ b.in.need = a.in.need
  /\ b.hw.inCall = a.hw.inCall
  /\ b.hw.callPcm = a.hw.callPcm /\ b.hw.callMixer = a.hw.callMixer

\* What those leave alone that may release an echo reference.
KeepsCall(a, b) ==
  /\ b.out.state = a.out.state /\ b.in.state = a.in.state
  /\ b.hw.inCall = a.hw.inCall
  /\ b.hw.callPcm = a.hw.callPcm /\ b.hw.callMixer = a.hw.callMixer

\* closePcmOut_l(): one user less, nothing else.
LEMMA ClosePcmFacts ==
  ASSUME NEW a \in Audio
  PROVE  LET b == ClosePcm(a) IN
         /\ b \in Audio /\ Keeps(a, b)
         /\ b.out = a.out /\ b.in = a.in /\ b.chip = a.chip
         /\ b.hw.pcmCnt = (IF a.hw.pcmCnt = 0 THEN 0 ELSE a.hw.pcmCnt - 1)
         /\ b.hw.mixerCnt = a.hw.mixerCnt
BY DEF ClosePcm, Audio, Hw, Keeps

\* closeMixer_l(): one user less, nothing else.
LEMMA CloseMixerFacts ==
  ASSUME NEW a \in Audio
  PROVE  LET b == CloseMixer(a) IN
         /\ b \in Audio /\ Keeps(a, b)
         /\ b.out = a.out /\ b.in = a.in /\ b.chip = a.chip
         /\ b.hw.mixerCnt = (IF a.hw.mixerCnt = 0 THEN 0 ELSE a.hw.mixerCnt - 1)
         /\ b.hw.pcmCnt = a.hw.pcmCnt
BY DEF CloseMixer, Audio, Hw, Keeps

\* openPcmOut_l(): one user more, or nothing.
LEMMA OpenPcmFacts ==
  ASSUME NEW a \in Audio, NEW f \in BOOLEAN, NEW b \in OpenPcm(a, f)
  PROVE  /\ b \in Audio /\ Keeps(a, b)
         /\ b.out = a.out /\ b.in = a.in /\ b.chip = a.chip
         /\ b.hw.pcmCnt = a.hw.pcmCnt + 1 \/ (f /\ b.hw.pcmCnt = a.hw.pcmCnt)
         /\ b.hw.mixerCnt = a.hw.mixerCnt
<1>1. CASE f /\ b = a
  BY <1>1 DEF Keeps
<1>2. CASE ~(f /\ b = a)
  <2>1. PICK l \in {TRUE, FALSE} : b = [a EXCEPT !.hw.pcmCnt = @ + 1, !.hw.late = l]
    BY <1>2 DEF OpenPcm, Faulty
  <2>2. PICK n \in Nat : n = a.hw.pcmCnt + 1
    BY DEF Audio, Hw
  <2>3. PICK k : k = [a.hw EXCEPT !.pcmCnt = n, !.late = l]
    OBVIOUS
  <2>4. b = [a EXCEPT !.hw = k]
    BY <2>1, <2>2, <2>3 DEF Audio, Hw
  <2>5. a.hw \in Hw
    BY DEF Audio
  <2>6. /\ k \in Hw /\ k.inCall = a.hw.inCall /\ k.callPcm = a.hw.callPcm
        /\ k.callMixer = a.hw.callMixer /\ k.pcmCnt = n
        /\ k.mixerCnt = a.hw.mixerCnt
    BY <2>3, <2>5 DEF Hw
  <2>7. QED
    BY <2>2, <2>4, <2>6 DEF Audio, Keeps
<1>3. QED
  BY <1>1, <1>2

\* openMixer_l(): one user more, or nothing.
LEMMA OpenMixerFacts ==
  ASSUME NEW a \in Audio, NEW f \in BOOLEAN, NEW b \in OpenMixer(a, f)
  PROVE  /\ b \in Audio /\ Keeps(a, b)
         /\ b.out = a.out /\ b.in = a.in /\ b.chip = a.chip
         /\ b.hw.mixerCnt = a.hw.mixerCnt + 1
              \/ (f /\ b.hw.mixerCnt = a.hw.mixerCnt)
         /\ b.hw.pcmCnt = a.hw.pcmCnt
BY DEF OpenMixer, Faulty, Audio, Hw, Keeps
\* close_l() of either stream.
LEMMA CloseOutFacts ==
  ASSUME NEW a \in Audio, Counts(a)
  PROVE  LET b == CloseOut(a) IN
         /\ b \in Audio /\ Keeps(a, b) /\ Counts(b)
         /\ ~b.out.pcm /\ ~b.out.mixer /\ b.out.standby = a.out.standby
         /\ b.in = a.in /\ b.chip = a.chip
<1> DEFINE m == IF a.out.mixer THEN CloseMixer(a) ELSE a
           p == IF a.out.pcm THEN ClosePcm(m) ELSE m
           b == [p EXCEPT !.out.pcm = FALSE, !.out.mixer = FALSE]
<1>1. a.out.pcm \in BOOLEAN /\ a.out.mixer \in BOOLEAN /\ a.in.mixer \in BOOLEAN
      /\ a.hw.callPcm \in BOOLEAN /\ a.hw.callMixer \in BOOLEAN
  BY DEF Audio, Out, In, Hw
<1>2. /\ m \in Audio /\ Keeps(a, m) /\ m.out = a.out /\ m.in = a.in
      /\ m.chip = a.chip /\ m.hw.pcmCnt = a.hw.pcmCnt
      /\ m.hw.mixerCnt = One(a.in.mixer) + One(a.hw.callMixer)
  BY <1>1, CloseMixerFacts DEF Counts, One, Keeps
<1> HIDE DEF m
<1>3. /\ p \in Audio /\ Keeps(a, p) /\ p.out = a.out /\ p.in = a.in
      /\ p.chip = a.chip /\ p.hw.mixerCnt = m.hw.mixerCnt
      /\ p.hw.pcmCnt = One(a.hw.callPcm)
  BY <1>1, <1>2, ClosePcmFacts DEF Counts, One, Keeps
<1> HIDE DEF p
<1>4. /\ b \in Audio /\ b.in = p.in /\ b.chip = p.chip /\ b.hw = p.hw
      /\ ~b.out.pcm /\ ~b.out.mixer /\ b.out.standby = p.out.standby
      /\ b.out.state = p.out.state
  BY <1>3 DEF Audio, Out
<1>5. b = CloseOut(a)
  BY DEF CloseOut, m, p
<1> HIDE DEF b
<1>6. Keeps(a, b)
  BY <1>3, <1>4 DEF Keeps
<1>7. b.hw.pcmCnt = One(b.out.pcm) + One(b.hw.callPcm)
  BY <1>1, <1>3, <1>4 DEF One, Keeps
<1>8. b.hw.mixerCnt = One(b.out.mixer) + One(b.in.mixer) + One(b.hw.callMixer)
  BY <1>1, <1>2, <1>3, <1>4 DEF One, Keeps
<1>9. QED
  BY <1>3, <1>4, <1>5, <1>6, <1>7, <1>8 DEF Counts

\* The input's close_l() gives back what the input has open.
LEMMA CloseInFacts ==
  ASSUME NEW a \in Audio, Counts(a)
  PROVE  LET b == CloseIn(a) IN
         /\ b \in Audio /\ Keeps(a, b) /\ Counts(b)
         /\ ~b.in.pcm /\ ~b.in.mixer /\ b.in.standby = a.in.standby
         /\ b.out = a.out /\ b.chip = a.chip
<1> DEFINE m == IF a.in.mixer THEN CloseMixer(a) ELSE a
           b == [m EXCEPT !.in.pcm = FALSE, !.in.mixer = FALSE]
<1>1. a.out.pcm \in BOOLEAN /\ a.out.mixer \in BOOLEAN /\ a.in.mixer \in BOOLEAN
      /\ a.hw.callPcm \in BOOLEAN /\ a.hw.callMixer \in BOOLEAN
  BY DEF Audio, Out, In, Hw
<1>2. /\ m \in Audio /\ Keeps(a, m) /\ m.out = a.out /\ m.in = a.in
      /\ m.chip = a.chip /\ m.hw.pcmCnt = a.hw.pcmCnt
      /\ m.hw.mixerCnt = One(a.out.mixer) + One(a.hw.callMixer)
  BY <1>1, CloseMixerFacts DEF Counts, One, Keeps
<1> HIDE DEF m
<1>3. /\ b \in Audio /\ b.out = m.out /\ b.chip = m.chip /\ b.hw = m.hw
      /\ ~b.in.pcm /\ ~b.in.mixer /\ b.in.standby = m.in.standby
      /\ b.in.state = m.in.state /\ b.in.echo = m.in.echo
      /\ b.in.need = m.in.need
  BY <1>2 DEF Audio, In
<1>4. b = CloseIn(a)
  BY DEF CloseIn, m
<1> HIDE DEF b
<1>5. Keeps(a, b)
  BY <1>2, <1>3 DEF Keeps
<1>6. Counts(b)
  BY <1>1, <1>2, <1>3 DEF Counts, One, Keeps
<1>7. QED
  BY <1>2, <1>3, <1>4, <1>5, <1>6
\* open_l() of a closed stream.
LEMMA OpenOutFacts ==
  ASSUME NEW a \in Audio, Counts(a), ~a.out.pcm, ~a.out.mixer, NEW b \in OpenOut(a)
  PROVE  /\ b \in Audio /\ Keeps(a, b) /\ Counts(b)
         /\ b.out.mixer => b.out.pcm
         /\ b.out.standby = a.out.standby
         /\ b.in = a.in /\ b.chip.wake = a.chip.wake
<1>1. a.out.pcm \in BOOLEAN /\ a.out.mixer \in BOOLEAN /\ a.in.mixer \in BOOLEAN
      /\ a.hw.callPcm \in BOOLEAN /\ a.hw.callMixer \in BOOLEAN
      /\ a.hw.pcmCnt \in Nat /\ a.hw.mixerCnt \in Nat /\ DriverFaults \in BOOLEAN
  BY AudioAssumption DEF Audio, Out, In, Hw
<1> DEFINE Opened(m) == [m EXCEPT !.out.pcm = TRUE,
                                  !.out.mixer = (m.hw.mixerCnt > a.hw.mixerCnt),
                                  !.chip.play = IF m.hw.mixerCnt > a.hw.mixerCnt /\
                                                   m.hw.mode # "IN_CALL"
                                                  THEN m.out.device ELSE @]
<1>2. PICK p \in OpenPcm(a, DriverFaults) :
        IF p.hw.pcmCnt = a.hw.pcmCnt THEN b = p
        ELSE \E m \in OpenMixer(p, DriverFaults) : b = Opened(m)
  BY DEF OpenOut
<1>3. /\ p \in Audio /\ Keeps(a, p) /\ p.out = a.out /\ p.in = a.in
      /\ p.chip = a.chip /\ p.hw.mixerCnt = a.hw.mixerCnt
      /\ p.hw.pcmCnt = a.hw.pcmCnt + 1 \/ p.hw.pcmCnt = a.hw.pcmCnt
  BY <1>1, OpenPcmFacts
<1>4. CASE p.hw.pcmCnt = a.hw.pcmCnt
  BY <1>2, <1>3, <1>4 DEF Counts, Keeps
<1>5. CASE p.hw.pcmCnt # a.hw.pcmCnt
  <2>1. PICK m \in OpenMixer(p, DriverFaults) : b = Opened(m)
    BY <1>2, <1>5
  <2>2. /\ m \in Audio /\ Keeps(a, m) /\ m.out = a.out /\ m.in = a.in
        /\ m.chip = a.chip /\ m.hw.pcmCnt = a.hw.pcmCnt + 1
        /\ m.hw.mixerCnt = a.hw.mixerCnt + 1 \/ m.hw.mixerCnt = a.hw.mixerCnt
    BY <1>1, <1>3, <1>5, <2>1, OpenMixerFacts DEF Keeps
  <2>3. PICK x \in {TRUE, FALSE} : x <=> (m.hw.mixerCnt > a.hw.mixerCnt)
    BY Zenon
  <2>4. PICK d \in Devices \cup {Receiver} :
          b = [m EXCEPT !.out.pcm = TRUE, !.out.mixer = x, !.chip.play = d]
    <3>1. CASE x
      <4>1. m.hw.mixerCnt > a.hw.mixerCnt
        BY <2>3, <3>1
      <4>2. (m.hw.mixerCnt > a.hw.mixerCnt) = TRUE
        BY <4>1
      <4>3. QED
        BY <2>1, <2>2, <3>1, <4>2 DEF Audio, Out, Chip
    <3>2. CASE ~x
      <4>1. ~(m.hw.mixerCnt > a.hw.mixerCnt)
        BY <2>3, <3>2
      <4>2. (m.hw.mixerCnt > a.hw.mixerCnt) = FALSE
        BY <4>1
      <4>3. QED
        BY <2>1, <2>2, <3>2, <4>2 DEF Audio, Out, Chip
    <3>3. QED
      BY <3>1, <3>2
  <2>5. /\ b \in Audio /\ b.in = m.in /\ b.hw = m.hw /\ b.chip.wake = m.chip.wake
        /\ b.out.pcm /\ b.out.mixer = x /\ b.out.standby = m.out.standby
        /\ b.out.state = m.out.state
    BY <2>2, <2>4 DEF Audio, Out, Chip
  <2>6. Keeps(a, b)
    BY <2>2, <2>5 DEF Keeps
  <2>7. Counts(b)
    <3>1. m.hw.mixerCnt = a.hw.mixerCnt + One(x)
      BY <1>1, <2>2, <2>3 DEF One
    <3>2. QED
      BY <1>1, <2>2, <2>5, <3>1 DEF Counts, One, Keeps
  <2>8. QED
    BY <2>2, <2>5, <2>6, <2>7
<1>6. QED
  BY <1>4, <1>5

\* The input's open_l(): all of it, the capture PCM alone, or nothing.
LEMMA OpenInFacts ==
  ASSUME NEW a \in Audio, Counts(a), ~a.in.mixer, NEW b \in OpenIn(a)
  PROVE  /\ b \in Audio /\ Keeps(a, b) /\ Counts(b)
         /\ b.in.mixer => b.in.pcm
         /\ b.in.standby = a.in.standby /\ (b.in.pcm \/ b = a)
         /\ b.out = a.out /\ b.chip.wake = a.chip.wake
<1>1. a.out.mixer \in BOOLEAN /\ a.in.mixer \in BOOLEAN /\ a.hw.mute \in BOOLEAN
      /\ a.hw.callMixer \in BOOLEAN /\ a.hw.mixerCnt \in Nat
      /\ DriverFaults \in BOOLEAN
  BY AudioAssumption DEF Audio, Out, In, Hw
<1> DEFINE Opened(m) == [m EXCEPT !.in.pcm = TRUE,
                                  !.in.mixer = (m.hw.mixerCnt > a.hw.mixerCnt),
                                  !.chip.mic = IF m.hw.mixerCnt > a.hw.mixerCnt /\
                                                  m.hw.mode # "IN_CALL"
                                                 THEN ~m.hw.mute ELSE @]
<1>2. CASE b = a
  BY <1>2 DEF Keeps
<1>3. CASE b # a
  <2>1. PICK m \in OpenMixer(a, DriverFaults) : b = Opened(m)
    BY <1>3 DEF OpenIn, Faulty
  <2>2. /\ m \in Audio /\ Keeps(a, m) /\ m.out = a.out /\ m.in = a.in
        /\ m.chip = a.chip /\ m.hw.pcmCnt = a.hw.pcmCnt
        /\ m.hw.mixerCnt = a.hw.mixerCnt + 1 \/ m.hw.mixerCnt = a.hw.mixerCnt
    BY <1>1, <2>1, OpenMixerFacts
  <2>3. PICK x \in {TRUE, FALSE} : x <=> (m.hw.mixerCnt > a.hw.mixerCnt)
    BY Zenon
  <2>4. PICK d \in {TRUE, FALSE} :
          b = [m EXCEPT !.in.pcm = TRUE, !.in.mixer = x, !.chip.mic = d]
    <3>1. CASE x
      <4>1. m.hw.mixerCnt > a.hw.mixerCnt
        BY <2>3, <3>1
      <4>2. (m.hw.mixerCnt > a.hw.mixerCnt) = TRUE
        BY <4>1
      <4>3. QED
        BY <2>1, <2>2, <3>1, <4>2 DEF Audio, Chip, Hw
    <3>2. CASE ~x
      <4>1. ~(m.hw.mixerCnt > a.hw.mixerCnt)
        BY <2>3, <3>2
      <4>2. (m.hw.mixerCnt > a.hw.mixerCnt) = FALSE
        BY <4>1
      <4>3. QED
        BY <2>1, <2>2, <3>2, <4>2 DEF Audio, Chip, Hw
    <3>3. QED
      BY <3>1, <3>2
  <2>5. /\ b \in Audio /\ b.out = m.out /\ b.hw = m.hw /\ b.chip.wake = m.chip.wake
        /\ b.in.pcm /\ b.in.mixer = x /\ b.in.standby = m.in.standby
        /\ b.in.state = m.in.state /\ b.in.echo = m.in.echo /\ b.in.need = m.in.need
    BY <2>2, <2>4 DEF Audio, In, Chip
  <2>6. Keeps(a, b)
    BY <2>2, <2>5 DEF Keeps
  <2>7. Counts(b)
    <3>1. m.hw.mixerCnt = a.hw.mixerCnt + One(x)
      BY <1>1, <2>2, <2>3 DEF One
    <3>2. QED
      BY <1>1, <2>2, <2>5, <3>1 DEF Counts, One, Keeps
  <2>8. QED
    BY <2>2, <2>5, <2>6, <2>7
<1>4. QED
  BY <1>2, <1>3

\* doStandby_l() of either stream.
LEMMA StandbyOutFacts ==
  ASSUME NEW a \in Audio, Counts(a)
  PROVE  LET b == StandbyOut(a) IN
         /\ b \in Audio /\ Keeps(a, b) /\ Counts(b)
         /\ ~b.out.pcm /\ ~b.out.mixer /\ b.out.standby
         /\ b.in = a.in
         /\ b.chip.wake = (a.out.standby /\ a.chip.wake)
<1>1. PICK w \in {TRUE, FALSE} : w = (a.out.standby /\ a.chip.wake)
  OBVIOUS
<1>2. PICK c : c = [a EXCEPT !.out.fresh = {}, !.out.standby = TRUE,
                             !.chip.wake = w]
  OBVIOUS
<1>3. c = [a EXCEPT !.out.fresh = {}, !.out.standby = TRUE,
                    !.chip.wake = IF a.out.standby THEN @ ELSE FALSE]
  BY <1>1, <1>2 DEF Audio, Out, Chip
<1>4. /\ c \in Audio /\ c.in = a.in /\ c.hw = a.hw /\ c.chip.wake = w
      /\ c.out.standby /\ c.out.pcm = a.out.pcm /\ c.out.mixer = a.out.mixer
      /\ c.out.state = a.out.state
  BY <1>2 DEF Audio, Out, Chip
<1>5. Keeps(a, c) /\ Counts(c)
  BY <1>4 DEF Keeps, Counts
<1>6. StandbyOut(a) = CloseOut(c)
  BY <1>3 DEF StandbyOut
<1>7. QED
  BY <1>1, <1>4, <1>5, <1>6, CloseOutFacts DEF Keeps

\* The end of the input's doStandby_l().
LEMMA StandbyInFacts ==
  ASSUME NEW a \in Audio, Counts(a)
  PROVE  LET b == StandbyIn(a) IN
         /\ b \in Audio /\ KeepsCall(a, b) /\ Counts(b)
         /\ ~b.in.pcm /\ ~b.in.mixer /\ b.in.standby
         /\ b.out = a.out /\ b.chip = a.chip
         /\ ~a.in.echo => Keeps(a, b)
<1>1. PICK e \in BOOLEAN : e = IF a.in.standby THEN a.in.echo ELSE FALSE
  BY DEF Audio, In
<1>2. PICK c : c = [a EXCEPT !.in.echo = e, !.in.standby = TRUE]
  OBVIOUS
<1>3. /\ c \in Audio /\ c.out = a.out /\ c.chip = a.chip /\ c.hw = a.hw
      /\ c.in.state = a.in.state /\ c.in.echo = e /\ c.in.need = a.in.need
      /\ c.in.mixer = a.in.mixer /\ c.in.standby
  BY <1>2 DEF Audio, In
<1>4. KeepsCall(a, c) /\ Counts(c)
  BY <1>3 DEF KeepsCall, Counts
<1>5. ~a.in.echo => Keeps(a, c)
  <2>1. a.in.echo \in BOOLEAN
    BY DEF Audio, In
  <2>2. QED
    BY <1>1, <1>3, <2>1 DEF Keeps
<1>6. StandbyIn(a) = CloseIn(c)
  BY <1>1, <1>2 DEF StandbyIn, Audio, In
<1>7. QED
  BY <1>3, <1>4, <1>5, <1>6, CloseInFacts DEF Keeps, KeepsCall

\* Both streams opened again, the output coming out of standby.
LEMMA ReopenBothFacts ==
  ASSUME NEW a \in Audio, Counts(a), ~a.out.pcm, ~a.out.mixer,
         NEW b \in ReopenBoth(a)
  PROVE  /\ b \in Audio /\ Keeps(a, b) /\ Counts(b)
         /\ b.out.mixer => b.out.pcm
         /\ b.out.standby = a.out.standby /\ b.in.standby = a.in.standby
         /\ b.chip.wake = a.chip.wake
         /\ b.in.mixer => b.in.pcm
<1> DEFINE c == CloseIn(a)
<1>1. PICK d \in OpenOut(c) : b \in OpenIn(d)
  BY DEF ReopenBoth
<1>2. /\ c \in Audio /\ Keeps(a, c) /\ Counts(c) /\ ~c.in.mixer
      /\ c.in.standby = a.in.standby /\ c.out = a.out /\ c.chip = a.chip
  BY CloseInFacts
<1> HIDE DEF c
<1>3. /\ d \in Audio /\ Keeps(c, d) /\ Counts(d) /\ d.in = c.in
      /\ d.out.mixer => d.out.pcm
      /\ d.out.standby = c.out.standby /\ d.chip.wake = c.chip.wake
  BY <1>1, <1>2, OpenOutFacts
<1>4. /\ b \in Audio /\ Keeps(d, b) /\ Counts(b)
      /\ b.in.mixer => b.in.pcm
      /\ b.in.standby = d.in.standby /\ b.out = d.out
      /\ b.chip.wake = d.chip.wake
  BY <1>1, <1>2, <1>3, OpenInFacts
<1>5. QED
  BY <1>2, <1>3, <1>4 DEF Keeps

\* The output closed and opened again for the input.
LEMMA RestartOutFacts ==
  ASSUME NEW a \in Audio, Counts(a), a.out.pcm = ~a.out.standby,
         a.out.mixer => a.out.pcm, a.chip.wake = ~a.out.standby,
         NEW b \in RestartOut(a)
  PROVE  /\ b \in Audio /\ Keeps(a, b) /\ Counts(b)
         /\ b.in = a.in
         /\ b.out.pcm = ~b.out.standby /\ (b.out.mixer => b.out.pcm)
         /\ b.chip.wake = ~b.out.standby
         /\ a.out.standby => b.out.standby
<1>1. CASE ~ActiveOut(a)
  BY <1>1 DEF RestartOut, Keeps
<1>2. CASE ActiveOut(a)
  <2> DEFINE c == CloseOut(a)
  <2>1. PICK d \in OpenOut(c) : b = IF d.out.pcm THEN d ELSE StandbyOut(d)
    BY <1>2 DEF RestartOut
  <2>2. /\ c \in Audio /\ Keeps(a, c) /\ Counts(c) /\ ~c.out.pcm /\ ~c.out.mixer
        /\ c.out.standby = a.out.standby /\ c.in = a.in /\ c.chip = a.chip
    BY CloseOutFacts
  <2> HIDE DEF c
  <2>3. /\ d \in Audio /\ Keeps(c, d) /\ Counts(d) /\ d.in = c.in
        /\ d.out.mixer => d.out.pcm
        /\ d.out.standby = c.out.standby /\ d.chip.wake = c.chip.wake
    BY <2>1, <2>2, OpenOutFacts
  <2>4. ~a.out.standby /\ a.out.standby = FALSE /\ d.out.pcm \in BOOLEAN
    BY <1>2, <2>3 DEF ActiveOut, Audio, Out
  <2>5. CASE d.out.pcm
    BY <2>1, <2>2, <2>3, <2>4, <2>5 DEF Keeps
  <2>6. CASE ~d.out.pcm
    <3>1. b = StandbyOut(d)
      BY <2>1, <2>6
    <3>2. /\ b \in Audio /\ Keeps(d, b) /\ Counts(b)
          /\ ~b.out.pcm /\ ~b.out.mixer /\ b.out.standby
          /\ b.in = d.in /\ b.chip.wake = (d.out.standby /\ d.chip.wake)
      BY <2>3, <3>1, StandbyOutFacts
    <3>3. b.out.pcm \in BOOLEAN /\ b.out.standby \in BOOLEAN
      BY <3>2 DEF Audio, Out
    <3>4. QED
      BY <2>2, <2>3, <2>4, <3>2, <3>3 DEF Keeps
  <2>7. QED
    BY <2>5, <2>6
<1>3. QED
  BY <1>1, <1>2

\* The end and the beginning of a call.
LEMMA HangUpFacts ==
  ASSUME NEW a \in Audio, Counts(a), a.hw.callPcm = TRUE, a.hw.callMixer = TRUE
  PROVE  LET b == HangUp(a) IN
         /\ b \in Audio /\ Counts(b)
         /\ b.out = a.out /\ b.in = a.in /\ b.chip.wake = a.chip.wake
         /\ b.hw.inCall = a.hw.inCall
         /\ b.hw.callPcm = FALSE /\ b.hw.callMixer = FALSE
<1>1. PICK d \in Devices \cup {Receiver} :
        d = IF a.hw.mixerCnt > 0 THEN Receiver ELSE a.chip.play
  BY DEF Audio, Chip
<1>2. PICK c : c = [a EXCEPT !.chip.play = d, !.hw.callPcm = FALSE,
                             !.hw.callMixer = FALSE]
  OBVIOUS
<1>3. HangUp(a) = ClosePcm(CloseMixer(c))
  BY <1>1, <1>2 DEF HangUp, Audio, Chip
<1>4. /\ c \in Audio /\ c.out = a.out /\ c.in = a.in /\ c.chip.wake = a.chip.wake
      /\ c.hw.inCall = a.hw.inCall /\ c.hw.callPcm = FALSE
      /\ c.hw.callMixer = FALSE /\ c.hw.pcmCnt = a.hw.pcmCnt
      /\ c.hw.mixerCnt = a.hw.mixerCnt
  BY <1>2 DEF Audio, Chip, Hw
<1> DEFINE m == CloseMixer(c)
           b == ClosePcm(m)
<1>5. /\ m \in Audio /\ Keeps(c, m) /\ m.out = c.out /\ m.in = c.in
      /\ m.chip = c.chip /\ m.hw.pcmCnt = c.hw.pcmCnt
      /\ m.hw.mixerCnt = (IF c.hw.mixerCnt = 0 THEN 0 ELSE c.hw.mixerCnt - 1)
  BY <1>4, CloseMixerFacts
<1> HIDE DEF m
<1>6. /\ b \in Audio /\ Keeps(m, b) /\ b.out = m.out /\ b.in = m.in
      /\ b.chip = m.chip /\ b.hw.mixerCnt = m.hw.mixerCnt
      /\ b.hw.pcmCnt = (IF m.hw.pcmCnt = 0 THEN 0 ELSE m.hw.pcmCnt - 1)
  BY <1>5, ClosePcmFacts
<1>7. b = HangUp(a)
  BY <1>3 DEF m
<1> HIDE DEF b
<1>8. /\ a.hw.pcmCnt \in Nat /\ a.hw.mixerCnt \in Nat /\ a.out.pcm \in BOOLEAN
      /\ a.out.mixer \in BOOLEAN /\ a.in.mixer \in BOOLEAN
  BY DEF Audio, Hw, In, Out
<1>9. b.hw.callPcm = FALSE /\ b.hw.callMixer = FALSE /\ b.hw.inCall = a.hw.inCall
  BY <1>4, <1>5, <1>6 DEF Keeps
<1>10. Counts(b)
  BY <1>4, <1>5, <1>6, <1>8, <1>9 DEF Counts, One
<1>11. QED
  BY <1>4, <1>5, <1>6, <1>7, <1>9, <1>10

\* A call takes its share of both counts.
LEMMA TakeCallFacts ==
  ASSUME ~CallFaults, NEW a \in Audio, Counts(a),
         a.hw.callPcm = FALSE, a.hw.callMixer = FALSE, NEW b \in TakeCall(a)
  PROVE  /\ b \in Audio /\ Counts(b)
         /\ b.out = a.out /\ b.in = a.in /\ b.chip = a.chip
         /\ b.hw.inCall = TRUE /\ b.hw.callPcm = TRUE /\ b.hw.callMixer = TRUE
<1>1. PICK p \in OpenPcm(a, CallFaults) : \E m \in OpenMixer(p, CallFaults) :
        b = [m EXCEPT !.hw.inCall = TRUE,
                      !.hw.callPcm = (p.hw.pcmCnt > a.hw.pcmCnt),
                      !.hw.callMixer = (m.hw.mixerCnt > p.hw.mixerCnt)]
  BY DEF TakeCall
<1>2. PICK m \in OpenMixer(p, CallFaults) :
        b = [m EXCEPT !.hw.inCall = TRUE,
                      !.hw.callPcm = (p.hw.pcmCnt > a.hw.pcmCnt),
                      !.hw.callMixer = (m.hw.mixerCnt > p.hw.mixerCnt)]
  BY <1>1
<1>3. CallFaults \in BOOLEAN
  BY AudioAssumption
<1>4. /\ a.hw.pcmCnt \in Nat /\ a.hw.mixerCnt \in Nat /\ a.out.pcm \in BOOLEAN
      /\ a.out.mixer \in BOOLEAN /\ a.in.mixer \in BOOLEAN
  BY DEF Audio, Hw, In, Out
<1>5. /\ p \in Audio /\ p.out = a.out /\ p.in = a.in /\ p.chip = a.chip
      /\ p.hw.pcmCnt = a.hw.pcmCnt + 1 /\ p.hw.mixerCnt = a.hw.mixerCnt
  BY <1>1, <1>3, OpenPcmFacts
<1>6. /\ m \in Audio /\ m.out = p.out /\ m.in = p.in /\ m.chip = p.chip
      /\ m.hw.pcmCnt = p.hw.pcmCnt /\ m.hw.mixerCnt = p.hw.mixerCnt + 1
  BY <1>2, <1>3, <1>5, OpenMixerFacts
<1>7. /\ (p.hw.pcmCnt > a.hw.pcmCnt) = TRUE
      /\ (m.hw.mixerCnt > p.hw.mixerCnt) = TRUE
  BY <1>4, <1>5, <1>6
<1>8. b = [m EXCEPT !.hw.inCall = TRUE, !.hw.callPcm = TRUE, !.hw.callMixer = TRUE]
  BY <1>2, <1>7
<1>9. /\ b \in Audio /\ b.out = m.out /\ b.in = m.in /\ b.chip = m.chip
      /\ b.hw.inCall = TRUE /\ b.hw.callPcm = TRUE /\ b.hw.callMixer = TRUE
      /\ b.hw.pcmCnt = m.hw.pcmCnt /\ b.hw.mixerCnt = m.hw.mixerCnt
  BY <1>6, <1>8 DEF Audio, Hw
<1>10. Counts(b)
  BY <1>4, <1>5, <1>6, <1>9 DEF Counts, One
<1>11. QED
  BY <1>5, <1>6, <1>9, <1>10

\* The input's doStandby_l(): done, or, to release an echo reference, waiting for
\* the output's mutex.
LEMMA DoStandbyInFacts ==
  ASSUME NEW t, NEW q, NEW a \in Audio, Counts(a), DoStandbyIn(t, a, q)
  PROVE  /\ audio' \in Audio /\ KeepsCall(a, audio') /\ Counts(audio')
         /\ audio'.out = a.out /\ audio'.chip = a.chip
         /\ \/ /\ ~audio'.in.pcm /\ ~audio'.in.mixer /\ audio'.in.standby
               /\ ~a.in.echo => Keeps(a, audio')
               /\ lock' = [lock EXCEPT !["in"] = t, !["hw"] = t]
               /\ Goto(t, q) /\ cont' = cont
            \/ /\ a.in.echo /\ ~a.in.standby /\ a.out.state = "open"
               /\ audio'.in.mixer = a.in.mixer /\ audio'.in.standby = a.in.standby
               /\ Goto(t, "sLockOut") /\ cont' = [cont EXCEPT ![t] = q]
<1>1. PICK f : f = [a EXCEPT !.in.fresh = {}]
  OBVIOUS
<1>2. /\ f \in Audio /\ f.out = a.out /\ f.chip = a.chip /\ f.hw = a.hw
      /\ f.in.state = a.in.state /\ f.in.echo = a.in.echo /\ f.in.need = a.in.need
      /\ f.in.mixer = a.in.mixer /\ f.in.standby = a.in.standby
  BY <1>1 DEF Audio, In
<1>3. Keeps(a, f) /\ KeepsCall(a, f) /\ Counts(f)
  BY <1>2 DEF Keeps, KeepsCall, Counts
<1>4. CASE ~a.in.standby /\ a.in.echo /\ a.out.state = "open"
  BY <1>1, <1>2, <1>3, <1>4 DEF DoStandbyIn
<1>5. CASE ~(~a.in.standby /\ a.in.echo /\ a.out.state = "open")
  <2>1. /\ audio' = StandbyIn(f) /\ Goto(t, q) /\ cont' = cont
        /\ lock' = [lock EXCEPT !["in"] = t, !["hw"] = t]
    BY <1>1, <1>5 DEF DoStandbyIn
  <2>2. /\ audio' \in Audio /\ KeepsCall(f, audio') /\ Counts(audio')
        /\ ~audio'.in.pcm /\ ~audio'.in.mixer /\ audio'.in.standby
        /\ audio'.out = f.out /\ audio'.chip = f.chip
        /\ ~f.in.echo => Keeps(f, audio')
    BY <1>2, <1>3, <2>1, StandbyInFacts
  <2>3. QED
    BY <1>2, <1>3, <2>1, <2>2 DEF Keeps, KeepsCall
<1>6. QED
  BY <1>4, <1>5

\* setMode()'s doStandby_l() of what it has locked: each stream is as it was or
\* in standby.
LEMMA ForceStandbyFacts ==
  ASSUME NEW q, NEW a \in Audio, Counts(a), ForceStandby(a, q),
         lock \in [Locks -> Threads \cup {"free"}], lock["hw"] = "ctl"
  PROVE  /\ audio' \in Audio /\ KeepsCall(a, audio') /\ Counts(audio')
         /\ \/ audio'.in.mixer = a.in.mixer /\ audio'.in.standby = a.in.standby
            \/ ~audio'.in.mixer /\ audio'.in.standby
         /\ \/ audio'.out = a.out /\ audio'.chip.wake = a.chip.wake
            \/ /\ OutLocked
               /\ ~audio'.out.pcm /\ ~audio'.out.mixer /\ audio'.out.standby
               /\ audio'.chip.wake = (a.out.standby /\ a.chip.wake)
         /\ \/ Goto("ctl", q) /\ cont' = cont /\ lock' = lock
            \/ Goto("ctl", "sLockOut") /\ cont' = [cont EXCEPT !["ctl"] = q] /\ a.in.echo
         /\ ~a.in.echo => Keeps(a, audio')
<1> DEFINE b == IF OutLocked THEN StandbyOut(a) ELSE a
<1>1. /\ b \in Audio /\ Keeps(a, b) /\ Counts(b) /\ b.in = a.in
      /\ \/ b.out = a.out /\ b.chip.wake = a.chip.wake
         \/ /\ OutLocked
            /\ ~b.out.pcm /\ ~b.out.mixer /\ b.out.standby
            /\ b.chip.wake = (a.out.standby /\ a.chip.wake)
  BY StandbyOutFacts DEF Keeps
<1>2. /\ InLocked => DoStandbyIn("ctl", b, q)
      /\ ~InLocked => audio' = b /\ Goto("ctl", q) /\ lock' = lock /\ cont' = cont
  BY DEF ForceStandby
<1>3. KeepsCall(a, b)
  BY <1>1 DEF Keeps, KeepsCall
<1> HIDE DEF b
<1>4. CASE InLocked
  <2>1. /\ audio' \in Audio /\ KeepsCall(b, audio') /\ Counts(audio')
        /\ audio'.out = b.out /\ audio'.chip = b.chip
        /\ \/ /\ ~audio'.in.mixer /\ audio'.in.standby
              /\ ~b.in.echo => Keeps(b, audio')
              /\ lock' = [lock EXCEPT !["in"] = "ctl", !["hw"] = "ctl"]
              /\ Goto("ctl", q) /\ cont' = cont
           \/ /\ b.in.echo
              /\ audio'.in.mixer = b.in.mixer /\ audio'.in.standby = b.in.standby
              /\ Goto("ctl", "sLockOut") /\ cont' = [cont EXCEPT !["ctl"] = q]
    BY <1>1, <1>2, <1>4, DoStandbyInFacts
  <2>2. lock' = [lock EXCEPT !["in"] = "ctl", !["hw"] = "ctl"] => lock' = lock
    BY <1>4 DEF InLocked, Locks
  <2>3. KeepsCall(a, audio')
    BY <1>3, <2>1 DEF KeepsCall
  <2>4. ~a.in.echo => Keeps(a, audio')
    BY <1>1, <2>1 DEF Keeps
  <2>5. QED
    BY <1>1, <2>1, <2>2, <2>3, <2>4
<1>5. CASE ~InLocked
  BY <1>1, <1>2, <1>3, <1>5
<1>6. QED
  BY <1>4, <1>5

\* setMode() with all it needs: the mode is set; the way on depends on whether a
\* call begins or ends.
LEMMA ModeSetFacts ==
  ASSUME ModeSet, audio \in Audio, Counts(audio), call["ctl"] \in Modes,
         lock \in [Locks -> Threads \cup {"free"}], lock["hw"] = "ctl",
         audio.hw.callPcm = audio.hw.inCall, audio.hw.callMixer = audio.hw.callPcm
  PROVE  /\ call' = call /\ audio' \in Audio /\ Counts(audio')
         /\ audio'.in.state = audio.in.state /\ audio'.out.state = audio.out.state
         /\ audio'.hw.inCall = audio.hw.inCall
         /\ \/ /\ audio'.in.mixer = audio.in.mixer
               /\ audio'.in.standby = audio.in.standby
            \/ ~audio'.in.mixer /\ audio'.in.standby
         /\ \/ audio'.out = audio.out /\ audio'.chip.wake = audio.chip.wake
            \/ /\ OutLocked
               /\ ~audio'.out.pcm /\ ~audio'.out.mixer /\ audio'.out.standby
               /\ audio'.chip.wake = (audio.out.standby /\ audio.chip.wake)
         /\ ~audio.in.echo => /\ audio'.in.echo = audio.in.echo
                              /\ audio'.in.need = audio.in.need
         /\ \E q \in {"mEnter", "mLeave", "mUnlock"} :
              /\ \/ Goto("ctl", q) /\ cont' = cont /\ lock' = lock
                 \/ /\ Goto("ctl", "sLockOut") /\ cont' = [cont EXCEPT !["ctl"] = q]
                    /\ audio.in.echo /\ q # "mUnlock"
              /\ q = "mEnter" => ~audio.hw.inCall
              /\ q = "mLeave" => audio.hw.inCall
              /\ audio'.hw.callPcm = (audio.hw.callPcm /\ q # "mLeave")
              /\ audio'.hw.callMixer = (audio.hw.callMixer /\ q # "mLeave")
<1> DEFINE a == [audio EXCEPT !.hw.mode = call["ctl"]]
<1>1. /\ a \in Audio /\ a.out = audio.out /\ a.in = audio.in /\ a.chip = audio.chip
      /\ a.hw.inCall = audio.hw.inCall /\ a.hw.callPcm = audio.hw.callPcm
      /\ a.hw.callMixer = audio.hw.callMixer /\ a.hw.pcmCnt = audio.hw.pcmCnt
      /\ a.hw.mixerCnt = audio.hw.mixerCnt
  BY DEF Audio, Hw
<1>2. /\ call' = call
      /\ \/ ForceStandby(a, "mEnter") /\ ~a.hw.inCall
         \/ ForceStandby(HangUp(a), "mLeave") /\ a.hw.inCall
         \/ audio' = a /\ Goto("ctl", "mUnlock") /\ lock' = lock /\ cont' = cont
  BY DEF ModeSet
<1> HIDE DEF a
<1>3. /\ Counts(a) /\ KeepsCall(audio, a)
      /\ a.hw.inCall \in BOOLEAN /\ a.hw.callPcm \in BOOLEAN /\ a.hw.callMixer \in BOOLEAN
  BY <1>1 DEF Counts, Audio, Hw, KeepsCall
<1>4. CASE ForceStandby(a, "mEnter") /\ ~a.hw.inCall
  <2>1. /\ audio' \in Audio /\ KeepsCall(a, audio') /\ Counts(audio')
        /\ \/ audio'.in.mixer = a.in.mixer /\ audio'.in.standby = a.in.standby
           \/ ~audio'.in.mixer /\ audio'.in.standby
        /\ \/ audio'.out = a.out /\ audio'.chip.wake = a.chip.wake
           \/ /\ OutLocked
              /\ ~audio'.out.pcm /\ ~audio'.out.mixer /\ audio'.out.standby
              /\ audio'.chip.wake = (a.out.standby /\ a.chip.wake)
        /\ \/ Goto("ctl", "mEnter") /\ cont' = cont /\ lock' = lock
           \/ /\ Goto("ctl", "sLockOut") /\ cont' = [cont EXCEPT !["ctl"] = "mEnter"]
              /\ a.in.echo
        /\ ~a.in.echo => Keeps(a, audio')
    BY <1>1, <1>3, <1>4, ForceStandbyFacts
  <2>2. QED
    BY <1>1, <1>2, <1>3, <1>4, <2>1 DEF Keeps, KeepsCall
<1>5. CASE ForceStandby(HangUp(a), "mLeave") /\ a.hw.inCall
  <2>1. a.hw.callPcm = TRUE /\ a.hw.callMixer = TRUE
    BY <1>1, <1>3, <1>5
  <2>2. PICK h : h = HangUp(a)
    OBVIOUS
  <2>3. /\ h \in Audio /\ Counts(h)
        /\ h.out = a.out /\ h.in = a.in /\ h.chip.wake = a.chip.wake
        /\ h.hw.inCall = a.hw.inCall
        /\ h.hw.callPcm = FALSE /\ h.hw.callMixer = FALSE
    BY <1>1, <1>3, <2>1, <2>2, HangUpFacts
  <2>4. /\ audio' \in Audio /\ KeepsCall(h, audio') /\ Counts(audio')
        /\ \/ audio'.in.mixer = h.in.mixer /\ audio'.in.standby = h.in.standby
           \/ ~audio'.in.mixer /\ audio'.in.standby
        /\ \/ audio'.out = h.out /\ audio'.chip.wake = h.chip.wake
           \/ /\ OutLocked
              /\ ~audio'.out.pcm /\ ~audio'.out.mixer /\ audio'.out.standby
              /\ audio'.chip.wake = (h.out.standby /\ h.chip.wake)
        /\ \/ Goto("ctl", "mLeave") /\ cont' = cont /\ lock' = lock
           \/ /\ Goto("ctl", "sLockOut") /\ cont' = [cont EXCEPT !["ctl"] = "mLeave"]
              /\ h.in.echo
        /\ ~h.in.echo => Keeps(h, audio')
    BY <1>5, <2>2, <2>3, ForceStandbyFacts
  <2>5. /\ audio'.hw.callPcm = FALSE /\ audio'.hw.callMixer = FALSE
        /\ audio'.hw.inCall = a.hw.inCall
    BY <2>3, <2>4 DEF KeepsCall
  <2>6. /\ audio'.in.state = a.in.state /\ audio'.out.state = a.out.state
        /\ ~a.in.echo => audio'.in.echo = a.in.echo /\ audio'.in.need = a.in.need
    BY <2>3, <2>4 DEF Keeps, KeepsCall
  <2>7. /\ audio'.hw.callPcm = (audio.hw.callPcm /\ "mLeave" # "mLeave")
        /\ audio'.hw.callMixer = (audio.hw.callMixer /\ "mLeave" # "mLeave")
        /\ audio.hw.inCall
    BY <1>1, <1>5, <2>5
  <2>8. \/ Goto("ctl", "mLeave") /\ cont' = cont /\ lock' = lock
        \/ /\ Goto("ctl", "sLockOut") /\ cont' = [cont EXCEPT !["ctl"] = "mLeave"]
           /\ audio.in.echo /\ "mLeave" # "mUnlock"
    BY <1>1, <2>3, <2>4
  <2>9. \E q \in {"mEnter", "mLeave", "mUnlock"} :
          /\ \/ Goto("ctl", q) /\ cont' = cont /\ lock' = lock
             \/ /\ Goto("ctl", "sLockOut") /\ cont' = [cont EXCEPT !["ctl"] = q]
                /\ audio.in.echo /\ q # "mUnlock"
          /\ q = "mEnter" => ~audio.hw.inCall
          /\ q = "mLeave" => audio.hw.inCall
          /\ audio'.hw.callPcm = (audio.hw.callPcm /\ q # "mLeave")
          /\ audio'.hw.callMixer = (audio.hw.callMixer /\ q # "mLeave")
    <3> WITNESS "mLeave" \in {"mEnter", "mLeave", "mUnlock"}
    <3>1. QED
      BY <2>7, <2>8
  <2> HIDE DEF OutLocked
  <2>10. QED
    BY <1>1, <1>2, <2>3, <2>4, <2>5, <2>6, <2>9
<1>6. CASE audio' = a /\ Goto("ctl", "mUnlock") /\ lock' = lock /\ cont' = cont
  BY <1>1, <1>2, <1>3, <1>6 DEF KeepsCall
<1>7. QED
  BY <1>2, <1>4, <1>5, <1>6


\* Every step keeps the types of the control variables.
LEMMA ControlStep ==
  ASSUME ControlOK, [Next]_vars,
         \A t \in Threads : pc[t] = "sRelockHw" => cont[t] \in PCs
  PROVE  ControlOK'
<1> USE DEF ControlOK, Threads, Locks, Goto, PCs, Calls, Modes
<1>1. CASE CallWrite
  BY <1>1 DEF CallWrite, StartLocked, Start
<1>2. CASE WriteWake
  BY <1>2 DEF WriteWake, AtDevice, WriteLookIn, WriteOpened
<1>3. CASE WriteLockIn
  BY <1>3 DEF WriteLockIn, Acquire
<1>4. CASE WriteRelockHw
  <2>1. \/ \E b : WriteOpened(b)
        \/ WriteLookIn(audio)
        \/ \E b : DoStandbyIn("play", b, "wWrite") /\ UNCHANGED call
        \/ /\ lock' = [lock EXCEPT !["in"] = "free", !["hw"] = "play"]
           /\ Goto("play", "iLock")
           /\ UNCHANGED <<call, cont>>
    BY <1>4 DEF WriteRelockHw
  <2>2. CASE \E b : WriteOpened(b)
    BY <2>2 DEF WriteOpened
  <2>3. CASE WriteLookIn(audio)
    BY <2>3 DEF WriteLookIn, WriteOpened
  <2>4. CASE \E b : DoStandbyIn("play", b, "wWrite") /\ UNCHANGED call
    BY <2>4 DEF DoStandbyIn
  <2>5. QED
    BY <2>1, <2>2, <2>3, <2>4
<1>5. CASE WriteData
  BY <1>5 DEF WriteData, Return
<1>6. CASE CallOutStandby
  BY <1>6 DEF CallOutStandby, StartLocked, Start
<1>7. CASE CallOutSetParameters
  BY <1>7 DEF CallOutSetParameters, StartLocked, Start
<1>8. CASE OutSetParameters
  BY <1>8 DEF OutSetParameters, AtDevice, Return
<1>9. CASE CallRead
  BY <1>9 DEF CallRead, StartLocked, Start
<1>10. CASE ReadWake
  BY <1>10 DEF ReadWake, AtDevice, ReadOpen
<1>11. CASE ReadLockOut
  BY <1>11 DEF ReadLockOut, Acquire
<1>12. CASE ReadRelockIn
  BY <1>12 DEF ReadRelockIn, Acquire
<1>13. CASE ReadRelockHw
  BY <1>13 DEF ReadRelockHw, AtDevice, ReadOpen
<1>14. CASE ReadData
  BY <1>14 DEF ReadData, Return
<1>15. CASE CallInStandby
  BY <1>15 DEF CallInStandby, StartLocked, Start
<1>16. CASE CallInSetParameters
  BY <1>16 DEF CallInSetParameters, StartLocked, Start
<1>17. CASE InSetSource
  BY <1>17 DEF InSetSource, AtDevice
<1>18. CASE InSetRouting
  BY <1>18 DEF InSetRouting, AtDevice, DoStandbyIn, Return
<1>19. ASSUME NEW md \in ClientModes, CallSetMode(md) PROVE ControlOK'
  BY <1>19, AudioAssumption DEF CallSetMode, AtDevice, ModeLookOut, ModeLookIn,
  ModeHolds
<1>20. CASE ModeLockOut
  BY <1>20 DEF ModeLockOut, Acquire
<1>21. CASE ModeRelockHw
  BY <1>21 DEF ModeRelockHw, AtDevice, ModeLookOut, ModeLookIn, ModeHolds
<1>22. CASE ModeLockIn
  BY <1>22 DEF ModeLockIn, Acquire
<1>23. CASE ModeRelockHwIn
  BY <1>23 DEF ModeRelockHwIn, AtDevice, ModeLookIn, ModeHolds
<1>24. CASE ModeSet
  BY <1>24 DEF ModeSet, ForceStandby, DoStandbyIn
<1>25. CASE ModeEnter
  BY <1>25 DEF ModeEnter
<1>26. CASE ModeLeave
  BY <1>26 DEF ModeLeave
<1>27. CASE ModeUnlock
  BY <1>27 DEF ModeUnlock, Return
<1>28. CASE SetMicMute
  BY <1>28 DEF SetMicMute, AtDevice, Start
<1>29. CASE SetNeedEcho
  BY <1>29 DEF SetNeedEcho, Start
<1>30. CASE OpenOutputStream
  BY <1>30 DEF OpenOutputStream, AtDevice
<1>31. CASE OpenInputStream
  BY <1>31 DEF OpenInputStream, AtDevice
<1>32. CASE CloseOutputStream
  BY <1>32 DEF CloseOutputStream, AtDevice, Start
<1>33. CASE DropOutput
  BY <1>33 DEF DropOutput, Return, RefersToOut
<1>34. CASE CloseInputStream
  BY <1>34 DEF CloseInputStream, AtDevice, Start, RefersToIn
<1>35. ASSUME NEW t \in Threads, OutStandbyLock(t) PROVE ControlOK'
  BY <1>35 DEF OutStandbyLock, Acquire
<1>36. ASSUME NEW t \in Threads, OutStandby(t) PROVE ControlOK'
  BY <1>36 DEF OutStandby, AtDevice, Return
<1>37. ASSUME NEW t \in Threads, InStandbyLock(t) PROVE ControlOK'
  BY <1>37 DEF InStandbyLock, Acquire
<1>38. ASSUME NEW t \in Threads, InStandby(t) PROVE ControlOK'
  BY <1>38 DEF InStandby, AtDevice, DoStandbyIn
<1>39. ASSUME NEW t \in Threads, InStandbyEnd(t) PROVE ControlOK'
  BY <1>39 DEF InStandbyEnd, Return
<1>40. ASSUME NEW t \in Threads, StandbyLockOut(t) PROVE ControlOK'
  BY <1>40 DEF StandbyLockOut, Acquire
<1>41. ASSUME NEW t \in Threads, StandbyLockIn(t) PROVE ControlOK'
  BY <1>41 DEF StandbyLockIn, Acquire
<1>42. ASSUME NEW t \in Threads, StandbyRelockHw(t) PROVE ControlOK'
  BY <1>42 DEF StandbyRelockHw, AtDevice
<1>43. CASE UNCHANGED vars
  BY <1>43 DEF vars
<1>44. QED
  BY
    <1>1, <1>2, <1>3, <1>4, <1>5, <1>6, <1>7, <1>8, <1>9, <1>10, <1>11,
    <1>12, <1>13, <1>14, <1>15, <1>16, <1>17, <1>18, <1>19, <1>20, <1>21,
    <1>22, <1>23, <1>24, <1>25, <1>26, <1>27, <1>28, <1>29, <1>30, <1>31,
    <1>32, <1>33, <1>34, <1>35, <1>36, <1>37, <1>38, <1>39, <1>40, <1>41,
    <1>42, <1>43
  DEF Next, PlaySteps, RecSteps, CtlSteps, StandbySteps

-----------------------------------------------------------------------------
(* The echo reference, and with it the types, in every environment: with     *)
(* echo cancellers, failing calls and streams closed under another thread.   *)

\* Neither stream is opened or destroyed, no effect is added or removed, and no
\* echo reference comes or goes.
Level(a, b) ==
  /\ b \in Audio
  /\ b.out.state = a.out.state /\ b.in.state = a.in.state
  /\ b.out.echo = a.out.echo /\ b.hw.echo = a.hw.echo
  /\ b.in.need = a.in.need

\* ... nor does the input go to standby or leave it: what most operators do.
Same(a, b) == Level(a, b) /\ b.in.echo = a.in.echo /\ b.in.standby = a.in.standby

\* It may also go to standby, and forget its reference if it was active.
Calm(a, b) ==
  /\ Level(a, b)
  /\ b.in.echo => a.in.echo /\ b.in.standby = a.in.standby

\* A state is the same as itself and as what is the same as the same.
LEMMA SameSame ==
  /\ \A a \in Audio : Same(a, a)
  /\ \A a, b, c : Same(a, b) /\ Same(b, c) => Same(a, c)
  /\ \A a, b, c : Same(a, b) /\ Calm(b, c) => Calm(a, c)
  /\ \A a, b : Same(a, b) => Calm(a, b)
BY DEF Same, Calm, Level

\* A comparison of counts has a truth value.
LEMMA MoreIs == \A u, v \in Nat : \E x \in BOOLEAN : x = (u > v)
<1> TAKE u, v \in Nat
<1>1. CASE u > v
  <2>1. (u > v) = TRUE
    BY <1>1
  <2>2. QED
    BY <2>1
<1>2. CASE ~(u > v)
  <2>1. (u > v) = FALSE
    BY <1>2
  <2>2. QED
    BY <2>1
<1>3. QED
  BY <1>1, <1>2

\* The counts of a state are numbers.
LEMMA CountsNat == \A a \in Audio : a.hw.pcmCnt \in Nat /\ a.hw.mixerCnt \in Nat
BY DEF Audio, Hw

\* closePcmOut_l(), closeMixer_l().
LEMMA CloseSame ==
  ASSUME NEW a \in Audio PROVE Same(a, ClosePcm(a)) /\ Same(a, CloseMixer(a))
<1>1. Same(a, ClosePcm(a))
  BY DEF ClosePcm, Same, Level, Audio, Hw
<1>2. Same(a, CloseMixer(a))
  BY DEF CloseMixer, Same, Level, Audio, Hw
<1>3. QED
  BY <1>1, <1>2

\* openPcmOut_l(), openMixer_l().
LEMMA OpenSame ==
  ASSUME NEW a \in Audio, NEW f \in BOOLEAN
  PROVE  /\ \A b \in OpenPcm(a, f) : Same(a, b)
         /\ \A b \in OpenMixer(a, f) : Same(a, b)
<1>1. ASSUME NEW b \in OpenPcm(a, f) PROVE Same(a, b)
  <2>1. CASE b = a
    BY <2>1, SameSame
  <2>2. CASE b # a
    <3>1. PICK l \in {TRUE, FALSE} : b = [a EXCEPT !.hw.pcmCnt = @ + 1, !.hw.late = l]
      BY <2>2 DEF OpenPcm, Faulty
    <3>2. b.out = a.out /\ b.in = a.in /\ b.hw.echo = a.hw.echo
      BY <3>1 DEF Audio, Hw
    <3>3. b \in Audio
      BY OpenPcmFacts
    <3>4. QED
      BY <3>2, <3>3 DEF Same, Level
  <2>3. QED
    BY <2>1, <2>2
<1>2. ASSUME NEW b \in OpenMixer(a, f) PROVE Same(a, b)
  BY DEF OpenMixer, Faulty, Same, Level, Audio, Hw
<1>3. QED
  BY <1>1, <1>2

\* The output's close_l().
LEMMA CloseOutSame ==
  ASSUME NEW a \in Audio PROVE Same(a, CloseOut(a))
<1> DEFINE m == IF a.out.mixer THEN CloseMixer(a) ELSE a
           p == IF a.out.pcm THEN ClosePcm(m) ELSE m
<1>1. Same(a, m) /\ m \in Audio
  BY CloseSame, SameSame DEF Same, Level
<1> HIDE DEF m
<1>2. Same(m, p) /\ p \in Audio
  BY <1>1, CloseSame, SameSame DEF Same, Level
<1>3. CloseOut(a) = [p EXCEPT !.out.pcm = FALSE, !.out.mixer = FALSE]
  BY DEF CloseOut, m
<1> HIDE DEF p
<1>4. PICK b : b = [p EXCEPT !.out.pcm = FALSE, !.out.mixer = FALSE]
  OBVIOUS
<1>5. /\ b \in Audio /\ b.in = p.in /\ b.hw = p.hw
      /\ b.out.state = p.out.state /\ b.out.echo = p.out.echo
  BY <1>2, <1>4 DEF Audio, Out
<1>6. Same(p, CloseOut(a))
  BY <1>3, <1>4, <1>5 DEF Same, Level
<1>7. QED
  BY <1>1, <1>2, <1>6, SameSame

\* The input's close_l().
LEMMA CloseInSame ==
  ASSUME NEW a \in Audio PROVE Same(a, CloseIn(a))
<1> DEFINE m == IF a.in.mixer THEN CloseMixer(a) ELSE a
<1>1. Same(a, m) /\ m \in Audio
  BY CloseSame, SameSame DEF Same, Level
<1>2. CloseIn(a) = [m EXCEPT !.in.pcm = FALSE, !.in.mixer = FALSE]
  BY DEF CloseIn
<1> HIDE DEF m
<1>3. PICK b : b = [m EXCEPT !.in.pcm = FALSE, !.in.mixer = FALSE]
  OBVIOUS
<1>4. /\ b \in Audio /\ b.out = m.out /\ b.hw = m.hw /\ b.in.state = m.in.state
      /\ b.in.echo = m.in.echo /\ b.in.standby = m.in.standby
      /\ b.in.need = m.in.need
  BY <1>1, <1>3 DEF Audio, In
<1>5. Same(m, CloseIn(a))
  BY <1>2, <1>3, <1>4 DEF Same, Level
<1>6. QED
  BY <1>1, <1>5, SameSame

\* The output's open_l().
LEMMA OpenOutSame ==
  ASSUME NEW a \in Audio, NEW b \in OpenOut(a) PROVE Same(a, b)
<1> DEFINE Opened(m) == [m EXCEPT !.out.pcm = TRUE,
                                  !.out.mixer = (m.hw.mixerCnt > a.hw.mixerCnt),
                                  !.chip.play = IF m.hw.mixerCnt > a.hw.mixerCnt /\
                                                   m.hw.mode # "IN_CALL"
                                                  THEN m.out.device ELSE @]
<1>0. DriverFaults \in BOOLEAN
  BY AudioAssumption
<1>1. PICK p \in OpenPcm(a, DriverFaults) :
        IF p.hw.pcmCnt = a.hw.pcmCnt THEN b = p
        ELSE \E m \in OpenMixer(p, DriverFaults) : b = Opened(m)
  BY ZenonT(30) DEF OpenOut
<1>2. Same(a, p) /\ p \in Audio
  BY <1>0, OpenSame DEF Same, Level
<1>3. CASE b = p
  BY <1>2, <1>3
<1>4. CASE b # p
  <2>1. PICK m \in OpenMixer(p, DriverFaults) : b = Opened(m)
    BY <1>1, <1>4
  <2>2. Same(p, m) /\ m \in Audio
    BY <1>0, <1>2, OpenSame DEF Same, Level
  <2>3. PICK x \in BOOLEAN : x = (m.hw.mixerCnt > a.hw.mixerCnt)
    BY <2>2, CountsNat, MoreIs
  <2>4. PICK d \in Devices \cup {Receiver} :
          b = [m EXCEPT !.out.pcm = TRUE, !.out.mixer = x, !.chip.play = d]
    <3>1. m.out.device \in Devices /\ m.chip.play \in Devices \cup {Receiver}
      BY <2>2 DEF Audio, Out, Chip
    <3>2. PICK d : d = IF x /\ m.hw.mode # "IN_CALL" THEN m.out.device ELSE m.chip.play
      OBVIOUS
    <3>3. b = [m EXCEPT !.out.pcm = TRUE, !.out.mixer = x, !.chip.play = d]
      BY <2>1, <2>2, <2>3, <3>2 DEF Audio, Out, Chip
    <3>4. QED
      BY <3>1, <3>2, <3>3
  <2>5. Same(m, b)
    BY <2>2, <2>4 DEF Same, Level, Audio, Out, Chip
  <2>6. QED
    BY <1>2, <2>2, <2>5, SameSame
<1>5. QED
  BY <1>3, <1>4

\* The input's open_l().
LEMMA OpenInSame ==
  ASSUME NEW a \in Audio, NEW b \in OpenIn(a) PROVE Same(a, b)
<1>0. DriverFaults \in BOOLEAN
  BY AudioAssumption
<1>1. CASE b = a
  BY <1>1, SameSame
<1>2. CASE b # a
  <2>1. PICK m \in OpenMixer(a, DriverFaults) :
          b = [m EXCEPT !.in.pcm = TRUE,
                        !.in.mixer = (m.hw.mixerCnt > a.hw.mixerCnt),
                        !.chip.mic = IF m.hw.mixerCnt > a.hw.mixerCnt /\
                                        m.hw.mode # "IN_CALL"
                                       THEN ~m.hw.mute ELSE @]
    BY <1>2 DEF OpenIn, Faulty
  <2>2. Same(a, m) /\ m \in Audio
    BY <1>0, OpenSame DEF Same, Level
  <2>3. PICK x \in BOOLEAN : x = (m.hw.mixerCnt > a.hw.mixerCnt)
    BY <2>2, CountsNat, MoreIs
  <2>4. PICK d \in BOOLEAN :
          b = [m EXCEPT !.in.pcm = TRUE, !.in.mixer = x, !.chip.mic = d]
    <3>1. (~m.hw.mute) \in BOOLEAN /\ m.chip.mic \in BOOLEAN
      BY <2>2 DEF Audio, Hw, Chip
    <3>2. PICK d : d = IF x /\ m.hw.mode # "IN_CALL" THEN ~m.hw.mute ELSE m.chip.mic
      OBVIOUS
    <3>3. b = [m EXCEPT !.in.pcm = TRUE, !.in.mixer = x, !.chip.mic = d]
      BY <2>1, <2>2, <2>3, <3>2 DEF Audio, In, Chip
    <3>4. QED
      BY <3>1, <3>2, <3>3
  <2>5. Same(m, b)
    BY <2>2, <2>4 DEF Same, Level, Audio, In, Chip
  <2>6. QED
    BY <2>2, <2>5, SameSame
<1>3. QED
  BY <1>1, <1>2

\* The output's doStandby_l().
LEMMA StandbyOutSame ==
  ASSUME NEW a \in Audio PROVE Same(a, StandbyOut(a))
<1>1. PICK c : c = [a EXCEPT !.out.fresh = {}, !.out.standby = TRUE,
                             !.chip.wake = IF a.out.standby THEN @ ELSE FALSE]
  OBVIOUS
<1>2. Same(a, c) /\ c \in Audio
  BY <1>1 DEF Same, Level, Audio, Out, Chip
<1>3. StandbyOut(a) = CloseOut(c)
  BY <1>1 DEF StandbyOut
<1>4. QED
  BY <1>2, <1>3, CloseOutSame, SameSame

\* The output restarted for the input, ...
LEMMA RestartOutSame ==
  ASSUME NEW a \in Audio, NEW b \in RestartOut(a) PROVE Same(a, b)
<1>1. CASE ~ActiveOut(a)
  BY <1>1, SameSame DEF RestartOut
<1>2. CASE ActiveOut(a)
  <2>1. PICK d \in OpenOut(CloseOut(a)) : b = d \/ b = StandbyOut(d)
    BY <1>2 DEF RestartOut
  <2>2. PICK c : c = CloseOut(a)
    OBVIOUS
  <2>3. Same(a, c) /\ c \in Audio
    BY <2>2, CloseOutSame DEF Same, Level
  <2>4. Same(c, d) /\ d \in Audio
    BY <2>1, <2>2, <2>3, OpenOutSame DEF Same, Level
  <2>5. Same(d, b)
    BY <2>1, <2>4, StandbyOutSame, SameSame
  <2>6. QED
    BY <2>3, <2>4, <2>5, SameSame
<1>3. QED
  BY <1>1, <1>2

\* ... and the input restarted for the output.
LEMMA ReopenBothSame ==
  ASSUME NEW a \in Audio, NEW b \in ReopenBoth(a) PROVE Same(a, b)
<1> DEFINE c == CloseIn(a)
<1>1. PICK d \in OpenOut(c) : b \in OpenIn(d)
  BY DEF ReopenBoth
<1>2. Same(a, c) /\ c \in Audio
  BY CloseInSame DEF Same, Level
<1> HIDE DEF c
<1>3. Same(c, d) /\ d \in Audio
  BY <1>1, <1>2, OpenOutSame DEF Same, Level
<1>4. Same(d, b)
  BY <1>1, <1>3, OpenInSame
<1>5. QED
  BY <1>2, <1>3, <1>4, SameSame

\* setMode() gives the call's share of the device back, ...
LEMMA HangUpSame ==
  ASSUME NEW a \in Audio PROVE Same(a, HangUp(a))
<1>1. PICK d \in Devices \cup {Receiver} :
        d = IF a.hw.mixerCnt > 0 THEN Receiver ELSE a.chip.play
  BY DEF Audio, Chip
<1>2. PICK c : c = [a EXCEPT !.chip.play = d, !.hw.callPcm = FALSE,
                             !.hw.callMixer = FALSE]
  OBVIOUS
<1>3. Same(a, c) /\ c \in Audio
  BY <1>2 DEF Same, Level, Audio, Chip, Hw
<1>4. HangUp(a) = ClosePcm(CloseMixer(c))
  BY <1>1, <1>2 DEF HangUp, Audio, Chip
<1>5. Same(c, CloseMixer(c)) /\ CloseMixer(c) \in Audio
  BY <1>3, CloseSame DEF Same, Level
<1>6. QED
  BY <1>3, <1>4, <1>5, CloseSame, SameSame

\* ... and takes it.
LEMMA TakeCallSame ==
  ASSUME NEW a \in Audio, NEW b \in TakeCall(a) PROVE Same(a, b)
<1>0. CallFaults \in BOOLEAN
  BY AudioAssumption
<1>1. PICK p \in OpenPcm(a, CallFaults) : \E m \in OpenMixer(p, CallFaults) :
        b = [m EXCEPT !.hw.inCall = TRUE,
                      !.hw.callPcm = (p.hw.pcmCnt > a.hw.pcmCnt),
                      !.hw.callMixer = (m.hw.mixerCnt > p.hw.mixerCnt)]
  BY DEF TakeCall
<1>2. Same(a, p) /\ p \in Audio
  BY <1>0, OpenSame DEF Same, Level
<1>3. PICK m \in OpenMixer(p, CallFaults) :
        b = [m EXCEPT !.hw.inCall = TRUE,
                      !.hw.callPcm = (p.hw.pcmCnt > a.hw.pcmCnt),
                      !.hw.callMixer = (m.hw.mixerCnt > p.hw.mixerCnt)]
  BY <1>1
<1>4. Same(p, m) /\ m \in Audio
  BY <1>0, <1>2, OpenSame DEF Same, Level
<1>5. PICK x \in BOOLEAN : x = (p.hw.pcmCnt > a.hw.pcmCnt)
  BY <1>2, CountsNat, MoreIs
<1>6. PICK y \in BOOLEAN : y = (m.hw.mixerCnt > p.hw.mixerCnt)
  BY <1>2, <1>4, CountsNat, MoreIs
<1>7. b = [m EXCEPT !.hw.inCall = TRUE, !.hw.callPcm = x, !.hw.callMixer = y]
  BY <1>3, <1>5, <1>6
<1>8. Same(m, b)
  BY <1>4, <1>7 DEF Same, Level, Audio, Hw
<1>9. QED
  BY <1>2, <1>4, <1>8, SameSame

\* The end of the input's doStandby_l().
LEMMA StandbyInCalm ==
  ASSUME NEW a \in Audio
  PROVE  /\ Calm(a, StandbyIn(a))
         /\ StandbyIn(a).in.standby
         /\ StandbyIn(a).in.echo = (a.in.standby /\ a.in.echo)
<1>1. PICK e \in BOOLEAN : e = IF a.in.standby THEN a.in.echo ELSE FALSE
  BY DEF Audio, In
<1>2. PICK c : c = [a EXCEPT !.in.echo = e, !.in.standby = TRUE]
  OBVIOUS
<1>3. /\ Level(a, c) /\ c \in Audio /\ c.in.standby
      /\ c.in.echo = e
  BY <1>2 DEF Level, Audio, In
<1>4. StandbyIn(a) = CloseIn(c)
  BY <1>1, <1>2 DEF StandbyIn, Audio, In
<1>5. Same(c, StandbyIn(a))
  BY <1>3, <1>4, CloseInSame
<1>6. a.in.standby \in BOOLEAN /\ a.in.echo \in BOOLEAN
  BY DEF Audio, In
<1>7. QED
  BY <1>1, <1>3, <1>5, <1>6 DEF Same, Calm, Level

\* releaseEchoReference().
LEMMA ReleaseEchoFacts ==
  ASSUME NEW a \in Audio
  PROVE  LET b == ReleaseEcho(a) IN
         /\ b \in Audio /\ b.in = a.in /\ b.out.state = a.out.state
         /\ b.hw.echo = FALSE /\ (b.out.state = "open" => ~b.out.echo)
BY DEF ReleaseEcho, Audio, Out, Hw

\* getEchoReference().
LEMMA GetEchoFacts ==
  ASSUME NEW a \in Audio, NEW b \in GetEcho(a)
  PROVE  /\ b \in Audio /\ b.in.state = a.in.state /\ b.out.state = a.out.state
         /\ b.in.standby = a.in.standby /\ b.in.need = a.in.need
         /\ b.in.echo \/ (b.out.state = "open" /\ b.out.echo) => b.hw.echo
<1>1. PICK c : c = ReleaseEcho(a)
  OBVIOUS
<1>2. /\ c \in Audio /\ c.in = a.in /\ c.out.state = a.out.state
      /\ c.out.state = "open" => ~c.out.echo
  BY <1>1, ReleaseEchoFacts
<1>3. \/ b = [c EXCEPT !.hw.echo = TRUE, !.out.echo = TRUE, !.in.echo = TRUE]
      \/ b = [c EXCEPT !.in.echo = FALSE]
  BY <1>1 DEF GetEcho, Faulty
<1>4. CASE b = [c EXCEPT !.hw.echo = TRUE, !.out.echo = TRUE, !.in.echo = TRUE]
  BY <1>2, <1>4 DEF Audio, Out, In, Hw
<1>5. CASE b = [c EXCEPT !.in.echo = FALSE]
  BY <1>2, <1>5 DEF Audio, In
<1>6. QED
  BY <1>3, <1>4, <1>5

\* A thread at one of these has given up the input's mutexes to get the output's.
Releasing == {"sLockOut", "sLockIn", "sRelockHw"}

\* Where a thread has the output's mutex for certain.  The write thread may start
\* the input's doStandby_l() with it, and never get any further.
WithOut(t) ==
  IF t = "play"
    THEN {"wLockHw", "wLockIn", "wRelockHw", "wWrite", "oLockHw", "pLockHw",
          "iLock", "iLockHw", "iUnlock", "sLockOut"}
    ELSE {"rRelockIn", "rRelockHw", "oLockHw", "mRelockHw", "sLockIn", "sRelockHw"}

\* Where it has the device's mutex.  The write thread has it on its way to
\* ~AudioStreamInALSA(), which takes the same mutex and so never ends.
WithHw(t) == {"iUnlock", "mSet", "mEnter", "mLeave", "mUnlock"}
               \cup (IF t = "play" THEN {"iLock", "iLockHw"} ELSE {})

\* What ties places, mutexes and calls together.
ReleaseRule ==
  /\ \A t \in Threads : /\ pc[t] \in WithOut(t) => lock["out"] = t
                        /\ pc[t] \in WithHw(t) => lock["hw"] = t
  /\ pc["play"] \notin {"iUnlock", "sLockIn", "sRelockHw"}
  /\ pc["rec"] \in Releasing => cont["rec"] = "iUnlock"
  /\ pc["ctl"] \in Releasing => cont["ctl"] \in {"iUnlock", "mEnter", "mLeave"}
  /\ pc["ctl"] \in ModePCs => call["ctl"] \in Modes
  /\ call["play"] \notin {"closeOutput", "closeInput"}
  /\ call["rec"] \notin {"closeOutput", "closeInput"}

\* Every step keeps the rule.
LEMMA ReleaseRuleStep ==
  ASSUME ControlOK, ReleaseRule, [Next]_vars
  PROVE  ReleaseRule'
<1> USE DEF ControlOK, ReleaseRule, WithOut, WithHw, Releasing, Threads, Locks, Goto, ModePCs
<1>1. CASE CallWrite
  BY <1>1 DEF CallWrite, StartLocked, Start
<1>2. CASE WriteWake
  BY <1>2 DEF WriteWake, AtDevice, WriteLookIn, WriteOpened
<1>3. CASE WriteLockIn
  BY <1>3 DEF WriteLockIn, Acquire
<1>4. CASE WriteRelockHw
  <2>0. /\ pc["play"] = "wRelockHw" /\ lock["hw"] = "free"
        /\ \A t \in Threads : pc[t] \notin WithHw(t)
    BY <1>4 DEF WriteRelockHw, AtDevice
  <2>1. \/ \E b : WriteOpened(b)
        \/ WriteLookIn(audio)
        \/ \E b : DoStandbyIn("play", b, "wWrite") /\ UNCHANGED call
        \/ /\ lock' = [lock EXCEPT !["in"] = "free", !["hw"] = "play"]
           /\ Goto("play", "iLock")
           /\ UNCHANGED <<call, cont>>
    BY <1>4 DEF WriteRelockHw
  <2>2. CASE \E b : WriteOpened(b)
    BY <2>0, <2>2 DEF WriteOpened
  <2>3. CASE WriteLookIn(audio)
    BY <2>0, <2>3 DEF WriteLookIn, WriteOpened
  <2>4. CASE \E b : DoStandbyIn("play", b, "wWrite") /\ UNCHANGED call
    BY <2>0, <2>4 DEF DoStandbyIn
  <2>5. CASE /\ lock' = [lock EXCEPT !["in"] = "free", !["hw"] = "play"]
             /\ Goto("play", "iLock")
             /\ UNCHANGED <<call, cont>>
    BY <2>0, <2>5
  <2>6. QED
    BY <2>1, <2>2, <2>3, <2>4, <2>5
<1>5. CASE WriteData
  BY <1>5 DEF WriteData, Return
<1>6. CASE CallOutStandby
  BY <1>6 DEF CallOutStandby, StartLocked, Start
<1>7. CASE CallOutSetParameters
  BY <1>7 DEF CallOutSetParameters, StartLocked, Start
<1>8. CASE OutSetParameters
  BY <1>8 DEF OutSetParameters, AtDevice, Return
<1>9. CASE CallRead
  BY <1>9 DEF CallRead, StartLocked, Start
<1>10. CASE ReadWake
  BY <1>10 DEF ReadWake, AtDevice, ReadOpen
<1>11. CASE ReadLockOut
  BY <1>11 DEF ReadLockOut, Acquire
<1>12. CASE ReadRelockIn
  BY <1>12 DEF ReadRelockIn, Acquire
<1>13. CASE ReadRelockHw
  BY <1>13 DEF ReadRelockHw, AtDevice, ReadOpen
<1>14. CASE ReadData
  BY <1>14 DEF ReadData, Return
<1>15. CASE CallInStandby
  BY <1>15 DEF CallInStandby, StartLocked, Start
<1>16. CASE CallInSetParameters
  BY <1>16 DEF CallInSetParameters, StartLocked, Start
<1>17. CASE InSetSource
  BY <1>17 DEF InSetSource, AtDevice
<1>18. CASE InSetRouting
  BY <1>18 DEF InSetRouting, AtDevice, DoStandbyIn, Return
<1>19. ASSUME NEW md \in ClientModes, CallSetMode(md) PROVE ReleaseRule'
  BY <1>19, AudioAssumption DEF Modes, CallSetMode, AtDevice, ModeLookOut, ModeLookIn,
  ModeHolds
<1>20. CASE ModeLockOut
  BY <1>20 DEF ModeLockOut, Acquire
<1>21. CASE ModeRelockHw
  BY <1>21 DEF ModeRelockHw, AtDevice, ModeLookOut, ModeLookIn, ModeHolds
<1>22. CASE ModeLockIn
  BY <1>22 DEF ModeLockIn, Acquire
<1>23. CASE ModeRelockHwIn
  BY <1>23 DEF ModeRelockHwIn, AtDevice, ModeLookIn, ModeHolds
<1>24. CASE ModeSet
  BY <1>24 DEF ModeSet, ForceStandby, DoStandbyIn
<1>25. CASE ModeEnter
  BY <1>25 DEF ModeEnter
<1>26. CASE ModeLeave
  BY <1>26 DEF ModeLeave
<1>27. CASE ModeUnlock
  BY <1>27 DEF ModeUnlock, Return
<1>28. CASE SetMicMute
  BY <1>28 DEF SetMicMute, AtDevice, Start
<1>29. CASE SetNeedEcho
  BY <1>29 DEF SetNeedEcho, Start
<1>30. CASE OpenOutputStream
  BY <1>30 DEF OpenOutputStream, AtDevice
<1>31. CASE OpenInputStream
  BY <1>31 DEF OpenInputStream, AtDevice
<1>32. CASE CloseOutputStream
  BY <1>32 DEF CloseOutputStream, AtDevice, Start
<1>33. CASE DropOutput
  BY <1>33 DEF DropOutput, Return, RefersToOut
<1>34. CASE CloseInputStream
  BY <1>34 DEF CloseInputStream, AtDevice, Start, RefersToIn
<1>35. ASSUME NEW t \in Threads, OutStandbyLock(t) PROVE ReleaseRule'
  BY <1>35 DEF OutStandbyLock, Acquire
<1>36. ASSUME NEW t \in Threads, OutStandby(t) PROVE ReleaseRule'
  BY <1>36 DEF OutStandby, AtDevice, Return
<1>37. ASSUME NEW t \in Threads, InStandbyLock(t) PROVE ReleaseRule'
  BY <1>37 DEF InStandbyLock, Acquire
<1>38. ASSUME NEW t \in Threads, InStandby(t) PROVE ReleaseRule'
  BY <1>38 DEF InStandby, AtDevice, DoStandbyIn
<1>39. ASSUME NEW t \in Threads, InStandbyEnd(t) PROVE ReleaseRule'
  BY <1>39 DEF InStandbyEnd, Return
<1>40. ASSUME NEW t \in Threads, StandbyLockOut(t) PROVE ReleaseRule'
  BY <1>40 DEF StandbyLockOut, Acquire
<1>41. ASSUME NEW t \in Threads, StandbyLockIn(t) PROVE ReleaseRule'
  BY <1>41 DEF StandbyLockIn, Acquire
<1>42. ASSUME NEW t \in Threads, StandbyRelockHw(t) PROVE ReleaseRule'
  BY <1>42 DEF StandbyRelockHw, AtDevice
<1>43. CASE UNCHANGED vars
  BY <1>43 DEF vars
<1>44. QED
  BY
    <1>1, <1>2, <1>3, <1>4, <1>5, <1>6, <1>7, <1>8, <1>9, <1>10, <1>11,
    <1>12, <1>13, <1>14, <1>15, <1>16, <1>17, <1>18, <1>19, <1>20, <1>21,
    <1>22, <1>23, <1>24, <1>25, <1>26, <1>27, <1>28, <1>29, <1>30, <1>31,
    <1>32, <1>33, <1>34, <1>35, <1>36, <1>37, <1>38, <1>39, <1>40, <1>41,
    <1>42, <1>43
  DEF Next, PlaySteps, RecSteps, CtlSteps, StandbySteps

\* What the invariant says of the streams: nobody has a reference that was
\* released.  setMode() and standby() wait for the output's mutex only while the
\* output is there; and if it is closed while the read thread does, then
\* closeOutputStream() makes the input forget its reference before the output
\* goes: StandbyRelockHw never releases the reference of a stream that is gone.
\* Only an echo canceller makes an input take a reference.
ReleaseInv ==
  /\ audio \in Audio /\ EchoSafe
  /\ audio.in.echo \/ audio.in.need => EchoCancel
  /\ call["ctl"] = "closeInput" => audio.in.state = "closed"
  /\ call["ctl"] = "closeOutput" => audio.out.state = "closed"
  /\ pc["rec"] # "idle" => audio.in.state = "open"
  /\ pc["ctl"] \in Releasing => audio.out.state = "open"
  /\ pc["rec"] \in Releasing /\ audio.in.echo =>
       /\ ~audio.in.standby
       /\ audio.out.state = "open"
            \/ (call["ctl"] = "closeOutput" /\ pc["ctl"] \in {"iLock", "iLockHw"})

EchoInv == ControlOK /\ ReleaseRule /\ ReleaseInv

\* The input's doStandby_l(): it goes on at q, with the reference forgotten if
\* the input was active, or waits for the output's mutex.
LEMMA DoStandbyInCalm ==
  ASSUME NEW t, NEW q, NEW a \in Audio, DoStandbyIn(t, a, q)
  PROVE  /\ Calm(a, audio')
         /\ \/ /\ pc' = [pc EXCEPT ![t] = "sLockOut"]
               /\ a.out.state = "open" /\ ~a.in.standby
            \/ /\ pc' = [pc EXCEPT ![t] = q]
               /\ audio'.in.echo => a.in.standby
<1>1. PICK c : c = [a EXCEPT !.in.fresh = {}]
  OBVIOUS
<1>2. Same(a, c) /\ c \in Audio
  BY <1>1 DEF Same, Level, Audio, In
<1>3. CASE ~a.in.standby /\ a.in.echo /\ a.out.state = "open"
  BY <1>1, <1>2, <1>3, SameSame DEF DoStandbyIn, Goto
<1>4. CASE ~(~a.in.standby /\ a.in.echo /\ a.out.state = "open")
  <2>1. audio' = StandbyIn(c) /\ pc' = [pc EXCEPT ![t] = q]
    BY <1>1, <1>4 DEF DoStandbyIn, Goto
  <2>2. Calm(c, audio') /\ audio'.in.echo = (c.in.standby /\ c.in.echo)
    BY <1>2, <2>1, StandbyInCalm
  <2>3. QED
    BY <1>2, <2>1, <2>2, SameSame DEF Same
<1>5. QED
  BY <1>3, <1>4

\* The end of the output's way out of standby.
LEMMA WriteOpenedSame ==
  ASSUME NEW a \in Audio, WriteOpened(a)
  PROVE  Same(a, audio') /\ call' = call
         /\ (pc' = [pc EXCEPT !["play"] = "wWrite"] \/ pc' = [pc EXCEPT !["play"] = "oLock"])
<1>1. audio' = [a EXCEPT !.out.standby = FALSE] \/ audio' = [a EXCEPT !.chip.wake = FALSE]
  BY DEF WriteOpened
<1>2. Same(a, [a EXCEPT !.out.standby = FALSE])
  BY DEF Same, Level, Audio, Out
<1>3. Same(a, [a EXCEPT !.chip.wake = FALSE])
  BY DEF Same, Level, Audio, Chip
<1>4. QED
  BY <1>1, <1>2, <1>3 DEF WriteOpened, Goto

\* write() looks for an active input.
LEMMA WriteLookInSame ==
  ASSUME NEW a \in Audio, WriteLookIn(a)
  PROVE  /\ Same(a, audio') /\ call' = call
         /\ \E q \in {"wLockIn", "wWrite", "oLock"} : pc' = [pc EXCEPT !["play"] = q]
<1>1. CASE ActiveIn(a)
  <2>1. Same(a, [a EXCEPT !.in.fresh = @ \cup {"play"}])
    BY DEF Same, Level, Audio, In, Threads
  <2>2. QED
    BY <1>1, <2>1 DEF WriteLookIn, Goto
<1>2. CASE ~ActiveIn(a)
  <2>1. PICK b \in OpenOut(a) : WriteOpened(b)
    BY <1>2 DEF WriteLookIn
  <2>2. Same(a, b) /\ b \in Audio
    BY <2>1, OpenOutSame DEF Same, Level
  <2>3. QED
    BY <2>1, <2>2, WriteOpenedSame, SameSame
<1>3. QED
  BY <1>1, <1>2

\* The end of the input's way out of standby.
LEMMA ReadOpenLevel ==
  ASSUME NEW a \in Audio, ReadOpen(a)
  PROVE  /\ Level(a, audio') /\ audio'.in.echo = a.in.echo /\ call' = call
         /\ \E q \in {"rRead", "iLock"} : pc' = [pc EXCEPT !["rec"] = q]
<1>1. PICK b \in OpenIn(a) :
        /\ audio' = IF b.in.pcm THEN [b EXCEPT !.in.standby = FALSE] ELSE b
        /\ Goto("rec", IF b.in.pcm THEN "rRead" ELSE "iLock") /\ call' = call
  BY DEF ReadOpen
<1>2. Same(a, b) /\ b \in Audio
  BY <1>1, OpenInSame DEF Same, Level
<1>3. PICK c : c = [b EXCEPT !.in.standby = FALSE]
  OBVIOUS
<1>4. Level(b, c) /\ c.in.echo = b.in.echo
  BY <1>2, <1>3 DEF Level, Audio, In
<1>5. audio' = b \/ audio' = c
  BY <1>1, <1>3
<1>6. QED
  BY <1>1, <1>2, <1>4, <1>5 DEF Same, Level, Goto

\* setMode() looks for active streams.
LEMMA ModeLookSame ==
  ASSUME audio \in Audio, ModeLookOut \/ \E S : ModeLookIn(S)
  PROVE  Same(audio, audio')
         /\ \E q \in {"mLockOut", "mLockIn", "mSet"} : pc' = [pc EXCEPT !["ctl"] = q]
<1>1. Same(audio, [audio EXCEPT !.in.fresh = @ \cup {"ctl"}])
  BY DEF Same, Level, Audio, In, Threads
<1>2. Same(audio, [audio EXCEPT !.out.fresh = @ \cup {"ctl"}])
  BY DEF Same, Level, Audio, Out, Threads
<1>3. ASSUME NEW S, ModeLookIn(S)
      PROVE  Same(audio, audio')
               /\ \E q \in {"mLockIn", "mSet"} : pc' = [pc EXCEPT !["ctl"] = q]
  BY <1>1, <1>3, SameSame DEF ModeLookIn, Goto
<1>4. QED
  BY <1>2, <1>3 DEF ModeLookOut, Goto

\* What a step must not do, if it is calm, to keep the invariant.
LEMMA CalmKeeps ==
  ASSUME ReleaseInv, Calm(audio, audio'),
         call'["ctl"] \in {"closeInput", "closeOutput"} => call'["ctl"] = call["ctl"],
         pc'["rec"] # "idle" => audio.in.state = "open",
         pc'["ctl"] \in Releasing => audio.out.state = "open",
         pc'["rec"] \in Releasing =>
           pc["rec"] \in Releasing \/ (~audio.in.standby /\ audio.out.state = "open"),
         /\ pc["rec"] \in Releasing /\ audio'.in.echo /\ ~audio.in.standby
         /\ audio.out.state # "open"
         /\ call["ctl"] = "closeOutput" /\ pc["ctl"] \in {"iLock", "iLockHw"}
         => call'["ctl"] = "closeOutput" /\ pc'["ctl"] \in {"iLock", "iLockHw"}
  PROVE  ReleaseInv'
<1>1. audio' \in Audio /\ EchoSafe'
  BY DEF ReleaseInv, Calm, Level, EchoSafe
<1>2. audio'.in.state = audio.in.state /\ audio'.out.state = audio.out.state
  BY DEF Calm, Level
<1>3. /\ audio'.in.echo => audio.in.echo /\ audio'.in.standby = audio.in.standby
      /\ audio'.in.need = audio.in.need
  BY DEF Calm, Level
<1>4. QED
  BY <1>1, <1>2, <1>3 DEF ReleaseInv

\* Such steps of the write thread, ...
LEMMA PlayKeeps ==
  ASSUME ControlOK, ReleaseInv, Calm(audio, audio'), call'["ctl"] = call["ctl"],
         NEW q, pc' = [pc EXCEPT !["play"] = q]
  PROVE  ReleaseInv'
<1>1. pc'["rec"] = pc["rec"] /\ pc'["ctl"] = pc["ctl"]
  BY DEF ControlOK, Threads
<1>2. QED
  BY <1>1, CalmKeeps DEF ReleaseInv

\* ... of the read thread, ...
LEMMA RecKeeps ==
  ASSUME ControlOK, ReleaseInv, Calm(audio, audio'), call'["ctl"] = call["ctl"],
         NEW q, pc' = [pc EXCEPT !["rec"] = q],
         q # "idle" => pc["rec"] # "idle" \/ audio.in.state = "open",
         q \in Releasing =>
           pc["rec"] \in Releasing \/ (~audio.in.standby /\ audio.out.state = "open")
  PROVE  ReleaseInv'
<1>1. pc'["rec"] = q /\ pc'["ctl"] = pc["ctl"]
  BY DEF ControlOK, Threads
<1>2. QED
  BY <1>1, CalmKeeps DEF ReleaseInv

\* ... and of whoever controls the device.
LEMMA CtlKeeps ==
  ASSUME ControlOK, ReleaseInv, Calm(audio, audio'),
         NEW q, pc' = [pc EXCEPT !["ctl"] = q],
         call'["ctl"] \in {"closeInput", "closeOutput"} => call'["ctl"] = call["ctl"],
         q \in Releasing => pc["ctl"] \in Releasing \/ audio.out.state = "open",
         /\ pc["rec"] \in Releasing /\ audio'.in.echo /\ ~audio.in.standby
         /\ audio.out.state # "open"
         /\ call["ctl"] = "closeOutput" /\ pc["ctl"] \in {"iLock", "iLockHw"}
         => call'["ctl"] = "closeOutput" /\ q \in {"iLock", "iLockHw"}
  PROVE  ReleaseInv'
<1>1. pc'["ctl"] = q /\ pc'["rec"] = pc["rec"]
  BY DEF ControlOK, Threads
<1>2. QED
  BY <1>1, CalmKeeps DEF ReleaseInv

\* A step that is not calm, because read() takes the input out of standby.
LEMMA WakeKeeps ==
  ASSUME ControlOK, ReleaseInv, pc["rec"] # "idle", NEW a \in Audio,
         a.in.state = audio.in.state, a.out.state = audio.out.state,
         a.in.echo => a.hw.echo, a.out.state = "open" /\ a.out.echo => a.hw.echo,
         a.in.echo \/ a.in.need => EchoCancel, ReadOpen(a)
  PROVE  ReleaseInv'
<1>1. PICK q \in {"rRead", "iLock"} : pc' = [pc EXCEPT !["rec"] = q]
  BY ReadOpenLevel
<1>2. pc'["rec"] = q /\ pc'["ctl"] = pc["ctl"] /\ call' = call
  BY <1>1, ReadOpenLevel DEF ControlOK, Threads
<1>3. Level(a, audio') /\ audio'.in.echo = a.in.echo
  BY ReadOpenLevel
<1>4. audio' \in Audio /\ EchoSafe'
  BY <1>3 DEF Level, EchoSafe
<1>5. /\ audio'.in.state = audio.in.state /\ audio'.out.state = audio.out.state
      /\ audio'.in.need = a.in.need
  BY <1>3 DEF Level
<1>6. pc'["rec"] \notin Releasing
  BY <1>2 DEF Releasing
<1>7. QED
  BY <1>2, <1>3, <1>4, <1>5, <1>6 DEF ReleaseInv

\* The input's doStandby_l(), by any thread that is to go on at q.
LEMMA DoStandbyKeeps ==
  ASSUME ControlOK, ReleaseRule, ReleaseInv, NEW t \in Threads, NEW q, NEW a,
         Same(audio, a), DoStandbyIn(t, a, q), call' = call,
         q \notin Releasing, pc[t] # "idle"
  PROVE  ReleaseInv'
<1>1. /\ a \in Audio /\ Calm(audio, audio') /\ Calm(a, audio')
      /\ a.out.state = audio.out.state /\ a.in.standby = audio.in.standby
  BY DoStandbyInCalm, SameSame DEF Same, Level
<1>2. PICK p : /\ pc' = [pc EXCEPT ![t] = p]
               /\ p \in Releasing => ~audio.in.standby /\ audio.out.state = "open"
               /\ p = q \/ p = "sLockOut"
               /\ p \notin Releasing /\ audio'.in.echo => audio.in.standby
  <2>1. CASE /\ pc' = [pc EXCEPT ![t] = "sLockOut"]
             /\ a.out.state = "open" /\ ~a.in.standby
    BY <1>1, <2>1 DEF Releasing
  <2>2. CASE pc' = [pc EXCEPT ![t] = q] /\ (audio'.in.echo => a.in.standby)
    BY <1>1, <2>2
  <2>3. QED
    BY <1>1, <2>1, <2>2, DoStandbyInCalm
<1>3. CASE t = "play"
  BY <1>1, <1>2, <1>3, PlayKeeps
<1>4. CASE t = "rec"
  BY <1>1, <1>2, <1>4, RecKeeps
<1>5. CASE t = "ctl"
  <2>1. ~(audio'.in.echo /\ ~audio.in.standby /\ audio.out.state # "open")
    BY <1>2
  <2>2. QED
    BY <1>1, <1>2, <1>5, <2>1, CtlKeeps
<1>6. QED
  BY <1>3, <1>4, <1>5 DEF Threads

\* A calm step of any thread within a call.
LEMMA AnyKeeps ==
  ASSUME ControlOK, ReleaseRule, ReleaseInv, NEW t \in Threads, NEW q,
         Calm(audio, audio'), pc' = [pc EXCEPT ![t] = q],
         call' = call, pc[t] # "idle", q \in Releasing => pc[t] \in Releasing,
         pc[t] \in {"iLock", "iLockHw"} => q \in {"iLock", "iLockHw"}
  PROVE  ReleaseInv'
<1>1. CASE t = "play"
  BY <1>1, PlayKeeps
<1>2. CASE t = "rec"
  BY <1>2, RecKeeps
<1>3. CASE t = "ctl"
  BY <1>3, CtlKeeps
<1>4. QED
  BY <1>1, <1>2, <1>3 DEF Threads

\* The steps of the write thread.
LEMMA PlayInvStep ==
  ASSUME ControlOK, ReleaseRule, ReleaseInv, PlaySteps
  PROVE  ReleaseInv'
<1>0. audio \in Audio /\ Calm(audio, audio)
  BY SameSame DEF ReleaseInv
<1>1. CASE \/ CallWrite \/ WriteLockIn \/ WriteData \/ CallOutStandby
           \/ CallOutSetParameters
  <2>1. audio' = audio /\ \E q : pc' = [pc EXCEPT !["play"] = q]
    BY <1>1 DEF CallWrite, WriteLockIn, WriteData, CallOutStandby, CallOutSetParameters,
    StartLocked, Start, Acquire, Goto, Return
  <2>2. call' = call \/ \E c : call' = [call EXCEPT !["play"] = c]
    BY <1>1 DEF CallWrite, WriteLockIn, WriteData, CallOutStandby, CallOutSetParameters,
    StartLocked, Start, Acquire, Goto, Return
  <2>3. call'["ctl"] = call["ctl"]
    BY <2>2 DEF ControlOK, Threads
  <2>4. QED
    BY <1>0, <2>1, <2>3, PlayKeeps
<1>2. CASE WriteWake
  <2>1. PICK a : a = [audio EXCEPT !.chip.wake = TRUE]
    OBVIOUS
  <2>2. Same(audio, a) /\ a \in Audio
    BY <1>0, <2>1 DEF Same, Level, Audio, Chip
  <2>3. WriteLookIn(a)
    BY <1>2, <2>1 DEF WriteWake
  <2>4. QED
    BY <2>2, <2>3, WriteLookInSame, SameSame, PlayKeeps
<1>3. CASE WriteRelockHw
  <2>1. CASE WriteLookIn(audio)
    BY <1>0, <2>1, WriteLookInSame, SameSame, PlayKeeps
  <2>2. CASE audio' = audio /\ Goto("play", "iLock") /\ call' = call
    BY <1>0, <2>2, PlayKeeps DEF Goto
  <2>3. ASSUME NEW b \in ReopenBoth(audio),
               \/ WriteOpened(b)
               \/ DoStandbyIn("play", b, "wWrite") /\ UNCHANGED call
               \/ WriteOpened(StandbyIn([b EXCEPT !.in.fresh = {}]))
        PROVE  ReleaseInv'
    <3>1. Same(audio, b) /\ b \in Audio
      BY <1>0, ReopenBothSame DEF Same, Level
    <3>2. CASE WriteOpened(b)
      BY <3>1, <3>2, WriteOpenedSame, SameSame, PlayKeeps
    <3>3. CASE DoStandbyIn("play", b, "wWrite") /\ UNCHANGED call
      <4>1. pc["play"] # "idle"
        BY <1>3 DEF WriteRelockHw, AtDevice
      <4>2. QED
        BY <3>1, <3>3, <4>1, DoStandbyKeeps DEF Threads, Releasing
    <3>4. CASE WriteOpened(StandbyIn([b EXCEPT !.in.fresh = {}]))
      <4>1. PICK c : c = [b EXCEPT !.in.fresh = {}]
        OBVIOUS
      <4>2. Same(b, c) /\ c \in Audio
        BY <3>1, <4>1 DEF Same, Level, Audio, In
      <4>3. PICK d : d = StandbyIn(c)
        OBVIOUS
      <4>4. Calm(c, d) /\ d \in Audio
        BY <4>2, <4>3, StandbyInCalm DEF Calm, Level
      <4>5. Same(d, audio') /\ call' = call /\ \E q : pc' = [pc EXCEPT !["play"] = q]
        BY <3>4, <4>1, <4>3, <4>4, WriteOpenedSame
      <4>6. Calm(audio, audio')
        BY <3>1, <4>2, <4>4, <4>5, SameSame DEF Same, Calm, Level
      <4>7. QED
        BY <4>5, <4>6, PlayKeeps
    <3>5. QED
      BY <2>3, <3>2, <3>3, <3>4
  <2>4. QED
    BY <1>3, <2>1, <2>2, <2>3 DEF WriteRelockHw
<1>4. CASE OutSetParameters
  <2>1. PICK d \in Devices : \E a : a = [audio EXCEPT !.out.device = d]
                                    /\ (audio' = a \/ audio' = StandbyOut(a))
    BY <1>4 DEF OutSetParameters
  <2>2. PICK a : a = [audio EXCEPT !.out.device = d]
                 /\ (audio' = a \/ audio' = StandbyOut(a))
    BY <2>1
  <2>3. Same(audio, a) /\ a \in Audio
    BY <1>0, <2>2 DEF Same, Level, Audio, Out
  <2>4. Calm(audio, audio')
    BY <2>2, <2>3, StandbyOutSame, SameSame
  <2>5. pc' = [pc EXCEPT !["play"] = "idle"] /\ call'["ctl"] = call["ctl"]
    BY <1>4 DEF OutSetParameters, Return, ControlOK, Threads
  <2>6. QED
    BY <2>4, <2>5, PlayKeeps
<1>5. QED
  BY <1>1, <1>2, <1>3, <1>4 DEF PlaySteps

\* The steps of the read thread.
LEMMA RecInvStep ==
  ASSUME ControlOK, ReleaseRule, ReleaseInv, RecSteps
  PROVE  ReleaseInv'
<1>0. /\ audio \in Audio /\ Calm(audio, audio) /\ EchoSafe
  BY SameSame DEF ReleaseInv
<1>1. CASE CallRead \/ CallInStandby \/ CallInSetParameters
  <2>1. /\ audio' = audio /\ audio.in.state = "open"
        /\ \E q \in {"rLockHw", "rRead", "iLockHw", "qLockHw"} : pc' = [pc EXCEPT !["rec"] = q]
        /\ \E c : call' = [call EXCEPT !["rec"] = c]
    BY <1>1 DEF CallRead, CallInStandby, CallInSetParameters, StartLocked, Start, Goto
  <2>2. call'["ctl"] = call["ctl"]
    BY <2>1 DEF ControlOK, Threads
  <2>3. QED
    BY <1>0, <2>1, <2>2, RecKeeps DEF Releasing
<1>2. CASE ReadWake
  <2>1. CASE ReadOpen(audio)
    <3>1. pc["rec"] # "idle"
      BY <1>2 DEF ReadWake, AtDevice
    <3>2. QED
      BY <1>0, <2>1, <3>1, WakeKeeps DEF EchoSafe, ReleaseInv
  <2>2. CASE ~ReadOpen(audio)
    <3>1. /\ audio' = audio /\ call' = call /\ pc["rec"] # "idle"
          /\ pc' = [pc EXCEPT !["rec"] = "rLockOut"]
      BY <1>2, <2>2 DEF ReadWake, AtDevice, Goto
    <3>2. QED
      BY <1>0, <3>1, RecKeeps DEF Releasing
  <2>3. QED
    BY <2>1, <2>2
<1>3. CASE ReadLockOut \/ ReadRelockIn \/ ReadData
  <2>1. /\ audio' = audio /\ pc["rec"] # "idle"
        /\ \E q \in {"rRelockIn", "rRelockHw", "idle", "iLock"} : pc' = [pc EXCEPT !["rec"] = q]
    BY <1>3 DEF ReadLockOut, ReadRelockIn, ReadData, Acquire, Goto, Return
  <2>2. call' = call \/ call' = [call EXCEPT !["rec"] = "none"]
    BY <1>3 DEF ReadLockOut, ReadRelockIn, ReadData, Acquire, Return
  <2>3. call'["ctl"] = call["ctl"]
    BY <2>2 DEF ControlOK, Threads
  <2>4. QED
    BY <1>0, <2>1, <2>3, RecKeeps DEF Releasing
<1>4. CASE ReadRelockHw
  <2>0. pc["rec"] # "idle"
    BY <1>4 DEF ReadRelockHw, AtDevice
  <2>1. CASE ReadOpen(audio)
    BY <1>0, <2>0, <2>1, WakeKeeps DEF EchoSafe, ReleaseInv
  <2>2. CASE audio' = audio /\ call' = call /\ Goto("rec", "oLock")
    BY <1>0, <2>0, <2>2, RecKeeps DEF Releasing, Goto
  <2>3. ASSUME NEW b \in RestartOut(audio), NEW g \in WithEcho(b), ReadOpen(g)
        PROVE  ReleaseInv'
    <3>1. Same(audio, b) /\ b \in Audio
      BY <1>0, RestartOutSame DEF Same, Level
    <3>2. CASE ReadOpen(b)
      BY <1>0, <2>0, <3>1, <3>2, WakeKeeps DEF EchoSafe, Same, Level, ReleaseInv
    <3>3. CASE g \in GetEcho(b) /\ b.in.need
      <4>1. /\ g \in Audio /\ g.in.state = audio.in.state
            /\ g.out.state = audio.out.state /\ EchoCancel
            /\ g.in.echo \/ (g.out.state = "open" /\ g.out.echo) => g.hw.echo
        BY <3>1, <3>3, GetEchoFacts DEF Same, Level, ReleaseInv
      <4>2. QED
        BY <1>0, <2>0, <2>3, <4>1, WakeKeeps
    <3>4. QED
      BY <2>3, <3>2, <3>3 DEF WithEcho
  <2>4. QED
    BY <1>4, <2>1, <2>2, <2>3 DEF ReadRelockHw
<1>5. CASE InSetSource
  <2>1. PICK a \in OpenMixer(audio, DriverFaults) : audio' = CloseMixer(a)
    BY <1>5 DEF InSetSource
  <2>2. Same(audio, a) /\ a \in Audio
    BY <1>0, OpenSame, AudioAssumption DEF Same, Level
  <2>3. Calm(audio, audio')
    BY <2>1, <2>2, CloseSame, SameSame
  <2>4. call' = call /\ pc["rec"] # "idle" /\ pc' = [pc EXCEPT !["rec"] = "qRouteHw"]
    BY <1>5 DEF InSetSource, AtDevice, Goto
  <2>5. QED
    BY <2>3, <2>4, RecKeeps DEF Releasing
<1>6. CASE InSetRouting
  <2>0. pc["rec"] # "idle"
    BY <1>6 DEF InSetRouting, AtDevice
  <2>1. CASE DoStandbyIn("rec", audio, "iUnlock") /\ UNCHANGED call
    BY <1>0, <2>0, <2>1, DoStandbyKeeps, SameSame DEF Threads, Releasing
  <2>2. CASE Return("rec") /\ audio' = audio
    <3>1. pc' = [pc EXCEPT !["rec"] = "idle"] /\ call'["ctl"] = call["ctl"]
      BY <2>2 DEF Return, ControlOK, Threads
    <3>2. QED
      BY <1>0, <2>2, <3>1, RecKeeps DEF Releasing
  <2>3. QED
    BY <1>6, <2>1, <2>2 DEF InSetRouting
<1>7. QED
  BY <1>1, <1>2, <1>3, <1>4, <1>5, <1>6 DEF RecSteps

\* The steps of whoever controls the device.
LEMMA CtlInvStep ==
  ASSUME ControlOK, ReleaseRule, ReleaseInv, CtlSteps
  PROVE  ReleaseInv'
<1>0. /\ audio \in Audio /\ Calm(audio, audio) /\ Same(audio, audio) /\ EchoSafe
  BY SameSame DEF ReleaseInv
<1>1. ASSUME NEW m \in ClientModes, CallSetMode(m) PROVE ReleaseInv'
  <2>1. m \in Modes /\ call' = [call EXCEPT !["ctl"] = m] /\ ModeLookOut /\ pc["ctl"] = "idle"
    BY <1>1, AudioAssumption DEF CallSetMode, Modes, AtDevice
  <2>2. PICK q \in {"mLockOut", "mLockIn", "mSet"} : pc' = [pc EXCEPT !["ctl"] = q]
    BY <1>0, <2>1, ModeLookSame
  <2>3. Calm(audio, audio')
    BY <1>0, <2>1, ModeLookSame, SameSame
  <2>4. call'["ctl"] \notin {"closeInput", "closeOutput"}
    BY <2>1 DEF Modes, ControlOK, Threads
  <2>5. QED
    BY <2>1, <2>2, <2>3, <2>4, CtlKeeps DEF Releasing
<1>2. CASE ModeLockOut \/ ModeLockIn
  <2>1. /\ audio' = audio /\ call' = call /\ pc["ctl"] \in {"mLockOut", "mLockIn"}
        /\ \E q \in {"mRelockHw", "mRelockHwIn"} : pc' = [pc EXCEPT !["ctl"] = q]
    BY <1>2 DEF ModeLockOut, ModeLockIn, Acquire, Goto
  <2>2. QED
    BY <1>0, <2>1, CtlKeeps DEF Releasing
<1>3. CASE ModeRelockHw \/ ModeRelockHwIn
  <2>1. call' = call /\ pc["ctl"] \in {"mRelockHw", "mRelockHwIn"}
    BY <1>3 DEF ModeRelockHw, ModeRelockHwIn, AtDevice
  <2>2. \/ ModeLookOut \/ \E S : ModeLookIn(S)
        \/ audio' = audio /\ Goto("ctl", "mSet")
    BY <1>3 DEF ModeRelockHw, ModeRelockHwIn
  <2>3. /\ Calm(audio, audio')
        /\ \E q \in {"mLockOut", "mLockIn", "mSet"} : pc' = [pc EXCEPT !["ctl"] = q]
    BY <1>0, <2>2, ModeLookSame, SameSame DEF Goto
  <2>4. QED
    BY <2>1, <2>3, CtlKeeps DEF Releasing
<1>4. CASE ModeSet
  <2>1. pc["ctl"] = "mSet" /\ call["ctl"] \in Modes /\ call' = call
    BY <1>4 DEF ModeSet, ReleaseRule, ModePCs
  <2>2. PICK a : a = [audio EXCEPT !.hw.mode = call["ctl"]]
    OBVIOUS
  <2>3. Same(audio, a) /\ a \in Audio
    BY <1>0, <2>1, <2>2 DEF Same, Level, Audio, Hw
  <2>4. Same(audio, HangUp(a)) /\ HangUp(a) \in Audio
    BY <2>3, HangUpSame, SameSame DEF Same, Level
  <2>5. ASSUME NEW b, Same(audio, b), NEW q \in {"mEnter", "mLeave"}, ForceStandby(b, q)
        PROVE  ReleaseInv'
    <3>1. PICK c : c = IF OutLocked THEN StandbyOut(b) ELSE b
      OBVIOUS
    <3>2. Same(audio, c)
      BY <2>5, <3>1, StandbyOutSame, SameSame DEF Same, Level
    <3>3. CASE DoStandbyIn("ctl", c, q)
      BY <2>1, <3>2, <3>3, DoStandbyKeeps DEF Releasing, Threads
    <3>4. CASE audio' = c /\ Goto("ctl", q)
      BY <2>1, <3>2, <3>4, SameSame, CtlKeeps DEF Releasing, Goto
    <3>5. QED
      BY <2>5, <3>1, <3>3, <3>4 DEF ForceStandby
  <2>6. CASE audio' = a /\ Goto("ctl", "mUnlock")
    BY <2>1, <2>3, <2>6, SameSame, CtlKeeps DEF Releasing, Goto
  <2>7. ForceStandby(a, "mEnter") \/ ForceStandby(HangUp(a), "mLeave")
          \/ (audio' = a /\ Goto("ctl", "mUnlock"))
    BY <1>4, <2>2 DEF ModeSet
  <2>8. QED
    BY <2>3, <2>4, <2>5, <2>6, <2>7
<1>5. CASE ModeEnter \/ ModeLeave \/ ModeUnlock
  <2>1. /\ pc["ctl"] \in {"mEnter", "mLeave", "mUnlock"}
        /\ \E q \in {"mUnlock", "idle"} : pc' = [pc EXCEPT !["ctl"] = q]
        /\ call' = call \/ call' = [call EXCEPT !["ctl"] = "none"]
    BY <1>5 DEF ModeEnter, ModeLeave, ModeUnlock, Goto, Return
  <2>2. Same(audio, [audio EXCEPT !.hw.inCall = FALSE])
    BY <1>0 DEF Same, Level, Audio, Hw
  <2>3. Calm(audio, audio')
    <3>1. CASE ModeEnter
      <4>1. audio' \in TakeCall(audio)
        BY <3>1 DEF ModeEnter
      <4>2. Same(audio, audio')
        BY <1>0, <4>1, TakeCallSame
      <4>3. QED
        BY <4>2, SameSame
    <3>2. CASE ModeLeave
      BY <2>2, <3>2, SameSame DEF ModeLeave
    <3>3. CASE ModeUnlock
      BY <1>0, <3>3 DEF ModeUnlock
    <3>4. QED
      BY <1>5, <3>1, <3>2, <3>3
  <2>4. call'["ctl"] \in {"closeInput", "closeOutput"} => call'["ctl"] = call["ctl"]
    BY <2>1 DEF ControlOK, Threads
  <2>5. QED
    BY <2>1, <2>3, <2>4, CtlKeeps DEF Releasing
<1>6. CASE SetMicMute
  <2>1. Same(audio, [audio EXCEPT !.hw.mute = ~@])
    BY <1>0 DEF Same, Level, Audio, Hw
  <2>2. Calm(audio, audio')
    BY <1>6, <2>1, SameSame DEF SetMicMute
  <2>3. /\ pc["ctl"] = "idle"
        /\ pc' = [pc EXCEPT !["ctl"] = "iLock"] \/ pc' = [pc EXCEPT !["ctl"] = "idle"]
        /\ call' = call \/ call' = [call EXCEPT !["ctl"] = "setMicMute"]
    BY <1>6 DEF SetMicMute, AtDevice, Start, Goto, ControlOK
  <2>4. call'["ctl"] \in {"closeInput", "closeOutput"} => call'["ctl"] = call["ctl"]
    BY <2>3 DEF ControlOK, Threads
  <2>5. QED
    BY <2>2, <2>3, <2>4, CtlKeeps DEF Releasing
<1>13. CASE SetNeedEcho
  <2>1. /\ EchoCancel /\ pc["ctl"] = "idle"
        /\ audio' = [audio EXCEPT !.in.need = ~@]
        /\ pc' = [pc EXCEPT !["ctl"] = "iLock"]
        /\ call' = [call EXCEPT !["ctl"] = "audioEffect"]
    BY <1>13 DEF SetNeedEcho, Start, Goto
  <2>2. /\ audio' \in Audio /\ audio'.out = audio.out /\ audio'.hw = audio.hw
        /\ audio'.in.state = audio.in.state /\ audio'.in.echo = audio.in.echo
        /\ audio'.in.standby = audio.in.standby
    BY <1>0, <2>1 DEF Audio, In
  <2>3. /\ pc'["rec"] = pc["rec"] /\ pc'["ctl"] = "iLock"
        /\ call'["ctl"] = "audioEffect"
    BY <2>1 DEF ControlOK, Threads
  <2>4. EchoSafe'
    BY <1>0, <2>2 DEF EchoSafe
  <2>5. pc["rec"] \in Releasing /\ audio.in.echo => audio.out.state = "open"
    BY <2>1 DEF ReleaseInv
  <2>6. QED
    BY <2>1, <2>2, <2>3, <2>4, <2>5 DEF ReleaseInv, Releasing
<1>7. CASE OpenOutputStream
  <2>1. PICK d \in Devices : audio' = [audio EXCEPT !.out = [NewOut(d) EXCEPT !.state = "open"]]
    BY <1>7 DEF OpenOutputStream
  <2>2. PICK o : o = [NewOut(d) EXCEPT !.state = "open"]
    OBVIOUS
  <2>3. o \in Out /\ o.state = "open" /\ ~o.echo
    BY <2>2 DEF NewOut, Out, StreamStates
  <2>4. /\ audio' \in Audio /\ audio'.in = audio.in /\ audio'.hw = audio.hw
        /\ audio'.out = o
    BY <1>0, <2>1, <2>2, <2>3 DEF Audio
  <2>5. audio.out.state = "none" /\ pc' = pc /\ call' = call /\ pc["ctl"] = "idle"
    BY <1>7 DEF OpenOutputStream, AtDevice
  <2>6. QED
    BY <2>3, <2>4, <2>5 DEF ReleaseInv, EchoSafe, Releasing
<1>8. CASE OpenInputStream
  <2>1. PICK i : i = [NewIn EXCEPT !.state = "open"]
    OBVIOUS
  <2>2. i \in In /\ i.state = "open" /\ ~i.echo /\ ~i.need
    BY <2>1 DEF NewIn, In, StreamStates
  <2>3. /\ audio' \in Audio /\ audio'.out = audio.out /\ audio'.hw = audio.hw
        /\ audio'.in = i
    BY <1>0, <1>8, <2>1, <2>2 DEF OpenInputStream, Audio
  <2>4. audio.in.state = "none" /\ pc' = pc /\ call' = call /\ pc["ctl"] = "idle"
    BY <1>8 DEF OpenInputStream, AtDevice
  <2>5. QED
    BY <2>2, <2>3, <2>4 DEF ReleaseInv, EchoSafe, Releasing
<1>9. CASE CloseOutputStream
  <2>1. /\ audio' = [audio EXCEPT !.out.state = "closed"]
        /\ pc' = [pc EXCEPT !["ctl"] =
                    IF audio.hw.echo /\ ActiveIn(audio) THEN "iLock" ELSE "cDrop"]
        /\ call' = [call EXCEPT !["ctl"] = "closeOutput"]
        /\ pc["ctl"] = "idle"
    BY <1>9 DEF CloseOutputStream, AtDevice, Start, Goto
  <2>2. /\ audio' \in Audio /\ audio'.in = audio.in /\ audio'.hw = audio.hw
        /\ audio'.out.state = "closed" /\ audio'.out.echo = audio.out.echo
    BY <1>0, <2>1 DEF Audio, Out, StreamStates
  <2>3. /\ call'["ctl"] = "closeOutput" /\ pc'["rec"] = pc["rec"]
        /\ pc'["ctl"] = IF audio.hw.echo /\ ActiveIn(audio) THEN "iLock" ELSE "cDrop"
    BY <2>1 DEF ControlOK, Threads
  <2>4. pc["rec"] \in Releasing /\ audio.in.echo => pc'["ctl"] = "iLock"
    BY <2>3 DEF ReleaseInv, EchoSafe, ActiveIn, Releasing
  <2>5. pc'["ctl"] \notin Releasing
    BY <2>3 DEF Releasing
  <2>6. EchoSafe'
    BY <1>0, <2>2 DEF EchoSafe
  <2>7. QED
    BY <2>2, <2>3, <2>4, <2>5, <2>6 DEF ReleaseInv
<1>10. CASE DropOutput
  <2>1. /\ audio' = audio /\ pc["ctl"] = "cDrop"
        /\ \E q \in {"idle", "oLock"} : pc' = [pc EXCEPT !["ctl"] = q]
        /\ call' = call \/ call' = [call EXCEPT !["ctl"] = "none"]
    BY <1>10 DEF DropOutput, Goto, Return
  <2>2. call'["ctl"] \in {"closeInput", "closeOutput"} => call'["ctl"] = call["ctl"]
    BY <2>1 DEF ControlOK, Threads
  <2>3. QED
    BY <1>0, <2>1, <2>2, CtlKeeps DEF Releasing
<1>11. CASE CloseInputStream
  <2>1. /\ audio' = [audio EXCEPT !.in.state = "closed"]
        /\ pc["ctl"] = "idle" /\ pc["rec"] = "idle"
        /\ \/ pc' = pc /\ call' = call
           \/ /\ pc' = [pc EXCEPT !["ctl"] = "iLock"]
              /\ call' = [call EXCEPT !["ctl"] = "closeInput"]
    BY <1>11 DEF CloseInputStream, AtDevice, Start, Goto
  <2>2. /\ audio' \in Audio /\ audio'.out = audio.out /\ audio'.hw = audio.hw
        /\ audio'.in.state = "closed" /\ audio'.in.echo = audio.in.echo
        /\ audio'.in.need = audio.in.need
    BY <1>0, <2>1 DEF Audio, In, StreamStates
  <2>3. /\ pc'["rec"] = "idle" /\ pc'["ctl"] \in {"idle", "iLock"}
        /\ call'["ctl"] = "closeOutput" => call["ctl"] = "closeOutput"
    BY <2>1 DEF ControlOK, Threads
  <2>4. EchoSafe'
    BY <1>0, <2>2 DEF EchoSafe
  <2>5. QED
    BY <2>2, <2>3, <2>4 DEF ReleaseInv, Releasing
<1>12. QED
  BY <1>1, <1>2, <1>3, <1>4, <1>5, <1>6, <1>7, <1>8, <1>9, <1>10, <1>11, <1>13
  DEF CtlSteps

\* The streams' standby(), called by any thread.
LEMMA StandbyInvStep ==
  ASSUME ControlOK, ReleaseRule, ReleaseInv, StandbySteps
  PROVE  ReleaseInv'
<1>0. /\ audio \in Audio /\ Calm(audio, audio) /\ Same(audio, audio) /\ EchoSafe
  BY SameSame DEF ReleaseInv
<1>1. PICK t \in Threads :
        \/ OutStandbyLock(t) \/ OutStandby(t)
        \/ InStandbyLock(t) \/ InStandby(t) \/ InStandbyEnd(t)
        \/ StandbyLockOut(t) \/ StandbyLockIn(t) \/ StandbyRelockHw(t)
  BY DEF StandbySteps
<1>2. CASE OutStandbyLock(t) \/ InStandbyLock(t) \/ StandbyLockOut(t) \/ StandbyLockIn(t)
  <2>1. PICK q : /\ audio' = audio /\ call' = call /\ pc' = [pc EXCEPT ![t] = q]
                 /\ pc[t] # "idle"
                 /\ q \in Releasing => pc[t] \in Releasing
                 /\ pc[t] \in {"iLock", "iLockHw"} => q \in {"iLock", "iLockHw"}
    BY <1>2 DEF OutStandbyLock, InStandbyLock, StandbyLockOut, StandbyLockIn, Acquire,
    Goto, Releasing
  <2>2. QED
    BY <1>0, <2>1, AnyKeeps
<1>3. CASE InStandby(t)
  BY <1>0, <1>3, DoStandbyKeeps DEF InStandby, AtDevice, Releasing
\* A call ends, or closeOutputStream() drops its reference.
<1>4. ASSUME Calm(audio, audio'), NEW q \in {"idle", "cDrop"}, pc' = [pc EXCEPT ![t] = q],
             pc[t] \notin {"idle", "iLock", "iLockHw"},
             call' = call \/ call' = [call EXCEPT ![t] = "none"]
      PROVE  ReleaseInv'
  <2>1. /\ call'["ctl"] \in {"closeInput", "closeOutput"} => call'["ctl"] = call["ctl"]
        /\ t # "ctl" => call'["ctl"] = call["ctl"]
    BY <1>4 DEF ControlOK, Threads
  <2>2. q \notin Releasing
    BY DEF Releasing
  <2>3. CASE t = "play"
    BY <1>4, <2>1, <2>3, PlayKeeps
  <2>4. CASE t = "rec"
    BY <1>4, <2>1, <2>2, <2>4, RecKeeps
  <2>5. CASE t = "ctl"
    BY <1>4, <2>1, <2>2, <2>5, CtlKeeps
  <2>6. QED
    BY <2>3, <2>4, <2>5 DEF Threads
<1>5. CASE OutStandby(t)
  <2>1. pc[t] = "oLockHw" /\ Return(t)
    BY <1>5 DEF OutStandby, AtDevice
  <2>2. PICK a : a = StandbyOut(audio)
    OBVIOUS
  <2>3. Same(audio, a) /\ a \in Audio
    BY <1>0, <2>2, StandbyOutSame DEF Same, Level
  <2>4. CASE call[t] # "closeOutput"
    <3>1. audio' = a
      BY <1>5, <2>2, <2>4 DEF OutStandby
    <3>2. QED
      BY <1>4, <2>1, <2>3, <3>1, SameSame DEF Return
  <2>5. CASE call[t] = "closeOutput"
    <3>1. t = "ctl" /\ audio.out.state = "closed"
      BY <2>5 DEF ReleaseRule, ReleaseInv, Threads
    <3>2. audio' = [a EXCEPT !.out = NewOut(a.out.device)]
      BY <1>5, <2>2, <2>5 DEF OutStandby
    <3>3. PICK o : o = NewOut(a.out.device)
      OBVIOUS
    <3>4. o \in Out /\ o.state = "none"
      BY <2>3, <3>3 DEF NewOut, Out, StreamStates, Audio
    <3>5. /\ audio' \in Audio /\ audio'.in = a.in /\ audio'.hw = a.hw
          /\ audio'.out.state = "none"
      BY <2>3, <3>2, <3>3, <3>4 DEF Audio
    <3>6. /\ pc'["ctl"] = "idle" /\ call'["ctl"] = "none" /\ pc'["rec"] = pc["rec"]
      BY <2>1, <3>1 DEF Return, ControlOK, Threads
    <3>7. EchoSafe'
      BY <1>0, <2>3, <3>5 DEF EchoSafe, Same, Level
    <3>8. pc["rec"] \in Releasing => ~audio.in.echo
      BY <2>1, <3>1 DEF ReleaseInv
    <3>9. QED
      BY <2>3, <3>5, <3>6, <3>7, <3>8 DEF ReleaseInv, Releasing, Same, Level
  <2>6. QED
    BY <2>4, <2>5
<1>6. CASE InStandbyEnd(t)
  <2>1. /\ pc[t] = "iUnlock"
        /\ \E q \in {"idle", "cDrop"} : pc' = [pc EXCEPT ![t] = q]
        /\ call' = call \/ call' = [call EXCEPT ![t] = "none"]
    BY <1>6 DEF InStandbyEnd, Return, Goto
  <2>2. CASE call[t] # "closeInput"
    <3>1. audio' = audio
      BY <1>6, <2>2 DEF InStandbyEnd
    <3>2. QED
      BY <1>0, <1>4, <2>1, <3>1
  <2>3. CASE call[t] = "closeInput"
    <3>1. t = "ctl" /\ audio.in.state = "closed"
      BY <2>3 DEF ReleaseRule, ReleaseInv, Threads
    <3>2. audio' = [audio EXCEPT !.in = NewIn] /\ Return(t)
      BY <1>6, <2>3 DEF InStandbyEnd
    <3>3. NewIn \in In /\ ~NewIn.echo /\ ~NewIn.need
      BY DEF NewIn, In, StreamStates
    <3>4. /\ audio' \in Audio /\ audio'.in = NewIn /\ audio'.hw = audio.hw
          /\ audio'.out = audio.out
      BY <1>0, <3>2, <3>3 DEF Audio
    <3>5. /\ pc'["ctl"] = "idle" /\ call'["ctl"] = "none" /\ pc'["rec"] = "idle"
      BY <3>1, <3>2 DEF Return, ControlOK, Threads, ReleaseInv
    <3>6. EchoSafe'
      BY <1>0, <3>3, <3>4 DEF EchoSafe
    <3>7. QED
      BY <3>3, <3>4, <3>5, <3>6 DEF ReleaseInv, Releasing
  <2>4. QED
    BY <2>2, <2>3
<1>7. CASE StandbyRelockHw(t)
  <2>1. pc[t] = "sRelockHw" /\ call' = call
    BY <1>7 DEF StandbyRelockHw, AtDevice
  <2>2. t # "play" /\ cont[t] \notin Releasing /\ cont[t] \notin {"idle", "iLock", "iLockHw"}
    BY <2>1 DEF ReleaseRule, Releasing, Threads
  <2>3. CASE audio.in.echo
    <3>1. ~(audio.out.state = "closed" /\ \A u \in Threads \ {t} : ~RefersToOut(u))
      BY <2>1, <2>2, <2>3 DEF ReleaseInv, Releasing, RefersToOut, Threads
    <3>2. PICK a : a = ReleaseEcho(audio)
      OBVIOUS
    <3>3. /\ a \in Audio /\ a.in = audio.in /\ a.out.state = audio.out.state
          /\ ~a.hw.echo /\ (a.out.state = "open" => ~a.out.echo)
      BY <1>0, <3>2, ReleaseEchoFacts
    <3>4. audio' = StandbyIn([a EXCEPT !.in.echo = FALSE]) /\ pc' = [pc EXCEPT ![t] = cont[t]]
      BY <1>7, <2>3, <3>1, <3>2, <3>3 DEF StandbyRelockHw, Goto
    <3>5. PICK c : c = [a EXCEPT !.in.echo = FALSE]
      OBVIOUS
    <3>6. /\ c \in Audio /\ c.out = a.out /\ c.hw = a.hw /\ ~c.in.echo
          /\ c.in.state = a.in.state /\ c.in.need = a.in.need
      BY <3>3, <3>5 DEF Audio, In
    <3>7. Level(c, audio') /\ ~audio'.in.echo
      BY <3>4, <3>5, <3>6, StandbyInCalm DEF Calm
    <3>8. /\ audio' \in Audio /\ EchoSafe' /\ audio'.in.state = audio.in.state
          /\ audio'.out.state = audio.out.state
          /\ audio'.in.need = audio.in.need
      BY <3>3, <3>6, <3>7 DEF Level, EchoSafe
    <3>9. /\ pc'["ctl"] \in Releasing => pc["ctl"] \in Releasing
          /\ pc'["rec"] # "idle" => pc["rec"] # "idle"
      BY <2>1, <2>2, <3>4 DEF ControlOK, Threads
    <3>10. QED
      BY <2>1, <3>7, <3>8, <3>9 DEF ReleaseInv
  <2>4. CASE ~audio.in.echo
    <3>1. PICK c : c = [audio EXCEPT !.in.echo = FALSE]
      OBVIOUS
    <3>2. Same(audio, c) /\ c \in Audio
      BY <1>0, <2>4, <3>1 DEF Same, Level, Audio, In
    <3>3. \/ audio' = audio /\ pc' = [pc EXCEPT ![t] = "oLock"]
          \/ audio' = StandbyIn(c) /\ pc' = [pc EXCEPT ![t] = cont[t]]
      BY <1>7, <2>4, <3>1 DEF StandbyRelockHw, Goto
    <3>4. Calm(audio, audio')
      BY <1>0, <3>2, <3>3, StandbyInCalm, SameSame
    <3>5. PICK q : pc' = [pc EXCEPT ![t] = q] /\ q \notin Releasing
      BY <2>2, <3>3 DEF Releasing
    <3>6. QED
      BY <2>1, <3>4, <3>5, AnyKeeps
  <2>5. QED
    BY <2>3, <2>4
<1>8. QED
  BY <1>1, <1>2, <1>3, <1>5, <1>6, <1>7

\* The invariant holds at first.
LEMMA EchoInit == Init => EchoInv
<1> SUFFICES ASSUME Init PROVE EchoInv
  OBVIOUS
<1>1. PICK d \in Devices :
        audio = [out |-> NewOut(d), in |-> NewIn,
                 hw |-> [mode |-> "NORMAL", inCall |-> FALSE, pcmCnt |-> 0,
                         mixerCnt |-> 0, mute |-> FALSE, echo |-> FALSE,
                         callPcm |-> FALSE, callMixer |-> FALSE, late |-> FALSE],
                 chip |-> [play |-> d, mic |-> TRUE, wake |-> FALSE]]
  BY DEF Init
<1>2. NewOut(d) \in Out /\ NewIn \in In
  BY DEF NewOut, NewIn, Out, In, StreamStates
<1>3. audio \in Audio /\ EchoSafe /\ ~audio.in.echo /\ ~audio.in.need
  BY <1>1, <1>2 DEF Audio, Hw, Chip, Modes, EchoSafe, NewOut, NewIn
<1>4. ControlOK
  BY DEF Init, ControlOK, PCs, Calls
<1>5. ReleaseRule
  BY DEF Init, ReleaseRule, WithOut, WithHw, Releasing, ModePCs, Threads
<1>6. ReleaseInv
  BY <1>3 DEF Init, ReleaseInv, Releasing, Threads
<1>7. QED
  BY <1>3, <1>4, <1>5, <1>6 DEF EchoInv

\* Every step keeps it.
LEMMA EchoStep == EchoInv /\ [Next]_vars => EchoInv'
<1> SUFFICES ASSUME EchoInv, [Next]_vars PROVE EchoInv'
  OBVIOUS
<1>1. ControlOK /\ ReleaseRule /\ ReleaseInv
  BY DEF EchoInv
<1>2. \A t \in Threads : pc[t] = "sRelockHw" => cont[t] \in PCs
  BY <1>1 DEF ReleaseRule, Releasing, Threads, PCs
<1>3. ControlOK'
  BY <1>1, <1>2, ControlStep
<1>4. ReleaseRule'
  BY <1>1, ReleaseRuleStep
<1>5. ReleaseInv'
  <2>1. CASE UNCHANGED vars
    BY <1>1, <2>1 DEF ReleaseInv, EchoSafe, vars
  <2>2. CASE Next
    BY <1>1, <2>2, PlayInvStep, RecInvStep, CtlInvStep, StandbyInvStep DEF Next
  <2>3. QED
    BY <2>1, <2>2
<1>6. QED
  BY <1>3, <1>4, <1>5 DEF EchoInv

\* In every environment the variables have their types, no stream uses an echo
\* reference that was released, and the rules above hold.
THEOREM EchoInvariant == Spec => []EchoInv
BY EchoInit, EchoStep, PTL DEF Spec

\* Every variable of the HAL always has a value the code can give it.
THEOREM AudioTypeCorrect == Spec => []TypeOK
<1>1. EchoInv => TypeOK
  BY DEF EchoInv, ControlOK, ReleaseInv, TypeOK
<1>2. QED
  BY <1>1, EchoInvariant, PTL

\* Neither stream ever has an echo reference that releaseEchoReference() has given
\* back, although the input's doStandby_l() must let go of its mutexes to do so, and
\* the output may be closed meanwhile.
THEOREM EchoSafeHolds == Spec => []EchoSafe
<1>1. EchoInv => EchoSafe
  BY DEF EchoInv, ReleaseInv
<1>2. QED
  BY <1>1, EchoInvariant, PTL

-----------------------------------------------------------------------------
(* The order of the two PCMs and the mute flag, in every environment.        *)

\* setMode() is at p, or will be when the input is in standby.
CtlAt(p) == pc["ctl"] = p \/ (pc["ctl"] \in Releasing /\ cont["ctl"] = p)

\* Where read() takes the input out of standby, and where the control thread is
\* about to put it there.
Rousing == {"rLockHw", "rLockOut", "rRelockIn", "rRelockHw"}
Settling == {"iLock", "iLockHw"} \cup Releasing

\* Where a thread has the input's mutex.
WithIn == {"wRelockHw", "rLockHw", "rRelockHw", "rRead", "iLockHw", "iUnlock",
           "qLockHw", "qRouteHw", "mRelockHwIn", "sRelockHw"}

InRule == \A t \in Threads : pc[t] \in WithIn => lock["in"] = t

\* The microphone's path is what the mute flag says.
MicRight(a) == ActiveIn(a) /\ a.in.mixer => a.chip.mic = ~a.hw.mute

\* Between the moment setMode() has found or made the input inactive and its
\* end, nobody can wake it.  An active input has the path of the mute flag,
\* unless there is a call or the control thread is about to put it in standby;
\* and there is no mode IN_CALL without a call, but on the way into one.
PathInv ==
  /\ ~audio.hw.late
  /\ audio.in.standby => ~audio.in.pcm /\ ~audio.in.mixer
  /\ pc["rec"] \in Rousing => audio.in.standby
  /\ \A t \in Threads : pc[t] = "iUnlock" => audio.in.standby
  /\ pc["ctl"] = "mSet" => lock["in"] = "ctl" \/ ~ActiveIn(audio)
  /\ pc["ctl"] \in {"mEnter", "mLeave"} => ~ActiveIn(audio)
  /\ ~audio.hw.inCall /\ pc["ctl"] \notin Settling => MicRight(audio)
  /\ audio.hw.mode = "IN_CALL" => audio.hw.inCall \/ CtlAt("mEnter")
  /\ CtlAt("mEnter") => ~audio.hw.inCall
  /\ CtlAt("mLeave") => audio.hw.mode = "NORMAL"

\* An input has the capture PCM open.
Captures(a) == a.in.state = "open" /\ a.in.pcm

\* What the streams' own functions do to the device's other fields: nothing.
Steady(a, b) ==
  /\ b \in Audio /\ b.in.state = a.in.state
  /\ b.hw.mode = a.hw.mode /\ b.hw.mute = a.hw.mute
  /\ b.hw.late = a.hw.late /\ b.hw.inCall = a.hw.inCall

\* ... and what those of the output do to the input.
Aside(a, b) ==
  /\ Steady(a, b)
  /\ b.in.standby = a.in.standby /\ b.in.pcm = a.in.pcm
  /\ b.in.mixer = a.in.mixer /\ b.chip.mic = a.chip.mic

\* The input is put in standby.
Down(a, b) == Steady(a, b) /\ b.in.standby /\ ~b.in.pcm /\ ~b.in.mixer

\* openPcmOut_l(), with the capture PCM closed.
LEMMA OpenPcmAside ==
  ASSUME NEW a \in Audio, ~Captures(a), NEW f \in BOOLEAN, NEW b \in OpenPcm(a, f)
  PROVE  Aside(a, b)
<1>0. b \in Audio
  BY OpenSame DEF Same, Level
<1>1. CASE b = a
  BY <1>1 DEF Aside, Steady
<1>2. CASE b # a
  <2>1. b = [a EXCEPT !.hw.pcmCnt = @ + 1, !.hw.late = @ \/ FALSE]
    BY <1>2 DEF OpenPcm, Faulty, Captures
  <2>2. a.hw.late \in BOOLEAN
    BY DEF Audio, Hw
  <2>3. QED
    BY <1>0, <2>1, <2>2 DEF Aside, Steady, Audio, Hw
<1>3. QED
  BY <1>1, <1>2

\* openMixer_l().
LEMMA OpenMixerAside ==
  ASSUME NEW a \in Audio, NEW f \in BOOLEAN, NEW b \in OpenMixer(a, f)
  PROVE  Aside(a, b)
<1>0. b \in Audio
  BY OpenSame DEF Same, Level
<1>1. QED
  BY <1>0 DEF OpenMixer, Faulty, Aside, Steady, Audio, Hw

\* closePcmOut_l() and closeMixer_l().
LEMMA CloseAside ==
  ASSUME NEW a \in Audio
  PROVE  Aside(a, ClosePcm(a)) /\ Aside(a, CloseMixer(a))
<1>0. ClosePcm(a) \in Audio /\ CloseMixer(a) \in Audio
  BY CloseSame DEF Same, Level
<1>1. QED
  BY <1>0 DEF ClosePcm, CloseMixer, Aside, Steady, Audio, Hw

LEMMA AsideTrans ==
  ASSUME NEW a, NEW b, NEW c, Aside(a, b), Aside(b, c) PROVE Aside(a, c)
BY DEF Aside, Steady

\* The output's close_l().
LEMMA CloseOutAside ==
  ASSUME NEW a \in Audio PROVE Aside(a, CloseOut(a))
<1> DEFINE m == IF a.out.mixer THEN CloseMixer(a) ELSE a
           p == IF a.out.pcm THEN ClosePcm(m) ELSE m
<1>0. Aside(a, a)
  BY DEF Aside, Steady
<1>1. m \in Audio /\ Aside(a, m)
  BY <1>0, CloseAside DEF Aside, Steady
<1>2. CloseOut(a) = [p EXCEPT !.out.pcm = FALSE, !.out.mixer = FALSE]
  BY DEF CloseOut
<1> HIDE DEF m
<1>3. p \in Audio /\ Aside(a, p)
  BY <1>1, CloseAside, AsideTrans DEF Aside, Steady
<1> HIDE DEF p
<1>4. Aside(p, CloseOut(a))
  <2>1. CloseOut(a) \in Audio
    BY CloseOutSame DEF Same, Level
  <2>2. QED
    BY <1>2, <1>3, <2>1 DEF Aside, Steady, Audio, Out
<1>5. QED
  BY <1>3, <1>4, AsideTrans

\* The output's open_l(), with the capture PCM closed.
LEMMA OpenOutAside ==
  ASSUME NEW a \in Audio, ~Captures(a), NEW b \in OpenOut(a)
  PROVE  Aside(a, b)
<1> DEFINE Opened(m) == [m EXCEPT !.out.pcm = TRUE,
                                  !.out.mixer = (m.hw.mixerCnt > a.hw.mixerCnt),
                                  !.chip.play = IF m.hw.mixerCnt > a.hw.mixerCnt /\
                                                   m.hw.mode # "IN_CALL"
                                                  THEN m.out.device ELSE @]
<1>0. DriverFaults \in BOOLEAN
  BY AudioAssumption
<1>1. PICK p \in OpenPcm(a, DriverFaults) :
        IF p.hw.pcmCnt = a.hw.pcmCnt THEN b = p
        ELSE \E m \in OpenMixer(p, DriverFaults) : b = Opened(m)
  BY ZenonT(30) DEF OpenOut
<1>2. p \in Audio /\ Aside(a, p)
  BY <1>0, OpenPcmAside DEF Aside, Steady
<1>3. CASE b = p
  BY <1>2, <1>3
<1>4. CASE b # p
  <2>1. PICK m \in OpenMixer(p, DriverFaults) : b = Opened(m)
    BY <1>1, <1>4
  <2>2. m \in Audio /\ Aside(p, m)
    BY <1>0, <1>2, OpenMixerAside DEF Aside, Steady
  <2>3. b \in Audio
    BY OpenOutSame DEF Same, Level
  <2>4. Aside(m, b)
    BY <2>1, <2>2, <2>3 DEF Aside, Steady, Audio, Chip
  <2>5. QED
    BY <1>2, <2>2, <2>4, AsideTrans
<1>5. QED
  BY <1>3, <1>4

\* The output's doStandby_l().
LEMMA StandbyOutAside ==
  ASSUME NEW a \in Audio PROVE Aside(a, StandbyOut(a))
<1>1. PICK c : c = [a EXCEPT !.out.fresh = {}, !.out.standby = TRUE,
                             !.chip.wake = IF a.out.standby THEN @ ELSE FALSE]
  OBVIOUS
<1>2. c \in Audio /\ Aside(a, c)
  BY <1>1 DEF Audio, Out, Chip, Aside, Steady
<1>3. StandbyOut(a) = CloseOut(c)
  BY <1>1 DEF StandbyOut
<1>4. QED
  BY <1>2, <1>3, CloseOutAside, AsideTrans

\* The output restarted for the input.
LEMMA RestartOutAside ==
  ASSUME NEW a \in Audio, ~Captures(a), NEW b \in RestartOut(a)
  PROVE  Aside(a, b)
<1>1. CASE ~ActiveOut(a)
  BY <1>1 DEF RestartOut, Aside, Steady
<1>2. CASE ActiveOut(a)
  <2>1. PICK d \in OpenOut(CloseOut(a)) : b = d \/ b = StandbyOut(d)
    BY <1>2 DEF RestartOut
  <2>2. PICK c : c = CloseOut(a)
    OBVIOUS
  <2>3. c \in Audio /\ Aside(a, c)
    BY <2>2, CloseOutAside DEF Aside, Steady
  <2>4. d \in Audio /\ Aside(c, d)
    BY <2>1, <2>2, <2>3, OpenOutAside DEF Captures, Aside, Steady
  <2>5. CASE b = d
    BY <2>3, <2>4, <2>5, AsideTrans
  <2>6. CASE b = StandbyOut(d)
    <3>1. Aside(d, b)
      BY <2>4, <2>6, StandbyOutAside
    <3>2. QED
      BY <2>3, <2>4, <3>1, AsideTrans
  <2>7. QED
    BY <2>1, <2>5, <2>6
<1>3. QED
  BY <1>1, <1>2

\* A new echo reference, and one that is given back.
LEMMA EchoAside ==
  ASSUME NEW a \in Audio
  PROVE  (\A g \in GetEcho(a) : Aside(a, g)) /\ Aside(a, ReleaseEcho(a))
<1>1. (\A g \in GetEcho(a) : g \in Audio) /\ ReleaseEcho(a) \in Audio
  BY GetEchoFacts, ReleaseEchoFacts
<1>2. Aside(a, ReleaseEcho(a))
  <2>1. PICK e \in BOOLEAN : e = IF a.out.state = "open" THEN FALSE ELSE a.out.echo
    BY DEF Audio, Out
  <2>2. ReleaseEcho(a) = [a EXCEPT !.hw.echo = FALSE, !.out.echo = e]
    BY <2>1 DEF ReleaseEcho, Audio, Out
  <2>3. QED
    BY <1>1, <2>2 DEF Aside, Steady, Audio, Hw, Out
<1>3. ASSUME NEW g \in GetEcho(a) PROVE Aside(ReleaseEcho(a), g)
  <2>1. PICK c : c = ReleaseEcho(a)
    OBVIOUS
  <2>2. /\ c \in Audio /\ g \in Audio
        /\ \/ g = [c EXCEPT !.hw.echo = TRUE, !.out.echo = TRUE, !.in.echo = TRUE]
           \/ g = [c EXCEPT !.in.echo = FALSE]
    BY <1>1, <2>1 DEF GetEcho, Faulty
  <2>3. Aside(c, g)
    <3>1. CASE g = [c EXCEPT !.hw.echo = TRUE, !.out.echo = TRUE, !.in.echo = TRUE]
      BY <2>2, <3>1 DEF Aside, Steady, Audio, Hw, Out, In
    <3>2. CASE g = [c EXCEPT !.in.echo = FALSE]
      BY <2>2, <3>2 DEF Aside, Steady, Audio, In
    <3>3. QED
      BY <2>2, <3>1, <3>2
  <2>4. QED
    BY <2>1, <2>3
<1>4. QED
  BY <1>2, <1>3, AsideTrans

\* The input's close_l().
LEMMA CloseInPath ==
  ASSUME NEW a \in Audio
  PROVE  /\ Steady(a, CloseIn(a)) /\ CloseIn(a).chip.mic = a.chip.mic
         /\ CloseIn(a).in.standby = a.in.standby
         /\ ~CloseIn(a).in.pcm /\ ~CloseIn(a).in.mixer
<1> DEFINE m == IF a.in.mixer THEN CloseMixer(a) ELSE a
<1>1. m \in Audio /\ Aside(a, m)
  BY CloseAside DEF Aside, Steady
<1>2. CloseIn(a) = [m EXCEPT !.in.pcm = FALSE, !.in.mixer = FALSE]
  BY DEF CloseIn
<1> HIDE DEF m
<1>3. PICK b : b = CloseIn(a)
  OBVIOUS
<1>4. b \in Audio
  BY <1>3, CloseInSame DEF Same, Level
<1>5. /\ b.hw = m.hw /\ b.chip = m.chip /\ b.in.state = m.in.state
      /\ b.in.standby = m.in.standby /\ ~b.in.pcm /\ ~b.in.mixer
  BY <1>1, <1>2, <1>3 DEF Audio, In
<1>6. QED
  BY <1>1, <1>3, <1>4, <1>5 DEF Aside, Steady

\* The input's open_l(): with the mixer comes the path of the mute flag.
LEMMA OpenInPath ==
  ASSUME NEW a \in Audio, NEW b \in OpenIn(a)
  PROVE  /\ Steady(a, b) /\ b.in.standby = a.in.standby
         /\ b.in.pcm \/ b = a
         /\ b = a \/ (b.in.mixer /\ a.hw.mode # "IN_CALL" => b.chip.mic = ~a.hw.mute)
<1>0. DriverFaults \in BOOLEAN /\ b \in Audio
  BY AudioAssumption, OpenInSame DEF Same, Level
<1>1. CASE b = a
  BY <1>1 DEF Steady
<1>2. CASE b # a
  <2>1. PICK m \in OpenMixer(a, DriverFaults) :
          b = [m EXCEPT !.in.pcm = TRUE,
                        !.in.mixer = (m.hw.mixerCnt > a.hw.mixerCnt),
                        !.chip.mic = IF m.hw.mixerCnt > a.hw.mixerCnt /\
                                        m.hw.mode # "IN_CALL"
                                       THEN ~m.hw.mute ELSE @]
    BY <1>2 DEF OpenIn, Faulty
  <2>2. m \in Audio /\ Aside(a, m)
    BY <1>0, <2>1, OpenMixerAside DEF Aside, Steady
  <2>3. b.hw = m.hw /\ b.in.pcm /\ b.in.standby = m.in.standby
        /\ b.in.state = m.in.state
    BY <2>1, <2>2 DEF Audio, In
  <2>4. ASSUME b.in.mixer, a.hw.mode # "IN_CALL" PROVE b.chip.mic = ~a.hw.mute
    <3>1. m.hw.mixerCnt > a.hw.mixerCnt
      BY <2>1, <2>2, <2>4 DEF Audio, In
    <3>2. QED
      BY <2>1, <2>2, <2>4, <3>1 DEF Audio, Chip, Aside, Steady
  <2>5. QED
    BY <1>0, <2>2, <2>3, <2>4 DEF Aside, Steady
<1>3. QED
  BY <1>1, <1>2

\* The end of the input's doStandby_l().
LEMMA StandbyInDown ==
  ASSUME NEW a \in Audio PROVE Down(a, StandbyIn(a))
<1>1. PICK e \in BOOLEAN :
        e = IF a.in.standby THEN a.in.echo ELSE FALSE
  BY DEF Audio, In
<1>2. PICK c : c = [a EXCEPT !.in.echo = e, !.in.standby = TRUE]
  OBVIOUS
<1>3. c \in Audio /\ Steady(a, c) /\ c.in.standby
  BY <1>2 DEF Audio, In, Steady
<1>4. StandbyIn(a) = CloseIn(c)
  BY <1>1, <1>2 DEF StandbyIn, Audio, In
<1>5. QED
  BY <1>3, <1>4, CloseInPath DEF Steady, Down

\* The input closed and opened again after the output.
LEMMA ReopenBothPath ==
  ASSUME NEW a \in Audio, NEW b \in ReopenBoth(a)
  PROVE  /\ Steady(a, b) /\ b.in.standby = a.in.standby
         /\ b.in.mixer /\ a.hw.mode # "IN_CALL" => b.chip.mic = ~a.hw.mute
<1>1. PICK c : c = CloseIn(a)
  OBVIOUS
<1>2. PICK d \in OpenOut(c) : b \in OpenIn(d)
  BY <1>1 DEF ReopenBoth
<1>3. /\ c \in Audio /\ Steady(a, c) /\ c.in.standby = a.in.standby
      /\ ~c.in.mixer /\ ~c.in.pcm
  BY <1>1, CloseInPath DEF Steady
<1>4. d \in Audio /\ Aside(c, d)
  BY <1>2, <1>3, OpenOutAside DEF Captures, Aside, Steady
<1>5. /\ Steady(d, b) /\ b.in.standby = d.in.standby
      /\ b = d \/ (b.in.mixer /\ d.hw.mode # "IN_CALL" => b.chip.mic = ~d.hw.mute)
  BY <1>2, <1>4, OpenInPath
<1>6. QED
  BY <1>3, <1>4, <1>5 DEF Aside, Steady

\* The input's doStandby_l(), started in state a.
LEMMA DoStandbyInPath ==
  ASSUME NEW t, NEW q, NEW a \in Audio, DoStandbyIn(t, a, q)
  PROVE  \/ /\ Aside(a, audio') /\ ~a.in.standby
            /\ Goto(t, "sLockOut") /\ cont' = [cont EXCEPT ![t] = q]
         \/ Down(a, audio') /\ Goto(t, q) /\ cont' = cont
<1>1. PICK d : d = [a EXCEPT !.in.fresh = {}]
  OBVIOUS
<1>2. d \in Audio /\ Aside(a, d)
  BY <1>1 DEF Audio, In, Aside, Steady
<1>3. CASE ~a.in.standby /\ a.in.echo /\ a.out.state = "open"
  BY <1>1, <1>2, <1>3 DEF DoStandbyIn
<1>4. CASE ~(~a.in.standby /\ a.in.echo /\ a.out.state = "open")
  <2>1. audio' = StandbyIn(d) /\ Goto(t, q) /\ cont' = cont
    BY <1>1, <1>4 DEF DoStandbyIn
  <2>2. Down(d, audio')
    BY <1>2, <2>1, StandbyInDown
  <2>3. QED
    BY <1>2, <2>1, <2>2 DEF Down, Aside, Steady
<1>5. QED
  BY <1>3, <1>4

\* HangUp() and TakeCall() of setMode().
LEMMA HangUpAside ==
  ASSUME NEW a \in Audio PROVE Aside(a, HangUp(a))
<1>0. PICK d \in Devices \cup {Receiver} :
        d = IF a.hw.mixerCnt > 0 THEN Receiver ELSE a.chip.play
  BY DEF Audio, Chip
<1>1. PICK c : c = [a EXCEPT !.chip.play = d, !.hw.callPcm = FALSE,
                             !.hw.callMixer = FALSE]
  OBVIOUS
<1>2. c \in Audio /\ Aside(a, c)
  BY <1>1 DEF Aside, Steady, Audio, Chip, Hw
<1>3. HangUp(a) = ClosePcm(CloseMixer(c))
  BY <1>0, <1>1 DEF HangUp, Audio, Chip
<1>4. PICK m : m = CloseMixer(c)
  OBVIOUS
<1>5. m \in Audio /\ Aside(c, m)
  BY <1>2, <1>4, CloseAside DEF Aside, Steady
<1>6. Aside(m, HangUp(a))
  BY <1>3, <1>4, <1>5, CloseAside
<1>7. QED
  BY <1>2, <1>5, <1>6, AsideTrans

LEMMA TakeCallPath ==
  ASSUME NEW a \in Audio, ~Captures(a), NEW b \in TakeCall(a)
  PROVE  /\ b \in Audio /\ b.in.state = a.in.state /\ b.hw.inCall = TRUE
         /\ b.hw.mode = a.hw.mode /\ b.hw.late = a.hw.late
         /\ b.in.standby = a.in.standby /\ b.in.pcm = a.in.pcm
         /\ b.in.mixer = a.in.mixer
<1>0. CallFaults \in BOOLEAN /\ b \in Audio
  BY AudioAssumption, TakeCallSame DEF Same, Level
<1>1. PICK p \in OpenPcm(a, CallFaults) : \E m \in OpenMixer(p, CallFaults) :
        b = [m EXCEPT !.hw.inCall = TRUE,
                      !.hw.callPcm = (p.hw.pcmCnt > a.hw.pcmCnt),
                      !.hw.callMixer = (m.hw.mixerCnt > p.hw.mixerCnt)]
  BY DEF TakeCall
<1>2. p \in Audio /\ Aside(a, p)
  BY <1>0, OpenPcmAside DEF Aside, Steady
<1>3. PICK m \in OpenMixer(p, CallFaults) :
        b = [m EXCEPT !.hw.inCall = TRUE,
                      !.hw.callPcm = (p.hw.pcmCnt > a.hw.pcmCnt),
                      !.hw.callMixer = (m.hw.mixerCnt > p.hw.mixerCnt)]
  BY <1>1
<1>4. m \in Audio /\ Aside(p, m)
  BY <1>0, <1>2, OpenMixerAside DEF Aside, Steady
<1>5. PICK x \in BOOLEAN : x = (p.hw.pcmCnt > a.hw.pcmCnt)
  BY <1>2, CountsNat, MoreIs
<1>6. PICK y \in BOOLEAN : y = (m.hw.mixerCnt > p.hw.mixerCnt)
  BY <1>2, <1>4, CountsNat, MoreIs
<1>7. b = [m EXCEPT !.hw.inCall = TRUE, !.hw.callPcm = x, !.hw.callMixer = y]
  BY <1>3, <1>5, <1>6
<1>8. /\ b.in = m.in /\ b.hw.mode = m.hw.mode /\ b.hw.late = m.hw.late
      /\ b.hw.inCall = TRUE
  BY <1>4, <1>7 DEF Aside, Steady, Audio, Hw
<1>9. QED
  BY <1>0, <1>2, <1>4, <1>8 DEF Aside, Steady

\* Every step keeps what it says of the input's mutex.
LEMMA InStep ==
  ASSUME ControlOK, ReleaseRule, InRule, [Next]_vars
  PROVE  InRule'
<1> USE DEF ControlOK, InRule, WithIn, Threads, Locks, Goto
<1>0. /\ \A t \in Threads : pc[t] \in WithHw(t) => lock["hw"] = t
      /\ pc["play"] # "sRelockHw"
      /\ \A t \in Threads : pc[t] = "sRelockHw" => cont[t] \in {"iUnlock", "mEnter", "mLeave"}
  BY DEF ReleaseRule, Releasing
<1>1. CASE CallWrite
  BY <1>0, <1>1 DEF CallWrite, StartLocked, Start
<1>2. CASE WriteWake
  BY <1>0, <1>2 DEF WriteWake, AtDevice, WriteLookIn, WriteOpened
<1>3. CASE WriteLockIn
  BY <1>0, <1>3 DEF WriteLockIn, Acquire
<1>4. CASE WriteRelockHw
  <2>0. pc["play"] = "wRelockHw" /\ lock["hw"] = "free"
    BY <1>4 DEF WriteRelockHw, AtDevice
  <2>1. \/ \E b : WriteOpened(b)
        \/ WriteLookIn(audio)
        \/ \E b : DoStandbyIn("play", b, "wWrite") /\ UNCHANGED call
        \/ /\ lock' = [lock EXCEPT !["in"] = "free", !["hw"] = "play"]
           /\ Goto("play", "iLock")
           /\ UNCHANGED <<call, cont>>
    BY <1>4 DEF WriteRelockHw
  <2>2. CASE \E b : WriteOpened(b)
    BY <2>0, <2>2 DEF WriteOpened
  <2>3. CASE WriteLookIn(audio)
    BY <2>0, <2>3 DEF WriteLookIn, WriteOpened
  <2>4. CASE \E b : DoStandbyIn("play", b, "wWrite") /\ UNCHANGED call
    BY <2>0, <2>4 DEF DoStandbyIn
  <2>5. CASE /\ lock' = [lock EXCEPT !["in"] = "free", !["hw"] = "play"]
             /\ Goto("play", "iLock")
             /\ UNCHANGED <<call, cont>>
    BY <2>0, <2>5
  <2>6. QED
    BY <2>1, <2>2, <2>3, <2>4, <2>5
<1>5. CASE WriteData
  BY <1>0, <1>5 DEF WriteData, Return
<1>6. CASE CallOutStandby
  BY <1>0, <1>6 DEF CallOutStandby, StartLocked, Start
<1>7. CASE CallOutSetParameters
  BY <1>0, <1>7 DEF CallOutSetParameters, StartLocked, Start
<1>8. CASE OutSetParameters
  BY <1>0, <1>8 DEF OutSetParameters, AtDevice, Return
<1>9. CASE CallRead
  BY <1>0, <1>9 DEF CallRead, StartLocked, Start
<1>10. CASE ReadWake
  BY <1>0, <1>10 DEF ReadWake, AtDevice, ReadOpen
<1>11. CASE ReadLockOut
  BY <1>0, <1>11 DEF ReadLockOut, Acquire
<1>12. CASE ReadRelockIn
  BY <1>0, <1>12 DEF ReadRelockIn, Acquire
<1>13. CASE ReadRelockHw
  BY <1>0, <1>13 DEF ReadRelockHw, AtDevice, ReadOpen
<1>14. CASE ReadData
  BY <1>0, <1>14 DEF ReadData, Return
<1>15. CASE CallInStandby
  BY <1>0, <1>15 DEF CallInStandby, StartLocked, Start
<1>16. CASE CallInSetParameters
  BY <1>0, <1>16 DEF CallInSetParameters, StartLocked, Start
<1>17. CASE InSetSource
  BY <1>0, <1>17 DEF InSetSource, AtDevice
<1>18. CASE InSetRouting
  BY <1>0, <1>18 DEF InSetRouting, AtDevice, DoStandbyIn, Return
<1>19. ASSUME NEW md \in ClientModes, CallSetMode(md) PROVE InRule'
  BY <1>0, <1>19, AudioAssumption DEF Modes, CallSetMode, AtDevice, ModeLookOut, ModeLookIn,
  ModeHolds
<1>20. CASE ModeLockOut
  BY <1>0, <1>20 DEF ModeLockOut, Acquire
<1>21. CASE ModeRelockHw
  BY <1>0, <1>21 DEF ModeRelockHw, AtDevice, ModeLookOut, ModeLookIn, ModeHolds
<1>22. CASE ModeLockIn
  BY <1>0, <1>22 DEF ModeLockIn, Acquire
<1>23. CASE ModeRelockHwIn
  BY <1>0, <1>23 DEF ModeRelockHwIn, AtDevice, ModeLookIn, ModeHolds
<1>24. CASE ModeSet
  <2>1. pc["ctl"] = "mSet"
    BY <1>24 DEF ModeSet
  <2>2. \/ /\ lock' = lock
           /\ \E q \in {"mEnter", "mLeave", "mUnlock"} : pc' = [pc EXCEPT !["ctl"] = q]
        \/ /\ lock["in"] = "ctl"
           /\ \E a, q : DoStandbyIn("ctl", a, q) /\ q \in {"mEnter", "mLeave"}
    BY <1>24 DEF ModeSet, ForceStandby, InLocked
  <2>3. CASE lock' = lock /\ \E q \in {"mEnter", "mLeave", "mUnlock"} :
                                pc' = [pc EXCEPT !["ctl"] = q]
    BY <2>3
  <2>4. ASSUME NEW a, NEW q \in {"mEnter", "mLeave"}, DoStandbyIn("ctl", a, q),
               lock["in"] = "ctl"
        PROVE  InRule'
    <3>1. \A t \in Threads \ {"ctl"} : pc[t] \notin WithIn
      BY <2>4
    <3>2. QED
      BY <2>1, <2>4, <3>1 DEF DoStandbyIn
  <2>5. QED
    BY <2>2, <2>3, <2>4
<1>25. CASE ModeEnter
  BY <1>0, <1>25 DEF ModeEnter
<1>26. CASE ModeLeave
  BY <1>0, <1>26 DEF ModeLeave
<1>27. CASE ModeUnlock
  BY <1>0, <1>27 DEF ModeUnlock, Return
<1>28. CASE SetMicMute
  BY <1>0, <1>28 DEF SetMicMute, AtDevice, Start
<1>29. CASE SetNeedEcho
  BY <1>0, <1>29 DEF SetNeedEcho, Start
<1>30. CASE OpenOutputStream
  BY <1>0, <1>30 DEF OpenOutputStream, AtDevice
<1>31. CASE OpenInputStream
  BY <1>0, <1>31 DEF OpenInputStream, AtDevice
<1>32. CASE CloseOutputStream
  BY <1>0, <1>32 DEF CloseOutputStream, AtDevice, Start
<1>33. CASE DropOutput
  BY <1>0, <1>33 DEF DropOutput, Return, RefersToOut
<1>34. CASE CloseInputStream
  BY <1>0, <1>34 DEF CloseInputStream, AtDevice, Start, RefersToIn
<1>35. ASSUME NEW t \in Threads, OutStandbyLock(t) PROVE InRule'
  BY <1>0, <1>35 DEF OutStandbyLock, Acquire
<1>36. ASSUME NEW t \in Threads, OutStandby(t) PROVE InRule'
  BY <1>0, <1>36 DEF OutStandby, AtDevice, Return
<1>37. ASSUME NEW t \in Threads, InStandbyLock(t) PROVE InRule'
  BY <1>0, <1>37 DEF InStandbyLock, Acquire
<1>38. ASSUME NEW t \in Threads, InStandby(t) PROVE InRule'
  BY <1>0, <1>38 DEF InStandby, AtDevice, DoStandbyIn
<1>39. ASSUME NEW t \in Threads, InStandbyEnd(t) PROVE InRule'
  BY <1>0, <1>39 DEF InStandbyEnd, Return
<1>40. ASSUME NEW t \in Threads, StandbyLockOut(t) PROVE InRule'
  BY <1>0, <1>40 DEF StandbyLockOut, Acquire
<1>41. ASSUME NEW t \in Threads, StandbyLockIn(t) PROVE InRule'
  BY <1>0, <1>41 DEF StandbyLockIn, Acquire
<1>42. ASSUME NEW t \in Threads, StandbyRelockHw(t) PROVE InRule'
  BY <1>0, <1>42 DEF StandbyRelockHw, AtDevice
<1>43. CASE UNCHANGED vars
  BY <1>0, <1>43 DEF vars
<1>44. QED
  BY
    <1>1, <1>2, <1>3, <1>4, <1>5, <1>6, <1>7, <1>8, <1>9, <1>10, <1>11,
    <1>12, <1>13, <1>14, <1>15, <1>16, <1>17, <1>18, <1>19, <1>20, <1>21,
    <1>22, <1>23, <1>24, <1>25, <1>26, <1>27, <1>28, <1>29, <1>30, <1>31,
    <1>32, <1>33, <1>34, <1>35, <1>36, <1>37, <1>38, <1>39, <1>40, <1>41,
    <1>42, <1>43
  DEF Next, PlaySteps, RecSteps, CtlSteps, StandbySteps

\* A step of another thread that leaves the input alone or puts it in standby.
LEMMA OthersKeep ==
  ASSUME ControlOK, PathInv, NEW t \in {"play", "rec"}, NEW q,
         pc' = [pc EXCEPT ![t] = q], cont'["ctl"] = cont["ctl"],
         Aside(audio, audio') \/ Down(audio, audio'),
         q \in Rousing \cup {"iUnlock"} => audio'.in.standby,
         pc["ctl"] = "mSet" /\ lock["in"] = "ctl" => lock'["in"] = "ctl"
  PROVE  PathInv'
<1>1. /\ pc'["ctl"] = pc["ctl"] /\ pc'[t] = q
      /\ \A u \in Threads \ {t} : pc'[u] = pc[u]
  BY DEF ControlOK, Threads
<1>2. /\ CtlAt("mEnter")' = CtlAt("mEnter") /\ CtlAt("mLeave")' = CtlAt("mLeave")
  BY <1>1 DEF CtlAt
<1>3. audio.in.standby => audio'.in.standby
  BY DEF Aside, Down
<1>4. /\ pc'["rec"] \in Rousing => audio'.in.standby
      /\ \A u \in Threads : pc'[u] = "iUnlock" => audio'.in.standby
  BY <1>1, <1>3 DEF PathInv, Threads
<1>5. ActiveIn(audio') => ActiveIn(audio)
  BY DEF Aside, Down, Steady, ActiveIn
<1>6. MicRight(audio) => MicRight(audio')
  BY DEF Aside, Down, Steady, ActiveIn, MicRight
<1>7. audio'.in.standby => ~audio'.in.pcm /\ ~audio'.in.mixer
  BY DEF Aside, Down, PathInv
<1>8. QED
  BY <1>1, <1>2, <1>4, <1>5, <1>6, <1>7 DEF PathInv, Aside, Down, Steady

\* A step of setMode(), or of another call of the control thread.
LEMMA CtlPathKeeps ==
  ASSUME ControlOK, PathInv, NEW q, pc' = [pc EXCEPT !["ctl"] = q],
         Aside(audio, audio') \/ Down(audio, audio'),
         q = "iUnlock" => audio'.in.standby,
         q = "mSet" => lock'["in"] = "ctl" \/ ~ActiveIn(audio'),
         q \in {"mEnter", "mLeave"} => ~ActiveIn(audio'),
         pc["ctl"] \in Settling /\ q \notin Settling => ~ActiveIn(audio'),
         CtlAt("mEnter")' = CtlAt("mEnter"), CtlAt("mLeave")' = CtlAt("mLeave")
  PROVE  PathInv'
<1>1. pc'["ctl"] = q /\ \A u \in Threads \ {"ctl"} : pc'[u] = pc[u]
  BY DEF ControlOK, Threads
<1>2. audio.in.standby => audio'.in.standby
  BY DEF Aside, Down
<1>3. /\ pc'["rec"] \in Rousing => audio'.in.standby
      /\ \A u \in Threads : pc'[u] = "iUnlock" => audio'.in.standby
  BY <1>1, <1>2 DEF PathInv, Threads
<1>4. MicRight(audio) => MicRight(audio')
  BY DEF Aside, Down, Steady, ActiveIn, MicRight
<1>5. ~audio'.hw.inCall /\ q \notin Settling => MicRight(audio')
  <2>1. CASE pc["ctl"] \in Settling
    BY <2>1 DEF MicRight
  <2>2. CASE pc["ctl"] \notin Settling
    BY <1>4, <2>2 DEF PathInv, Aside, Down, Steady
  <2>3. QED
    BY <2>1, <2>2
<1>6. audio'.in.standby => ~audio'.in.pcm /\ ~audio'.in.mixer
  BY DEF Aside, Down, PathInv
<1>7. QED
  BY <1>1, <1>3, <1>5, <1>6 DEF PathInv, Aside, Down, Steady

\* The input was opened, with the path of the mute flag if it has the mixer.
LEMMA OpenedKeeps ==
  ASSUME ControlOK, ReleaseRule, PathInv, lock["hw"] = "free",
         NEW t \in {"play", "rec"}, NEW q, q \notin Rousing \cup {"iUnlock"},
         pc' = [pc EXCEPT ![t] = q], cont'["ctl"] = cont["ctl"],
         Steady(audio, audio'),
         audio'.in.standby => ~audio'.in.pcm /\ ~audio'.in.mixer,
         audio.in.standby => audio'.in.standby \/ t = "rec",
         audio'.in.mixer /\ audio.hw.mode # "IN_CALL"
           => audio'.chip.mic = ~audio.hw.mute
  PROVE  PathInv'
<1>1. /\ pc'["ctl"] = pc["ctl"] /\ pc'[t] = q
      /\ \A u \in Threads \ {t} : pc'[u] = pc[u]
  BY DEF ControlOK, Threads
<1>2. /\ CtlAt("mEnter")' = CtlAt("mEnter") /\ CtlAt("mLeave")' = CtlAt("mLeave")
  BY <1>1 DEF CtlAt
<1>3. /\ pc["ctl"] \notin {"mSet", "mEnter", "mLeave"}
      /\ \A u \in Threads : pc[u] # "iUnlock"
  BY DEF ReleaseRule, WithHw, Threads
<1>4. /\ pc'["rec"] \in Rousing => audio'.in.standby
      /\ \A u \in Threads : pc'[u] # "iUnlock"
  BY <1>1, <1>3 DEF PathInv, Threads
<1>5. ~audio'.hw.inCall /\ pc'["ctl"] \notin Settling => MicRight(audio')
  <2>1. pc["ctl"] \notin Settling /\ audio.hw.mode = "IN_CALL" => audio.hw.inCall
    BY <1>3 DEF PathInv, CtlAt, Settling
  <2>2. QED
    BY <1>1, <2>1 DEF MicRight, Steady
<1>6. QED
  BY <1>1, <1>2, <1>3, <1>4, <1>5 DEF PathInv, Steady

\* write() at the end of its way out of standby, ...
LEMMA WriteOpenedAside ==
  ASSUME ControlOK, NEW a \in Audio, WriteOpened(a)
  PROVE  /\ Aside(a, audio') /\ cont' = cont
         /\ pc' = [pc EXCEPT !["play"] = "wWrite"] \/ pc' = [pc EXCEPT !["play"] = "oLock"]
         /\ lock["in"] = "ctl" => lock'["in"] = "ctl"
<1>1. audio' = [a EXCEPT !.out.standby = FALSE] \/ audio' = [a EXCEPT !.chip.wake = FALSE]
  BY DEF WriteOpened
<1>2. Aside(a, [a EXCEPT !.out.standby = FALSE])
  BY DEF Aside, Steady, Audio, Out
<1>3. Aside(a, [a EXCEPT !.chip.wake = FALSE])
  BY DEF Aside, Steady, Audio, Chip
<1>4. QED
  BY <1>1, <1>2, <1>3 DEF WriteOpened, Goto, ControlOK, Locks

\* ... and looking for an active input.
LEMMA WriteLookInPath ==
  ASSUME ControlOK, PathInv, NEW a \in Audio, Aside(audio, a), WriteLookIn(a)
  PROVE  PathInv'
<1>1. CASE ActiveIn(a)
  <2>1. Aside(a, audio')
    BY <1>1 DEF WriteLookIn, Aside, Steady, Audio, In, Threads
  <2>2. /\ pc' = [pc EXCEPT !["play"] = "wLockIn"] /\ cont' = cont
        /\ lock["in"] = "ctl" => lock'["in"] = "ctl"
    BY <1>1 DEF WriteLookIn, Goto, ControlOK, Locks
  <2>3. QED
    BY <2>1, <2>2, AsideTrans, OthersKeep DEF Rousing
<1>2. CASE ~ActiveIn(a)
  <2>1. PICK b \in OpenOut(a) : WriteOpened(b)
    BY <1>2 DEF WriteLookIn
  <2>2. ~Captures(a)
    BY <1>2 DEF Captures, ActiveIn, PathInv, Aside
  <2>3. b \in Audio /\ Aside(a, b)
    BY <2>1, <2>2, OpenOutAside DEF Aside, Steady
  <2>4. Aside(audio, audio')
    BY <2>1, <2>3, WriteOpenedAside, AsideTrans
  <2>5. QED
    BY <2>1, <2>3, <2>4, WriteOpenedAside, OthersKeep DEF Rousing
<1>3. QED
  BY <1>1, <1>2

\* read(), opening the input.
LEMMA ReadOpenPath ==
  ASSUME ControlOK, ReleaseRule, PathInv, lock["hw"] = "free",
         audio.in.standby, NEW a \in Audio, Aside(audio, a), ReadOpen(a)
  PROVE  PathInv'
<1>1. PICK b \in OpenIn(a) :
        /\ audio' = IF b.in.pcm THEN [b EXCEPT !.in.standby = FALSE] ELSE b
        /\ Goto("rec", IF b.in.pcm THEN "rRead" ELSE "iLock") /\ cont' = cont
  BY DEF ReadOpen
<1>2. /\ b \in Audio /\ Steady(a, b) /\ b.in.standby = a.in.standby
      /\ b.in.pcm \/ b = a
      /\ b = a \/ (b.in.mixer /\ a.hw.mode # "IN_CALL" => b.chip.mic = ~a.hw.mute)
  BY <1>1, OpenInPath DEF Steady
<1>3. PICK q \in {"rRead", "iLock"} : pc' = [pc EXCEPT !["rec"] = q]
  BY <1>1 DEF Goto
<1>4. ~a.in.pcm /\ ~a.in.mixer
  BY DEF PathInv, Aside
<1>5. CASE b.in.pcm
  <2>1. /\ audio' \in Audio /\ audio'.hw = b.hw /\ audio'.chip = b.chip
        /\ audio'.in.state = b.in.state /\ ~audio'.in.standby
        /\ audio'.in.mixer = b.in.mixer
    BY <1>1, <1>2, <1>5 DEF Audio, In
  <2>2. Steady(audio, audio')
    BY <1>2, <2>1 DEF Aside, Steady
  <2>3. audio'.in.mixer /\ audio.hw.mode # "IN_CALL" => audio'.chip.mic = ~audio.hw.mute
    BY <1>2, <1>4, <1>5, <2>1 DEF Aside, Steady
  <2>4. QED
    BY <1>1, <1>3, <2>1, <2>2, <2>3, OpenedKeeps DEF Rousing
<1>6. CASE ~b.in.pcm
  <2>1. audio' = a
    BY <1>1, <1>2, <1>6
  <2>2. pc["ctl"] # "mSet"
    BY DEF ReleaseRule, WithHw, Threads
  <2>3. QED
    BY <1>1, <1>3, <2>1, <2>2, OthersKeep DEF Rousing
<1>7. QED
  BY <1>5, <1>6

\* The steps of the write thread.
LEMMA PlayPathStep ==
  ASSUME EchoInv, PathInv, PlaySteps
  PROVE  PathInv'
<1>0. /\ ControlOK /\ ReleaseRule /\ audio \in Audio /\ Aside(audio, audio)
  BY DEF EchoInv, ReleaseInv, Aside, Steady
<1>1. CASE \/ CallWrite \/ WriteLockIn \/ WriteData \/ CallOutStandby
           \/ CallOutSetParameters
  <2>1. /\ audio' = audio /\ cont' = cont
        /\ \E q \in {"wLockHw", "wWrite", "wRelockHw", "idle", "oLock", "oLockHw",
                     "pLockHw"} : pc' = [pc EXCEPT !["play"] = q]
        /\ \E l \in Locks : \E u : lock' = [lock EXCEPT ![l] = u] /\ (l = "in" => lock[l] = "free")
    BY <1>1 DEF CallWrite, WriteLockIn, WriteData, CallOutStandby, CallOutSetParameters,
    StartLocked, Start, Acquire, Goto, Return, Locks
  <2>2. lock["in"] = "ctl" => lock'["in"] = "ctl"
    BY <1>0, <2>1 DEF ControlOK, Locks
  <2>3. QED
    BY <1>0, <2>1, <2>2, OthersKeep DEF Rousing
<1>2. CASE WriteWake
  <2>1. PICK a : a = [audio EXCEPT !.chip.wake = TRUE]
    OBVIOUS
  <2>2. a \in Audio /\ Aside(audio, a)
    BY <1>0, <2>1 DEF Aside, Steady, Audio, Chip
  <2>3. WriteLookIn(a)
    BY <1>2, <2>1 DEF WriteWake
  <2>4. QED
    BY <1>0, <2>2, <2>3, WriteLookInPath
<1>3. CASE WriteRelockHw
  <2>1. lock["hw"] = "free" /\ pc["ctl"] # "mSet"
    BY <1>0, <1>3 DEF WriteRelockHw, AtDevice, ReleaseRule, WithHw, Threads
  <2>2. CASE WriteLookIn(audio)
    BY <1>0, <2>2, WriteLookInPath
  <2>3. CASE audio' = audio /\ Goto("play", "iLock") /\ cont' = cont
    BY <1>0, <2>1, <2>3, OthersKeep DEF Goto, Rousing
  <2>4. ASSUME NEW b \in ReopenBoth(audio), ActiveIn(audio),
               \/ b.in.pcm /\ WriteOpened(b)
               \/ DoStandbyIn("play", b, "wWrite")
               \/ WriteOpened(StandbyIn([b EXCEPT !.in.fresh = {}]))
        PROVE  PathInv'
    <3>1. /\ b \in Audio /\ Steady(audio, b) /\ ~b.in.standby
          /\ b.in.mixer /\ audio.hw.mode # "IN_CALL" => b.chip.mic = ~audio.hw.mute
      BY <1>0, <2>4, ReopenBothPath DEF Steady, ActiveIn
    <3>2. ASSUME Aside(b, audio'), NEW q \in {"wWrite", "oLock", "sLockOut"},
                 pc' = [pc EXCEPT !["play"] = q], cont'["ctl"] = cont["ctl"]
          PROVE  PathInv'
      <4>1. Steady(audio, audio') /\ ~audio'.in.standby
        BY <3>1, <3>2 DEF Aside, Steady
      <4>2. audio'.in.mixer /\ audio.hw.mode # "IN_CALL" => audio'.chip.mic = ~audio.hw.mute
        BY <3>1, <3>2 DEF Aside
      <4>3. ~audio.in.standby
        BY <2>4 DEF ActiveIn, Audio, In
      <4>4. QED
        BY <1>0, <2>1, <3>2, <4>1, <4>2, <4>3, OpenedKeeps DEF Rousing
    <3>3. CASE WriteOpened(b)
      BY <1>0, <3>1, <3>2, <3>3, WriteOpenedAside
    <3>4. CASE DoStandbyIn("play", b, "wWrite")
      <4>1. CASE /\ Aside(b, audio')
                 /\ Goto("play", "sLockOut") /\ cont' = [cont EXCEPT !["play"] = "wWrite"]
        <5>1. cont'["ctl"] = cont["ctl"]
          BY <1>0, <4>1 DEF ControlOK, Threads
        <5>2. QED
          BY <3>2, <4>1, <5>1 DEF Goto
      <4>2. CASE Down(b, audio') /\ Goto("play", "wWrite") /\ cont' = cont
        <5>1. Down(audio, audio')
          BY <3>1, <4>2 DEF Down, Steady
        <5>2. QED
          BY <1>0, <2>1, <4>2, <5>1, OthersKeep DEF Goto, Rousing
      <4>3. QED
        BY <3>1, <3>4, <4>1, <4>2, DoStandbyInPath
    <3>5. CASE WriteOpened(StandbyIn([b EXCEPT !.in.fresh = {}]))
      <4>1. PICK c : c = [b EXCEPT !.in.fresh = {}]
        OBVIOUS
      <4>2. c \in Audio /\ Steady(audio, c)
        BY <3>1, <4>1 DEF Steady, Audio, In
      <4>3. PICK d : d = StandbyIn(c)
        OBVIOUS
      <4>4. d \in Audio /\ Down(audio, d)
        BY <4>2, <4>3, StandbyInDown DEF Down, Steady
      <4>5. WriteOpened(d)
        BY <3>5, <4>1, <4>3
      <4>6. Down(audio, audio')
        BY <1>0, <4>4, <4>5, WriteOpenedAside DEF Down, Aside, Steady
      <4>7. QED
        BY <1>0, <2>1, <4>4, <4>5, <4>6, WriteOpenedAside, OthersKeep DEF Rousing
    <3>6. QED
      BY <2>4, <3>3, <3>4, <3>5
  <2>5. QED
    BY <1>3, <2>2, <2>3, <2>4 DEF WriteRelockHw
<1>4. CASE OutSetParameters
  <2>1. PICK d \in Devices : \E a : a = [audio EXCEPT !.out.device = d]
                                    /\ (audio' = a \/ audio' = StandbyOut(a))
    BY <1>4 DEF OutSetParameters
  <2>2. PICK a : a = [audio EXCEPT !.out.device = d]
                 /\ (audio' = a \/ audio' = StandbyOut(a))
    BY <2>1
  <2>3. a \in Audio /\ Aside(audio, a)
    BY <1>0, <2>2 DEF Aside, Steady, Audio, Out
  <2>4. Aside(audio, audio')
    BY <2>2, <2>3, StandbyOutAside, AsideTrans
  <2>5. /\ pc' = [pc EXCEPT !["play"] = "idle"] /\ cont' = cont
        /\ lock["in"] = "ctl" => lock'["in"] = "ctl"
    BY <1>0, <1>4 DEF OutSetParameters, Return, ControlOK, Locks
  <2>6. QED
    BY <1>0, <2>4, <2>5, OthersKeep DEF Rousing
<1>5. QED
  BY <1>1, <1>2, <1>3, <1>4 DEF PlaySteps

\* The steps of the read thread.
LEMMA RecPathStep ==
  ASSUME EchoInv, InRule, PathInv, RecSteps
  PROVE  PathInv'
<1>0. /\ ControlOK /\ ReleaseRule /\ audio \in Audio /\ Aside(audio, audio)
  BY DEF EchoInv, ReleaseInv, Aside, Steady
<1>1. CASE CallRead \/ CallInStandby \/ CallInSetParameters
  <2>1. /\ audio' = audio /\ cont' = cont
        /\ \E q : /\ pc' = [pc EXCEPT !["rec"] = q]
                  /\ q \in {"rRead", "iLockHw", "qLockHw"}
                       \/ (q = "rLockHw" /\ audio.in.standby)
        /\ lock["in"] = "free"
    BY <1>1 DEF CallRead, CallInStandby, CallInSetParameters, StartLocked, Start, Goto
  <2>2. QED
    BY <1>0, <2>1, OthersKeep DEF Rousing
<1>2. CASE ReadWake
  <2>1. lock["hw"] = "free" /\ audio.in.standby /\ pc["ctl"] # "mSet"
    BY <1>0, <1>2 DEF ReadWake, AtDevice, ReleaseRule, WithHw, Threads, PathInv, Rousing
  <2>2. CASE ReadOpen(audio)
    BY <1>0, <2>1, <2>2, ReadOpenPath
  <2>3. CASE ~ReadOpen(audio)
    <3>1. audio' = audio /\ cont' = cont /\ pc' = [pc EXCEPT !["rec"] = "rLockOut"]
      BY <1>2, <2>3 DEF ReadWake, Goto
    <3>2. QED
      BY <1>0, <2>1, <3>1, OthersKeep
  <2>4. QED
    BY <2>2, <2>3
<1>3. CASE ReadLockOut \/ ReadRelockIn
  <2>1. /\ audio' = audio /\ cont' = cont
        /\ \E q : pc' = [pc EXCEPT !["rec"] = q]
        /\ \E l \in Locks : lock[l] = "free" /\ lock' = [lock EXCEPT ![l] = "rec"]
        /\ pc["rec"] \in Rousing
    BY <1>3 DEF ReadLockOut, ReadRelockIn, Acquire, Goto, Rousing, Locks
  <2>2. audio.in.standby
    BY <2>1 DEF PathInv
  <2>3. lock["in"] = "ctl" => lock'["in"] = "ctl"
    BY <1>0, <2>1 DEF ControlOK, Locks
  <2>4. QED
    BY <1>0, <2>1, <2>2, <2>3, OthersKeep
<1>4. CASE ReadRelockHw
  <2>1. /\ lock["hw"] = "free" /\ pc["ctl"] # "mSet"
        /\ audio.in.standby /\ ~Captures(audio)
    BY <1>0, <1>4 DEF ReadRelockHw, AtDevice, ReleaseRule, WithHw, Threads, PathInv, Rousing, Captures
  <2>2. CASE ReadOpen(audio)
    BY <1>0, <2>1, <2>2, ReadOpenPath
  <2>3. CASE audio' = audio /\ cont' = cont /\ Goto("rec", "oLock")
    BY <1>0, <2>1, <2>3, OthersKeep DEF Goto, Rousing
  <2>4. ASSUME NEW b \in RestartOut(audio), NEW g \in WithEcho(b), ReadOpen(g)
        PROVE  PathInv'
    <3>1. b \in Audio /\ Aside(audio, b)
      BY <1>0, <2>1, RestartOutAside DEF Aside, Steady
    <3>2. g = b \/ g \in GetEcho(b)
      BY <2>4 DEF WithEcho
    <3>3. g \in Audio /\ Aside(audio, g)
      BY <3>1, <3>2, EchoAside, AsideTrans DEF Aside, Steady
    <3>4. QED
      BY <1>0, <2>1, <2>4, <3>3, ReadOpenPath
  <2>5. QED
    BY <1>4, <2>2, <2>3, <2>4 DEF ReadRelockHw
<1>5. CASE ReadData
  <2>1. /\ audio' = audio /\ cont' = cont
        /\ \E q \in {"idle", "iLock"} : pc' = [pc EXCEPT !["rec"] = q]
        /\ pc["rec"] = "rRead"
    BY <1>5 DEF ReadData, Goto, Return
  <2>2. lock["in"] # "ctl"
    BY <2>1 DEF InRule, WithIn, Threads
  <2>3. QED
    BY <1>0, <2>1, <2>2, OthersKeep DEF Rousing
<1>6. CASE InSetSource
  <2>1. PICK a \in OpenMixer(audio, DriverFaults) : audio' = CloseMixer(a)
    BY <1>6 DEF InSetSource
  <2>2. a \in Audio /\ Aside(audio, a)
    BY <1>0, <2>1, AudioAssumption, OpenMixerAside DEF Aside, Steady
  <2>3. Aside(audio, audio')
    BY <2>1, <2>2, CloseAside, AsideTrans
  <2>4. pc' = [pc EXCEPT !["rec"] = "qRouteHw"] /\ cont' = cont /\ lock' = lock
    BY <1>6 DEF InSetSource, Goto
  <2>5. QED
    BY <1>0, <2>3, <2>4, OthersKeep DEF Rousing
<1>7. CASE InSetRouting
  <2>1. pc["ctl"] # "mSet"
    BY <1>0, <1>7 DEF InSetRouting, AtDevice, ReleaseRule, WithHw, Threads
  <2>2. CASE DoStandbyIn("rec", audio, "iUnlock")
    <3>1. cont'["ctl"] = cont["ctl"]
      BY <1>0, <2>2 DEF DoStandbyIn, ControlOK, Threads
    <3>2. \/ Aside(audio, audio') /\ pc' = [pc EXCEPT !["rec"] = "sLockOut"]
          \/ Down(audio, audio') /\ pc' = [pc EXCEPT !["rec"] = "iUnlock"]
      BY <1>0, <2>2, DoStandbyInPath DEF Goto
    <3>3. CASE Aside(audio, audio') /\ pc' = [pc EXCEPT !["rec"] = "sLockOut"]
      BY <1>0, <2>1, <3>1, <3>3, OthersKeep DEF Rousing
    <3>4. CASE Down(audio, audio') /\ pc' = [pc EXCEPT !["rec"] = "iUnlock"]
      BY <1>0, <2>1, <3>1, <3>4, OthersKeep DEF Down
    <3>5. QED
      BY <3>2, <3>3, <3>4
  <2>3. CASE audio' = audio /\ cont' = cont /\ pc' = [pc EXCEPT !["rec"] = "idle"]
    BY <1>0, <2>1, <2>3, OthersKeep DEF Rousing
  <2>4. QED
    BY <1>7, <2>2, <2>3 DEF InSetRouting, Return
<1>8. QED
  BY <1>1, <1>2, <1>3, <1>4, <1>5, <1>6, <1>7 DEF RecSteps

\* setMode() looks for active streams.
LEMMA ModeLookPath ==
  ASSUME ControlOK, PathInv, pc["ctl"] \in {"idle", "mRelockHw", "mRelockHwIn"},
         audio \in Audio, ModeLookOut \/ \E S : ModeLookIn(S)
  PROVE  PathInv'
<1>0. Aside(audio, audio) /\ pc["ctl"] \notin Settling /\ pc["ctl"] \notin Releasing
  BY DEF Aside, Steady, Settling, Releasing
<1>1. Aside(audio, [audio EXCEPT !.in.fresh = @ \cup {"ctl"}])
  BY DEF Aside, Steady, Audio, In, Threads
<1>2. Aside(audio, [audio EXCEPT !.out.fresh = @ \cup {"ctl"}])
  BY DEF Aside, Steady, Audio, Out, Threads
<1>3. PICK q \in {"mLockOut", "mLockIn", "mSet"} :
        /\ pc' = [pc EXCEPT !["ctl"] = q]
        /\ Aside(audio, audio')
        /\ q = "mSet" => ~ActiveIn(audio')
  <2>1. ASSUME NEW S, ModeLookIn(S), ActiveIn(audio)
        PROVE  Aside(audio, audio') /\ pc' = [pc EXCEPT !["ctl"] = "mLockIn"]
    BY <1>1, <2>1 DEF ModeLookIn, Goto
  <2>2. ASSUME NEW S, ModeLookIn(S), ~ActiveIn(audio)
        PROVE  audio' = audio /\ pc' = [pc EXCEPT !["ctl"] = "mSet"]
    BY <2>2 DEF ModeLookIn, Goto
  <2>3. ASSUME ModeLookOut, ActiveOut(audio)
        PROVE  Aside(audio, audio') /\ pc' = [pc EXCEPT !["ctl"] = "mLockOut"]
    BY <1>2, <2>3 DEF ModeLookOut, Goto
  <2>4. ModeLookOut /\ ~ActiveOut(audio) => ModeLookIn({})
    BY DEF ModeLookOut
  <2>5. QED
    BY <1>0, <2>1, <2>2, <2>3, <2>4
<1>4. CtlAt("mEnter")' = CtlAt("mEnter") /\ CtlAt("mLeave")' = CtlAt("mLeave")
  BY <1>0, <1>3 DEF CtlAt, ControlOK, Threads, Releasing
<1>5. QED
  BY <1>0, <1>3, <1>4, CtlPathKeeps

\* ForceStandby() of setMode(), in state a: the input ends inactive, or the control
\* thread is about to put it in standby.
LEMMA ForceStandbyPath ==
  ASSUME NEW a \in Audio, NEW q, ForceStandby(a, q), InLocked \/ ~ActiveIn(a)
  PROVE  \/ /\ Aside(a, audio')
            /\ pc' = [pc EXCEPT !["ctl"] = "sLockOut"]
            /\ cont' = [cont EXCEPT !["ctl"] = q]
         \/ /\ Aside(a, audio') \/ Down(a, audio')
            /\ ~ActiveIn(audio')
            /\ pc' = [pc EXCEPT !["ctl"] = q] /\ cont' = cont
<1>1. PICK b : b = IF OutLocked THEN StandbyOut(a) ELSE a
  OBVIOUS
<1>2. b \in Audio /\ Aside(a, b)
  BY <1>1, StandbyOutAside DEF Aside, Steady
<1>3. CASE InLocked
  <2>1. DoStandbyIn("ctl", b, q)
    BY <1>1, <1>3 DEF ForceStandby
  <2>2. CASE Aside(b, audio') /\ Goto("ctl", "sLockOut") /\ cont' = [cont EXCEPT !["ctl"] = q]
    BY <1>2, <2>2, AsideTrans DEF Goto
  <2>3. CASE Down(b, audio') /\ Goto("ctl", q) /\ cont' = cont
    BY <1>2, <2>3 DEF Down, Aside, Steady, Goto, ActiveIn
  <2>4. QED
    BY <1>2, <2>1, <2>2, <2>3, DoStandbyInPath
<1>4. CASE ~InLocked
  <2>1. audio' = b /\ pc' = [pc EXCEPT !["ctl"] = q] /\ cont' = cont
    BY <1>1, <1>4 DEF ForceStandby, Goto
  <2>2. ~ActiveIn(b)
    BY <1>2, <1>4 DEF ActiveIn, Aside, Steady
  <2>3. QED
    BY <1>2, <2>1, <2>2
<1>5. QED
  BY <1>3, <1>4

\* setMode() with its mutexes.
LEMMA ModeSetPath ==
  ASSUME EchoInv, PathInv, ModeSet
  PROVE  PathInv'
<1>0. ControlOK /\ ReleaseRule /\ audio \in Audio
  BY DEF EchoInv, ReleaseInv
<1>1. pc["ctl"] = "mSet" /\ (InLocked \/ ~ActiveIn(audio)) /\ call["ctl"] \in Modes
  BY <1>0 DEF ModeSet, PathInv, InLocked, ReleaseRule, ModePCs
<1>2. PICK a : a = [audio EXCEPT !.hw.mode = call["ctl"]]
  OBVIOUS
<1>3. /\ a \in Audio /\ a.in = audio.in /\ a.chip = audio.chip
      /\ a.hw.mode = call["ctl"] /\ a.hw.inCall = audio.hw.inCall
      /\ a.hw.mute = audio.hw.mute /\ a.hw.late = audio.hw.late
  BY <1>0, <1>1, <1>2 DEF Audio, Hw
<1>4. InLocked \/ ~ActiveIn(a)
  BY <1>1, <1>3 DEF ActiveIn
<1>5. ~CtlAt("mEnter") /\ ~CtlAt("mLeave") /\ pc["ctl"] \notin Settling
  BY <1>1 DEF CtlAt, Releasing, Settling
<1>6. /\ \A u \in Threads \ {"ctl"} : pc'[u] = pc[u]
      /\ \A q : pc' = [pc EXCEPT !["ctl"] = q] => pc'["ctl"] = q
      /\ \A q : cont' = [cont EXCEPT !["ctl"] = q] => cont'["ctl"] = q
  BY <1>0 DEF ModeSet, ForceStandby, DoStandbyIn, Goto, ControlOK, Threads
\* The streams are put in standby, for a call that begins or ends.
<1>7. ASSUME NEW d \in Audio, Aside(a, d), NEW q \in {"mEnter", "mLeave"}, ForceStandby(d, q),
             q = "mEnter" => a.hw.mode = "IN_CALL" /\ ~a.hw.inCall,
             q = "mLeave" => a.hw.mode = "NORMAL" /\ a.hw.inCall
      PROVE  PathInv'
  <2>1. InLocked \/ ~ActiveIn(d)
    BY <1>4, <1>7 DEF Aside, Steady, ActiveIn
  <2>2. /\ Aside(a, audio') \/ Down(a, audio')
        /\ \/ pc'["ctl"] = "sLockOut" /\ cont'["ctl"] = q
           \/ pc'["ctl"] = q /\ ~ActiveIn(audio')
    <3>1. CASE /\ Aside(d, audio')
               /\ pc' = [pc EXCEPT !["ctl"] = "sLockOut"]
               /\ cont' = [cont EXCEPT !["ctl"] = q]
      BY <1>6, <1>7, <3>1, AsideTrans
    <3>2. CASE /\ Aside(d, audio') \/ Down(d, audio')
               /\ ~ActiveIn(audio')
               /\ pc' = [pc EXCEPT !["ctl"] = q] /\ cont' = cont
      <4>1. Aside(d, audio') => Aside(a, audio')
        BY <1>7, AsideTrans
      <4>2. Down(d, audio') => Down(a, audio')
        BY <1>7 DEF Aside, Down, Steady
      <4>3. QED
        BY <1>6, <3>2, <4>1, <4>2
    <3>3. QED
      BY <1>7, <2>1, <3>1, <3>2, ForceStandbyPath
  <2>3. /\ audio.in.standby => audio'.in.standby
        /\ audio'.in.standby => ~audio'.in.pcm /\ ~audio'.in.mixer
        /\ audio'.hw.mode = a.hw.mode /\ audio'.hw.inCall = a.hw.inCall
        /\ ~audio'.hw.late
    BY <1>3, <2>2 DEF Aside, Down, Steady, PathInv
  <2>4. /\ pc'["rec"] \in Rousing => audio'.in.standby
        /\ \A u \in Threads : pc'[u] = "iUnlock" => audio'.in.standby
    BY <1>6, <2>2, <2>3 DEF PathInv, Threads
  <2>5. CtlAt(q)' /\ \A p \in {"mEnter", "mLeave"} \ {q} : ~(CtlAt(p)')
    BY <2>2 DEF CtlAt, Releasing
  <2>6. /\ pc'["ctl"] \in {"mEnter", "mLeave"} => ~ActiveIn(audio')
        /\ pc'["ctl"] \notin Settling => MicRight(audio')
        /\ pc'["ctl"] # "mSet"
    BY <2>2 DEF Settling, Releasing, MicRight
  <2>7. CASE q = "mEnter"
    BY <1>7, <2>3, <2>4, <2>5, <2>6, <2>7 DEF PathInv
  <2>8. CASE q = "mLeave"
    BY <1>7, <2>3, <2>4, <2>5, <2>6, <2>8 DEF PathInv
  <2>9. QED
    BY <2>7, <2>8
<1>8. CASE a.hw.mode # audio.hw.mode /\ a.hw.mode = "IN_CALL" /\ ~a.hw.inCall
  <2>1. ForceStandby(a, "mEnter")
    BY <1>2, <1>8 DEF ModeSet
  <2>2. Aside(a, a)
    BY <1>3 DEF Aside, Steady
  <2>3. QED
    BY <1>3, <1>7, <1>8, <2>1, <2>2
<1>9. CASE a.hw.mode # audio.hw.mode /\ a.hw.mode = "NORMAL" /\ a.hw.inCall
  <2>1. ForceStandby(HangUp(a), "mLeave")
    BY <1>2, <1>9 DEF ModeSet
  <2>2. Aside(a, HangUp(a)) /\ HangUp(a) \in Audio
    BY <1>3, HangUpAside DEF Aside, Steady
  <2>3. QED
    BY <1>7, <1>9, <2>1, <2>2
<1>10. CASE /\ ~(a.hw.mode # audio.hw.mode /\ a.hw.mode = "IN_CALL" /\ ~a.hw.inCall)
            /\ ~(a.hw.mode # audio.hw.mode /\ a.hw.mode = "NORMAL" /\ a.hw.inCall)
  <2>1. audio' = a /\ pc' = [pc EXCEPT !["ctl"] = "mUnlock"] /\ cont' = cont
    BY <1>2, <1>10 DEF ModeSet, Goto
  <2>2. pc'["ctl"] = "mUnlock" /\ ~(CtlAt("mEnter")') /\ ~(CtlAt("mLeave")')
    BY <1>6, <2>1 DEF CtlAt, Releasing
  <2>3. a.hw.mode = "IN_CALL" => a.hw.inCall
    BY <1>3, <1>5, <1>10 DEF PathInv
  <2>4. ~a.hw.inCall => MicRight(a)
    BY <1>3, <1>5 DEF PathInv, MicRight, ActiveIn
  <2>5. /\ pc'["rec"] \in Rousing => audio'.in.standby
        /\ \A u \in Threads : pc'[u] = "iUnlock" => audio'.in.standby
    BY <1>3, <1>6, <2>1, <2>2 DEF PathInv, Threads
  <2>6. QED
    BY <1>3, <2>1, <2>2, <2>3, <2>4, <2>5 DEF PathInv
<1>11. QED
  BY <1>8, <1>9, <1>10

\* The steps of whoever controls the device.
LEMMA CtlPathStep ==
  ASSUME EchoInv, InRule, PathInv, CtlSteps
  PROVE  PathInv'
<1>0. /\ ControlOK /\ ReleaseRule /\ audio \in Audio /\ Aside(audio, audio)
  BY DEF EchoInv, ReleaseInv, Aside, Steady
<1>1. CASE \/ \E m \in ClientModes : CallSetMode(m)
           \/ ModeRelockHw
           \/ ModeRelockHwIn /\ \E S : ModeLookIn(S)
  <2>1. /\ pc["ctl"] \in {"idle", "mRelockHw", "mRelockHwIn"}
        /\ ModeLookOut \/ \E S : ModeLookIn(S)
    BY <1>1 DEF CallSetMode, ModeRelockHw, ModeRelockHwIn, AtDevice
  <2>2. QED
    BY <1>0, <2>1, ModeLookPath
<1>2. CASE ModeRelockHwIn /\ ~\E S : ModeLookIn(S)
  <2>1. /\ audio' = audio /\ pc' = [pc EXCEPT !["ctl"] = "mSet"] /\ cont' = cont
        /\ lock' = [lock EXCEPT !["hw"] = "ctl"] /\ pc["ctl"] = "mRelockHwIn"
    BY <1>2 DEF ModeRelockHwIn, AtDevice, Goto
  <2>2. lock["in"] = "ctl" /\ lock'["in"] = "ctl"
    BY <1>0, <2>1 DEF InRule, WithIn, Threads, ControlOK, Locks
  <2>3. /\ CtlAt("mEnter")' = CtlAt("mEnter") /\ CtlAt("mLeave")' = CtlAt("mLeave")
    BY <1>0, <2>1 DEF CtlAt, ControlOK, Threads, Releasing
  <2>4. QED
    BY <1>0, <2>1, <2>2, <2>3, CtlPathKeeps DEF Settling, Releasing
<1>3. CASE ModeLockOut \/ ModeLockIn \/ ModeUnlock \/ SetNeedEcho \/ CloseOutputStream \/ DropOutput
  <2>1. Aside(audio, audio')
    <3>1. CASE SetNeedEcho
      BY <1>0, <3>1 DEF SetNeedEcho, Aside, Steady, Audio, In
    <3>2. CASE CloseOutputStream
      BY <1>0, <3>2 DEF CloseOutputStream, Aside, Steady, Audio, Out, StreamStates
    <3>3. CASE ~SetNeedEcho /\ ~CloseOutputStream
      BY <1>0, <1>3, <3>3 DEF ModeLockOut, ModeLockIn, ModeUnlock, DropOutput, Acquire
    <3>4. QED
      BY <3>1, <3>2, <3>3
  <2>2. /\ pc["ctl"] \in {"mLockOut", "mLockIn", "mUnlock", "idle", "cDrop"}
        /\ cont' = cont
        /\ \E q \in {"mRelockHw", "mRelockHwIn", "idle", "iLock", "cDrop", "oLock"} :
             pc' = [pc EXCEPT !["ctl"] = q]
    BY <1>3 DEF ModeLockOut, ModeLockIn, ModeUnlock, SetNeedEcho, CloseOutputStream,
    DropOutput, Acquire, AtDevice, Start, Return, Goto
  <2>3. /\ CtlAt("mEnter")' = CtlAt("mEnter") /\ CtlAt("mLeave")' = CtlAt("mLeave")
    BY <1>0, <2>2 DEF CtlAt, ControlOK, Threads, Releasing
  <2>4. QED
    BY <1>0, <2>1, <2>2, <2>3, CtlPathKeeps DEF Settling, Releasing
<1>4. CASE ModeSet
  BY <1>4, ModeSetPath
<1>5. CASE ModeEnter
  <2>1. /\ pc["ctl"] = "mEnter" /\ audio' \in TakeCall(audio) /\ cont' = cont
        /\ pc' = [pc EXCEPT !["ctl"] = "mUnlock"]
    BY <1>5 DEF ModeEnter, Goto
  <2>2. ~Captures(audio)
    BY <2>1 DEF PathInv, Captures, ActiveIn
  <2>3. /\ audio'.in.state = audio.in.state /\ audio'.hw.inCall = TRUE
        /\ audio'.hw.late = audio.hw.late /\ audio'.in.standby = audio.in.standby
        /\ audio'.in.pcm = audio.in.pcm /\ audio'.in.mixer = audio.in.mixer
    BY <1>0, <2>1, <2>2, TakeCallPath
  <2>4. pc'["ctl"] = "mUnlock" /\ \A u \in Threads \ {"ctl"} : pc'[u] = pc[u]
    BY <1>0, <2>1 DEF ControlOK, Threads
  <2>5. ~(CtlAt("mEnter")') /\ ~(CtlAt("mLeave")')
    BY <2>4 DEF CtlAt, Releasing
  <2>6. /\ pc'["rec"] \in Rousing => audio'.in.standby
        /\ \A u \in Threads : pc'[u] = "iUnlock" => audio'.in.standby
    BY <2>3, <2>4 DEF PathInv, Threads
  <2>7. QED
    BY <2>3, <2>4, <2>5, <2>6 DEF PathInv
<1>6. CASE ModeLeave
  <2>1. /\ pc["ctl"] = "mLeave" /\ cont' = cont
        /\ pc' = [pc EXCEPT !["ctl"] = "mUnlock"]
        /\ audio' = [audio EXCEPT !.hw.inCall = FALSE]
    BY <1>6 DEF ModeLeave, Goto
  <2>2. /\ audio'.in = audio.in /\ audio'.hw.mode = audio.hw.mode
        /\ audio'.hw.late = audio.hw.late
    BY <1>0, <2>1 DEF Audio, Hw
  <2>3. pc'["ctl"] = "mUnlock" /\ \A u \in Threads \ {"ctl"} : pc'[u] = pc[u]
    BY <1>0, <2>1 DEF ControlOK, Threads
  <2>4. ~(CtlAt("mEnter")') /\ ~(CtlAt("mLeave")')
    BY <2>3 DEF CtlAt, Releasing
  <2>5. audio.hw.mode = "NORMAL" /\ ~ActiveIn(audio)
    BY <2>1 DEF PathInv, CtlAt
  <2>6. /\ pc'["rec"] \in Rousing => audio'.in.standby
        /\ \A u \in Threads : pc'[u] = "iUnlock" => audio'.in.standby
    BY <2>2, <2>3 DEF PathInv, Threads
  <2>7. QED
    BY <2>2, <2>3, <2>4, <2>5, <2>6 DEF PathInv, MicRight, ActiveIn
\* What changes nothing of the threads, or takes the control thread from idle to iLock.
<1>7. ASSUME pc["ctl"] = "idle", NEW q \in {"idle", "iLock"},
             pc' = [pc EXCEPT !["ctl"] = q],
             audio'.hw.mode = audio.hw.mode, audio'.hw.inCall = audio.hw.inCall,
             audio'.hw.late = audio.hw.late,
             audio.in.standby => audio'.in.standby,
             audio'.in.standby => ~audio'.in.pcm /\ ~audio'.in.mixer,
             q = "iLock" \/ audio.hw.inCall \/ MicRight(audio')
      PROVE  PathInv'
  <2>1. pc'["ctl"] = q /\ \A u \in Threads \ {"ctl"} : pc'[u] = pc[u]
    BY <1>0, <1>7 DEF ControlOK, Threads
  <2>2. /\ ~CtlAt("mEnter") /\ ~CtlAt("mLeave")
        /\ ~(CtlAt("mEnter")') /\ ~(CtlAt("mLeave")')
    BY <1>7, <2>1 DEF CtlAt, Releasing
  <2>3. /\ pc'["rec"] \in Rousing => audio'.in.standby
        /\ \A u \in Threads : pc'[u] = "iUnlock" => audio'.in.standby
    BY <1>7, <2>1 DEF PathInv, Threads
  <2>4. QED
    BY <1>7, <2>1, <2>2, <2>3 DEF PathInv, Settling
<1>8. CASE SetMicMute
  <2>1. /\ audio'.in = audio.in /\ audio'.chip = audio.chip
        /\ audio'.hw.mode = audio.hw.mode /\ audio'.hw.inCall = audio.hw.inCall
        /\ audio'.hw.late = audio.hw.late
    BY <1>0, <1>8 DEF SetMicMute, Audio, Hw
  <2>2. /\ pc["ctl"] = "idle"
        /\ pc' = [pc EXCEPT !["ctl"] = IF MuteRestarts(audio) THEN "iLock" ELSE "idle"]
    BY <1>0, <1>8 DEF SetMicMute, AtDevice, Start, Goto, ControlOK
  <2>3. audio.hw.mode = "IN_CALL" => audio.hw.inCall
    BY <2>2 DEF PathInv, CtlAt, Releasing
  <2>4. ~MuteRestarts(audio) /\ ~audio.hw.inCall => MicRight(audio')
    BY <2>1, <2>3 DEF MuteRestarts, MicRight, ActiveIn
  <2>5. QED
    BY <1>7, <2>1, <2>2, <2>4 DEF PathInv
<1>9. CASE OpenOutputStream
  <2>1. /\ audio'.in = audio.in /\ audio'.chip = audio.chip /\ audio'.hw = audio.hw
        /\ pc["ctl"] = "idle" /\ pc' = [pc EXCEPT !["ctl"] = "idle"]
    BY <1>0, <1>9 DEF OpenOutputStream, AtDevice, Audio, ControlOK
  <2>2. ~audio.hw.inCall => MicRight(audio')
    BY <2>1 DEF PathInv, Settling, Releasing, MicRight, ActiveIn
  <2>3. QED
    BY <1>7, <2>1, <2>2 DEF PathInv
<1>10. CASE OpenInputStream
  <2>1. PICK i : i = [NewIn EXCEPT !.state = "open"]
    OBVIOUS
  <2>2. i.standby /\ ~i.pcm /\ ~i.mixer
    BY <2>1 DEF NewIn
  <2>3. /\ audio'.in = i /\ audio'.hw = audio.hw
        /\ pc["ctl"] = "idle" /\ pc' = [pc EXCEPT !["ctl"] = "idle"]
    BY <1>0, <1>10, <2>1 DEF OpenInputStream, AtDevice, Audio, ControlOK
  <2>4. MicRight(audio')
    BY <2>2, <2>3 DEF MicRight
  <2>5. QED
    BY <1>7, <2>2, <2>3, <2>4
<1>11. CASE CloseInputStream
  <2>1. /\ audio'.hw = audio.hw /\ audio'.in.state = "closed"
        /\ audio'.in.standby = audio.in.standby /\ audio'.in.pcm = audio.in.pcm
        /\ audio'.in.mixer = audio.in.mixer
    BY <1>0, <1>11 DEF CloseInputStream, Audio, In
  <2>2. /\ pc["ctl"] = "idle"
        /\ pc' = [pc EXCEPT !["ctl"] = IF RefersToIn("play") THEN "idle" ELSE "iLock"]
    BY <1>0, <1>11 DEF CloseInputStream, AtDevice, Start, Goto, ControlOK
  <2>3. MicRight(audio')
    BY <2>1 DEF MicRight, ActiveIn
  <2>4. QED
    BY <1>7, <2>1, <2>2, <2>3 DEF PathInv
<1>12. QED
  BY <1>1, <1>2, <1>3, <1>4, <1>5, <1>6, <1>8, <1>9, <1>10, <1>11 DEF CtlSteps

\* The streams' standby(), called by any thread.
LEMMA StandbyPathStep ==
  ASSUME EchoInv, InRule, PathInv, StandbySteps
  PROVE  PathInv'
<1>0. /\ ControlOK /\ ReleaseRule /\ audio \in Audio /\ Aside(audio, audio)
  BY DEF EchoInv, ReleaseInv, Aside, Steady
<1>1. PICK t \in Threads :
        \/ OutStandbyLock(t) \/ OutStandby(t)
        \/ InStandbyLock(t) \/ InStandby(t) \/ InStandbyEnd(t)
        \/ StandbyLockOut(t) \/ StandbyLockIn(t) \/ StandbyRelockHw(t)
  BY DEF StandbySteps
\* A step of any thread that does not begin or end the work of setMode().
<1>2. ASSUME NEW q, q \notin {"mSet", "mEnter", "mLeave", "iUnlock"} \cup Rousing,
             pc' = [pc EXCEPT ![t] = q], cont' = cont,
             pc[t] \notin {"mEnter", "mLeave"},
             q \in Releasing <=> pc[t] \in Releasing,
             pc[t] \in Settling => q \in Settling,
             Aside(audio, audio'),
             lock["in"] = "ctl" => lock'["in"] = "ctl"
      PROVE  PathInv'
  <2>1. CASE t \in {"play", "rec"}
    BY <1>0, <1>2, <2>1, OthersKeep
  <2>2. CASE t = "ctl"
    <3>1. CtlAt("mEnter")' = CtlAt("mEnter") /\ CtlAt("mLeave")' = CtlAt("mLeave")
      BY <1>0, <1>2, <2>2 DEF CtlAt, ControlOK, Threads
    <3>2. QED
      BY <1>0, <1>2, <2>2, <3>1, CtlPathKeeps
  <2>3. QED
    BY <2>1, <2>2 DEF Threads
<1>3. CASE OutStandbyLock(t) \/ InStandbyLock(t) \/ StandbyLockOut(t) \/ StandbyLockIn(t)
  <2>1. /\ audio' = audio /\ cont' = cont
        /\ \E l \in Locks : lock[l] = "free" /\ lock' = [lock EXCEPT ![l] = t]
    BY <1>3 DEF OutStandbyLock, InStandbyLock, StandbyLockOut, StandbyLockIn, Acquire, Locks
  <2>2. PICK q \in {"oLockHw", "iLockHw", "sLockIn", "sRelockHw"} :
          /\ pc' = [pc EXCEPT ![t] = q]
          /\ pc[t] \in {"oLock", "iLock", "sLockOut", "sLockIn"}
          /\ q \in Releasing <=> pc[t] \in Releasing
          /\ pc[t] \in Settling => q \in Settling
    BY <1>3 DEF OutStandbyLock, InStandbyLock, StandbyLockOut, StandbyLockIn, Acquire,
    Goto, Releasing, Settling
  <2>3. lock["in"] = "ctl" => lock'["in"] = "ctl"
    BY <1>0, <2>1 DEF ControlOK, Locks
  <2>4. QED
    BY <1>0, <1>2, <2>1, <2>2, <2>3 DEF Rousing
<1>4. CASE OutStandby(t)
  <2>1. PICK b : b = StandbyOut(audio)
    OBVIOUS
  <2>2. b \in Audio /\ Aside(audio, b)
    BY <1>0, <2>1, StandbyOutAside DEF Aside, Steady
  <2>3. Aside(b, audio')
    <3>1. PICK o : o = NewOut(b.out.device)
      OBVIOUS
    <3>2. o \in Out
      BY <2>2, <3>1 DEF NewOut, Out, StreamStates, Audio
    <3>3. audio' = b \/ audio' = [b EXCEPT !.out = o]
      BY <1>4, <2>1, <3>1 DEF OutStandby
    <3>4. QED
      BY <2>2, <3>2, <3>3 DEF Aside, Steady, Audio
  <2>4. /\ pc[t] = "oLockHw" /\ pc' = [pc EXCEPT ![t] = "idle"] /\ cont' = cont
        /\ lock' = [lock EXCEPT !["out"] = "free"]
    BY <1>4 DEF OutStandby, AtDevice, Return
  <2>5. lock["in"] = "ctl" => lock'["in"] = "ctl"
    BY <1>0, <2>4 DEF ControlOK, Locks
  <2>6. QED
    BY <1>2, <2>2, <2>3, <2>4, <2>5, AsideTrans DEF Rousing, Releasing, Settling
<1>5. CASE InStandby(t)
  <2>1. pc[t] = "iLockHw" /\ lock["hw"] = "free" /\ DoStandbyIn(t, audio, "iUnlock")
    BY <1>5 DEF InStandby, AtDevice
  <2>2. pc["ctl"] \notin {"mSet", "mEnter", "mLeave"}
    BY <1>0, <2>1 DEF ReleaseRule, WithHw, Threads
  <2>3. CASE /\ Aside(audio, audio') /\ ~audio.in.standby
             /\ Goto(t, "sLockOut") /\ cont' = [cont EXCEPT ![t] = "iUnlock"]
    <3>1. CASE t \in {"play", "rec"}
      <4>1. cont'["ctl"] = cont["ctl"]
        BY <1>0, <2>3, <3>1 DEF ControlOK, Threads
      <4>2. QED
        BY <1>0, <2>2, <2>3, <3>1, <4>1, OthersKeep DEF Goto, Rousing
    <3>2. CASE t = "ctl"
      <4>1. CtlAt("mEnter")' = CtlAt("mEnter") /\ CtlAt("mLeave")' = CtlAt("mLeave")
        BY <1>0, <2>1, <2>3, <3>2 DEF CtlAt, ControlOK, Threads, Releasing, Goto
      <4>2. QED
        BY <1>0, <2>3, <3>2, <4>1, CtlPathKeeps DEF Goto, Settling, Releasing
    <3>3. QED
      BY <3>1, <3>2 DEF Threads
  <2>4. CASE Down(audio, audio') /\ Goto(t, "iUnlock") /\ cont' = cont
    <3>1. CASE t \in {"play", "rec"}
      BY <1>0, <2>2, <2>4, <3>1, OthersKeep DEF Goto, Down
    <3>2. CASE t = "ctl"
      <4>1. CtlAt("mEnter")' = CtlAt("mEnter") /\ CtlAt("mLeave")' = CtlAt("mLeave")
        BY <1>0, <2>1, <2>4, <3>2 DEF CtlAt, ControlOK, Threads, Releasing, Goto
      <4>2. audio'.in.standby /\ ~ActiveIn(audio')
        BY <2>4 DEF Down, ActiveIn
      <4>3. QED
        BY <1>0, <2>4, <3>2, <4>1, <4>2, CtlPathKeeps DEF Goto
    <3>3. QED
      BY <3>1, <3>2 DEF Threads
  <2>5. QED
    BY <1>0, <2>1, <2>3, <2>4, DoStandbyInPath
<1>6. CASE InStandbyEnd(t)
  <2>1. /\ pc[t] = "iUnlock" /\ cont' = cont
        /\ \E q \in {"idle", "cDrop"} : pc' = [pc EXCEPT ![t] = q]
        /\ audio' = IF call[t] = "closeInput" THEN [audio EXCEPT !.in = NewIn] ELSE audio
    BY <1>6 DEF InStandbyEnd, Return, Goto
  <2>2. lock["hw"] = t /\ audio.in.standby
    BY <1>0, <2>1 DEF ReleaseRule, WithHw, PathInv
  <2>3. CASE call[t] # "closeInput"
    <3>1. audio' = audio
      BY <2>1, <2>3
    <3>2. CASE t \in {"play", "rec"}
      <4>1. pc["ctl"] # "mSet"
        BY <1>0, <2>2, <3>2 DEF ReleaseRule, WithHw, Threads
      <4>2. QED
        BY <1>0, <2>1, <3>1, <3>2, <4>1, OthersKeep DEF Rousing
    <3>3. CASE t = "ctl"
      <4>1. CtlAt("mEnter")' = CtlAt("mEnter") /\ CtlAt("mLeave")' = CtlAt("mLeave")
        BY <1>0, <2>1, <3>3 DEF CtlAt, ControlOK, Threads, Releasing
      <4>2. QED
        BY <1>0, <2>1, <3>1, <3>3, <4>1, CtlPathKeeps DEF Settling, Releasing
    <3>4. QED
      BY <3>2, <3>3 DEF Threads
  <2>4. CASE call[t] = "closeInput"
    <3>1. t = "ctl"
      BY <1>0, <2>4 DEF ReleaseRule, Threads
    <3>2. PICK i : i = NewIn
      OBVIOUS
    <3>3. i.standby /\ ~i.pcm /\ ~i.mixer
      BY <3>2 DEF NewIn
    <3>4. audio'.in = i /\ audio'.hw = audio.hw
      BY <1>0, <2>1, <2>4, <3>2 DEF Audio
    <3>5. pc'["ctl"] \in {"idle", "cDrop"} /\ \A u \in Threads \ {"ctl"} : pc'[u] = pc[u]
      BY <1>0, <2>1, <3>1 DEF ControlOK, Threads
    <3>6. /\ ~CtlAt("mEnter") /\ ~CtlAt("mLeave")
          /\ ~(CtlAt("mEnter")') /\ ~(CtlAt("mLeave")')
      BY <2>1, <3>1, <3>5 DEF CtlAt, Releasing
    <3>7. MicRight(audio')
      BY <3>3, <3>4 DEF MicRight, ActiveIn
    <3>8. QED
      BY <3>3, <3>4, <3>5, <3>6, <3>7 DEF PathInv
  <2>5. QED
    BY <2>3, <2>4
<1>7. CASE StandbyRelockHw(t)
  <2>1. pc[t] = "sRelockHw" /\ lock["hw"] = "free" /\ cont' = cont
    BY <1>7 DEF StandbyRelockHw, AtDevice
  <2>2. t # "play" /\ pc["ctl"] \notin {"mSet", "mEnter", "mLeave"}
    BY <1>0, <2>1 DEF ReleaseRule, WithHw, Threads
  <2>3. PICK a : a = IF audio.in.echo THEN ReleaseEcho(audio) ELSE audio
    OBVIOUS
  <2>4. a \in Audio /\ Aside(audio, a) /\ a.out.state = audio.out.state
    BY <1>0, <2>3, EchoAside, ReleaseEchoFacts DEF Aside, Steady
  <2>5. PICK c : c = [a EXCEPT !.in.echo = FALSE]
    OBVIOUS
  <2>6. c \in Audio /\ Aside(a, c)
    BY <2>4, <2>5 DEF Aside, Steady, Audio, In
  <2>7. Down(audio, StandbyIn(c))
    <3>1. Down(c, StandbyIn(c))
      BY <2>6, StandbyInDown
    <3>2. QED
      BY <2>4, <2>6, <3>1 DEF Down, Aside, Steady
  <2>8. \/ a.out.state = "closed" /\ audio' = a /\ pc' = [pc EXCEPT ![t] = "oLock"]
        \/ audio' = StandbyIn(c) /\ pc' = [pc EXCEPT ![t] = cont[t]]
    BY <1>7, <2>3, <2>5 DEF StandbyRelockHw, Goto
  <2>9. CASE t = "rec"
    <3>1. cont[t] = "iUnlock"
      BY <1>0, <2>1, <2>9 DEF ReleaseRule, Releasing
    <3>2. CASE audio' = a /\ pc' = [pc EXCEPT ![t] = "oLock"]
      BY <1>0, <2>1, <2>2, <2>4, <2>9, <3>2, OthersKeep DEF Rousing
    <3>3. CASE audio' = StandbyIn(c) /\ pc' = [pc EXCEPT ![t] = cont[t]]
      <4>1. Down(audio, audio')
        BY <2>7, <3>3
      <4>2. QED
        BY <1>0, <2>1, <2>2, <2>9, <3>1, <3>3, <4>1, OthersKeep DEF Down
    <3>4. QED
      BY <2>8, <3>2, <3>3
  <2>10. CASE t = "ctl"
    <3>1. audio.out.state = "open" /\ cont[t] \in {"iUnlock", "mEnter", "mLeave"}
      BY <1>0, <2>1, <2>10 DEF EchoInv, ReleaseInv, ReleaseRule, Releasing
    <3>2. audio' = StandbyIn(c) /\ pc' = [pc EXCEPT !["ctl"] = cont["ctl"]]
      BY <2>4, <2>8, <2>10, <3>1
    <3>3. Down(audio, audio') /\ ~ActiveIn(audio')
      BY <2>7, <3>2 DEF Down, ActiveIn
    <3>4. CtlAt("mEnter")' = CtlAt("mEnter") /\ CtlAt("mLeave")' = CtlAt("mLeave")
      BY <1>0, <2>1, <2>10, <3>1, <3>2 DEF CtlAt, ControlOK, Threads, Releasing
    <3>5. QED
      BY <1>0, <2>10, <3>1, <3>2, <3>3, <3>4, CtlPathKeeps DEF Down
  <2>11. QED
    BY <2>2, <2>9, <2>10 DEF Threads
<1>8. QED
  BY <1>1, <1>3, <1>4, <1>5, <1>6, <1>7

\* Every step keeps the invariant.
LEMMA PathStep ==
  ASSUME EchoInv, InRule, PathInv, [Next]_vars
  PROVE  InRule' /\ PathInv'
<1>1. InRule'
  BY InStep DEF EchoInv
<1>2. CASE Next
  BY <1>1, <1>2, PlayPathStep, RecPathStep, CtlPathStep, StandbyPathStep DEF Next
<1>3. CASE UNCHANGED vars
  <2>1. CtlAt("mEnter")' = CtlAt("mEnter") /\ CtlAt("mLeave")' = CtlAt("mLeave")
    BY <1>3 DEF CtlAt, vars
  <2>2. QED
    BY <1>1, <1>3, <2>1 DEF PathInv, vars
<1>4. QED
  BY <1>2, <1>3

\* The order of the PCMs and the path of the microphone hold in every state the
\* component can reach, as EchoInv does.
THEOREM PathInvariant == Spec => [](InRule /\ PathInv)
<1>1. Init => InRule /\ PathInv
  BY DEF Init, InRule, WithIn, PathInv, MicRight, ActiveIn, NewIn, Threads, CtlAt,
  Rousing, Settling, Releasing
<1>2. EchoInv /\ (InRule /\ PathInv) /\ [Next]_vars => (InRule /\ PathInv)'
  BY PathStep
<1>3. QED
  BY <1>1, <1>2, EchoInvariant, PTL DEF Spec

\* openPcmOut_l() is never called with the capture PCM of a stream on mInputs
\* open, although read(), write() and setMode() each give up their mutexes while
\* they see to it: in every environment.
THEOREM OutputBeforeInputHolds == Spec => []OutputBeforeInput
<1>1. PathInv => OutputBeforeInput
  BY DEF PathInv, OutputBeforeInput
<1>2. QED
  BY <1>1, PathInvariant, PTL

\* Whatever mutes, modes and restarts of the input do to each other, outside of
\* calls an active input records what the flag says: in every environment.
THEOREM MuteHonouredHolds == Spec => []MuteHonoured
<1>1. PathInv => MuteHonoured
  BY DEF PathInv, MuteHonoured, MicRight, Settling, Releasing
<1>2. QED
  BY <1>1, PathInvariant, PTL

-----------------------------------------------------------------------------
(* The shares of the streams and of a call in the device, and the wake lock. *)

\* Where write() keeps the phone awake for an output in standby.
Waking == {"wLockIn", "wRelockHw", "sLockOut", "iLock", "iLockHw"}

\* A stream in standby has nothing open, and is what a thread that takes it out
\* of standby finds.  (An output whose write() waits for the input's echo
\* reference to be released has, and waits for ever.)
StandbyInv ==
  /\ ~audio.out.standby => audio.out.pcm
  /\ audio.out.standby /\ audio.out.pcm => pc["play"] = "sLockOut"
  /\ audio.out.mixer => audio.out.pcm
  /\ audio.out.state = "none" => audio.out.standby
  /\ audio.in.standby => ~audio.in.mixer
  /\ audio.in.state = "none" => audio.in.standby
  /\ pc["play"] # "idle" => audio.out.state = "open"
  /\ pc["play"] \in {"wLockHw"} \cup Waking => audio.out.standby
  /\ pc["rec"] \in {"rLockHw", "rLockOut", "rRelockIn", "rRelockHw"} =>
       audio.in.standby
  /\ \A t \in Threads : pc[t] = "iUnlock" => audio.in.standby

\* A call has its share of both counts; setMode() is the only one to change it.
CallInv ==
  /\ audio.hw.callPcm = (audio.hw.inCall /\ ~CtlAt("mLeave"))
  /\ audio.hw.callMixer = audio.hw.callPcm
  /\ CtlAt("mEnter") => ~audio.hw.inCall

WakeInv == audio.chip.wake = (~audio.out.standby \/ pc["play"] \in Waking)

\* What the invariant says of the shares.
DataInv == Counts(audio) /\ StandbyInv /\ CallInv /\ WakeInv

SharesInv == EchoInv /\ DataInv

\* b differs from a in nothing that is about.
Alike(a, b) ==
  /\ b \in Audio /\ KeepsCall(a, b)
  /\ b.out.standby = a.out.standby /\ b.out.pcm = a.out.pcm
  /\ b.out.mixer = a.out.mixer /\ b.in.standby = a.in.standby
  /\ b.in.mixer = a.in.mixer /\ b.chip.wake = a.chip.wake
  /\ b.hw.pcmCnt = a.hw.pcmCnt /\ b.hw.mixerCnt = a.hw.mixerCnt

\* What is alike has the same counts.
LEMMA AlikeCounts ==
  ASSUME NEW a, NEW b, Alike(a, b), Counts(a) PROVE Counts(b)
BY DEF Alike, Counts, KeepsCall

\* prepareLock() changes nothing the invariant is about.
LEMMA FreshAlike ==
  ASSUME NEW a \in Audio, NEW x \in Threads
  PROVE  /\ Alike(a, [a EXCEPT !.in.fresh = @ \cup {x}])
         /\ Alike(a, [a EXCEPT !.out.fresh = @ \cup {x}])
BY DEF Alike, KeepsCall, Audio, In, Out

\* A thread that has the output's mutex has it alone.
LEMMA OutAlone ==
  ASSUME ReleaseRule, lock["out"] # "play"
  PROVE  pc["play"] \notin {"wLockHw"} \cup Waking
BY DEF ReleaseRule, WithOut, Waking, Threads

\* While the device's mutex is free nobody is about to give it up.
LEMMA NobodyAtEnd ==
  ASSUME ReleaseRule, lock["hw"] = "free"
  PROVE  \A t \in Threads : pc[t] # "iUnlock"
BY DEF ReleaseRule, WithHw, Threads

\* A step of another thread leaves setMode() where it is.
LEMMA CallKept ==
  ASSUME CallInv, KeepsCall(audio, audio'), pc'["ctl"] = pc["ctl"],
         cont'["ctl"] = cont["ctl"]
  PROVE  CallInv'
BY DEF CallInv, KeepsCall, CtlAt

\* write() at the end of its way out of standby, with the streams as in b.
LEMMA WriteOpenedStep ==
  ASSUME EchoInv, DataInv, pc["play"] \in {"wLockHw", "wRelockHw"},
         lock["hw"] = "free",
         NEW b \in Audio, Counts(b), KeepsCall(audio, b), WriteOpened(b),
         b.out.mixer => b.out.pcm, b.out.standby,
         b.in.standby => ~b.in.mixer, audio.in.standby => b.in.standby,
         b.chip.wake
  PROVE  DataInv'
<1> USE DEF EchoInv, ControlOK, Threads, Locks, Goto, DataInv
<1>1. /\ audio' \in Audio /\ KeepsCall(b, audio') /\ audio'.in = b.in
      /\ audio'.hw = b.hw
      /\ audio'.out.pcm = b.out.pcm /\ audio'.out.mixer = b.out.mixer
      /\ audio'.out.standby = ~b.out.pcm /\ audio'.chip.wake = b.out.pcm
  BY DEF WriteOpened, Audio, Out, Chip, KeepsCall
<1>2. /\ cont' = cont
      /\ \E q \in {"wWrite", "oLock"} : pc' = [pc EXCEPT !["play"] = q]
  BY DEF WriteOpened
<1>3. Counts(audio')
  BY <1>1 DEF Counts
<1>4. audio.out.state = "open" /\ \A t \in Threads : pc[t] # "iUnlock"
  BY NobodyAtEnd DEF StandbyInv
<1>5. KeepsCall(audio, audio')
  BY <1>1 DEF KeepsCall
<1>6. StandbyInv'
  <2>1. audio'.out.pcm = ~audio'.out.standby
    BY <1>1 DEF Audio, Out
  <2>2. \A t \in Threads : pc'[t] # "iUnlock"
    BY <1>2, <1>4
  <2>3. QED
    BY <1>1, <1>2, <1>4, <1>5, <2>1, <2>2 DEF StandbyInv, KeepsCall, Waking
<1>7. CallInv'
  BY <1>2, <1>5, CallKept
<1>8. WakeInv'
  BY <1>1, <1>2 DEF WakeInv, Waking, Audio, Out, Chip
<1>9. QED
  BY <1>3, <1>6, <1>7, <1>8

\* write(), looking for an active input with the streams as in a.
LEMMA WriteLookInStep ==
  ASSUME EchoInv, DataInv, pc["play"] \in {"wLockHw", "wRelockHw"},
         lock["hw"] = "free",
         NEW a \in Audio, Counts(a), KeepsCall(audio, a), a.out = audio.out,
         a.in = audio.in, a.chip.wake, WriteLookIn(a)
  PROVE  DataInv'
<1> USE DEF EchoInv, ControlOK, Threads, Locks, Goto, DataInv
<1>1. a.out.standby /\ ~a.out.pcm /\ ~a.out.mixer
  BY DEF StandbyInv, Waking, Audio, Out
<1>2. CASE ActiveIn(a)
  <2>1. Alike(a, audio')
    BY <1>2, FreshAlike DEF WriteLookIn
  <2>2. cont' = cont /\ pc' = [pc EXCEPT !["play"] = "wLockIn"]
    BY <1>2 DEF WriteLookIn
  <2>3. Counts(audio')
    BY <2>1, AlikeCounts
  <2>4. KeepsCall(audio, audio')
    BY <2>1 DEF KeepsCall, Alike
  <2>5. StandbyInv'
    BY <1>1, <2>1, <2>2, <2>4 DEF StandbyInv, KeepsCall, Alike, Waking
  <2>6. CallInv'
    BY <2>2, <2>4, CallKept
  <2>7. WakeInv'
    <3>1. a.chip.wake \in BOOLEAN /\ pc'["play"] = "wLockIn"
      BY <2>2 DEF Audio, Chip
    <3>2. QED
      BY <2>1, <3>1 DEF WakeInv, Alike, Waking
  <2>8. QED
    BY <2>3, <2>5, <2>6, <2>7
<1>3. CASE ~ActiveIn(a)
  <2>1. PICK b \in OpenOut(a) : WriteOpened(b)
    BY <1>3 DEF WriteLookIn
  <2>2. /\ b \in Audio /\ Keeps(a, b) /\ Counts(b)
        /\ b.out.mixer => b.out.pcm
        /\ b.out.standby = a.out.standby
        /\ b.in = a.in /\ b.chip.wake = a.chip.wake
    BY <1>1, OpenOutFacts
  <2>3. KeepsCall(audio, b)
    BY <2>2 DEF Keeps, KeepsCall
  <2>4. b.in.standby => ~b.in.mixer
    BY <2>2 DEF StandbyInv
  <2>5. QED
    BY <1>1, <2>1, <2>2, <2>3, <2>4, WriteOpenedStep
<1>4. QED
  BY <1>2, <1>3

\* read(), opening the input with the streams as in a.
LEMMA ReadOpenStep ==
  ASSUME EchoInv, DataInv, pc["rec"] \in {"rLockHw", "rRelockHw"},
         lock["hw"] = "free",
         NEW a \in Audio, Counts(a), KeepsCall(audio, a),
         a.in.standby, ~a.in.mixer,
         ~a.out.standby => a.out.pcm,
         a.out.standby /\ a.out.pcm => pc["play"] = "sLockOut",
         a.out.mixer => a.out.pcm, audio.out.standby => a.out.standby,
         a.chip.wake = (~a.out.standby \/ pc["play"] \in Waking),
         ReadOpen(a)
  PROVE  DataInv'
<1> USE DEF EchoInv, ControlOK, Threads, Locks, Goto, DataInv
<1>1. audio.in.state = "open" /\ \A t \in Threads : pc[t] # "iUnlock"
  BY NobodyAtEnd DEF ReleaseInv
<1>2. PICK b \in OpenIn(a) :
        /\ audio' = IF b.in.pcm THEN [b EXCEPT !.in.standby = FALSE] ELSE b
        /\ \E q \in {"rRead", "iLock"} : pc' = [pc EXCEPT !["rec"] = q]
        /\ cont' = cont
  BY DEF ReadOpen
<1>3. /\ b \in Audio /\ Keeps(a, b) /\ Counts(b)
      /\ b.in.mixer => b.in.pcm
      /\ b.in.standby = a.in.standby /\ (b.in.pcm \/ b = a)
      /\ b.out = a.out /\ b.chip.wake = a.chip.wake
  BY OpenInFacts
<1>4. /\ audio' \in Audio /\ Keeps(b, audio') /\ audio'.out = b.out
      /\ audio'.hw = b.hw /\ audio'.chip = b.chip
      /\ audio'.in.mixer = b.in.mixer /\ (audio'.in.standby => audio' = b)
      /\ (audio'.in.standby => ~b.in.pcm)
  BY <1>2, <1>3 DEF Audio, In, Keeps
<1>5. Counts(audio')
  BY <1>3, <1>4 DEF Counts
<1>6. KeepsCall(audio, audio')
  BY <1>3, <1>4 DEF Keeps, KeepsCall
<1>7. StandbyInv'
  <2>1. \A t \in Threads : pc'[t] # "iUnlock"
    BY <1>1, <1>2
  <2>2. audio'.in.standby => ~audio'.in.mixer
    BY <1>3, <1>4
  <2>3. /\ audio'.out = a.out /\ audio'.out.state = audio.out.state
        /\ audio'.in.state = audio.in.state
        /\ pc'["play"] = pc["play"] /\ pc'["rec"] \in {"rRead", "iLock"}
    BY <1>2, <1>3, <1>4, <1>6 DEF KeepsCall
  <2>4. QED
    BY <1>1, <2>1, <2>2, <2>3 DEF StandbyInv
<1>8. CallInv'
  BY <1>2, <1>6, CallKept
<1>9. WakeInv'
  BY <1>2, <1>3, <1>4 DEF WakeInv
<1>10. QED
  BY <1>5, <1>7, <1>8, <1>9

\* The echo reference is none of its business.
LEMMA GetEchoAlike ==
  ASSUME NEW a \in Audio, NEW d \in GetEcho(a) PROVE Alike(a, d)
<1>1. PICK c : c = ReleaseEcho(a)
  OBVIOUS
<1>2. Alike(a, c)
  BY <1>1 DEF ReleaseEcho, Alike, KeepsCall, Audio, Out, Hw
<1>3. \/ d = [c EXCEPT !.hw.echo = TRUE, !.out.echo = TRUE, !.in.echo = TRUE]
      \/ d = [c EXCEPT !.in.echo = FALSE]
  BY <1>1 DEF GetEcho, Faulty
<1>4. Alike(c, d)
  <2>1. c \in Audio
    BY <1>2 DEF Alike, KeepsCall
  <2>2. CASE d = [c EXCEPT !.hw.echo = TRUE, !.out.echo = TRUE, !.in.echo = TRUE]
    BY <2>1, <2>2 DEF Alike, KeepsCall, Audio, Out, In, Hw
  <2>3. CASE d = [c EXCEPT !.in.echo = FALSE]
    BY <2>1, <2>3 DEF Alike, KeepsCall, Audio, In
  <2>4. QED
    BY <1>3, <2>2, <2>3
<1>5. QED
  BY <1>2, <1>4 DEF Alike, KeepsCall

\* standby() and setParameters() of the input: its doStandby_l().
LEMMA InputStandbyStep ==
  ASSUME EchoInv, DataInv, NEW t \in {"rec", "ctl"},
         pc[t] \in {"iLockHw", "qLockHw", "qRouteHw"},
         DoStandbyIn(t, audio, "iUnlock")
  PROVE  DataInv'
<1> USE DEF EchoInv, ControlOK, Threads, Locks, Goto, DataInv
<1>1. /\ KeepsCall(audio, audio') /\ Counts(audio')
      /\ audio'.out = audio.out /\ audio'.chip = audio.chip
      /\ \/ /\ ~audio'.in.mixer /\ audio'.in.standby
            /\ pc' = [pc EXCEPT ![t] = "iUnlock"] /\ cont' = cont
         \/ /\ audio'.in.mixer = audio.in.mixer
            /\ audio'.in.standby = audio.in.standby
            /\ pc' = [pc EXCEPT ![t] = "sLockOut"]
            /\ cont' = [cont EXCEPT ![t] = "iUnlock"]
  BY DoStandbyInFacts DEF ReleaseInv
<1>2. StandbyInv'
  BY <1>1 DEF StandbyInv, KeepsCall, Waking
<1>3. WakeInv'
  BY <1>1 DEF WakeInv
<1>4. \A p \in {"mEnter", "mLeave"} : CtlAt(p)' <=> CtlAt(p)
  BY <1>1 DEF CtlAt, Releasing
<1>5. CallInv'
  BY <1>1, <1>4 DEF CallInv, KeepsCall
<1>6. QED
  BY <1>1, <1>2, <1>3, <1>5

\* setMode(), looking for active streams.
LEMMA ModeLookStep ==
  ASSUME EchoInv, DataInv, pc["ctl"] \in {"idle", "mRelockHw", "mRelockHwIn"},
         ModeLookOut \/ \E S : ModeLookIn(S)
  PROVE  DataInv'
<1> USE DEF EchoInv, ControlOK, Threads, Locks, Goto, DataInv
<1>1. /\ Alike(audio, audio') /\ cont' = cont
      /\ \E q \in {"mLockOut", "mLockIn", "mSet"} : pc' = [pc EXCEPT !["ctl"] = q]
  <2>1. Alike(audio, audio) /\ audio \in Audio
    BY DEF Alike, KeepsCall, ReleaseInv
  <2>2. QED
    BY <2>1, FreshAlike DEF ModeLookOut, ModeLookIn
<1>2. Counts(audio')
  BY <1>1, AlikeCounts
<1>3. StandbyInv'
  BY <1>1 DEF StandbyInv, Alike, KeepsCall, Waking
<1>4. WakeInv'
  BY <1>1 DEF WakeInv, Alike
<1>5. CallInv'
  BY <1>1 DEF CallInv, CtlAt, Releasing, Alike, KeepsCall
<1>6. QED
  BY <1>2, <1>3, <1>4, <1>5

\* Every step keeps the shares.
LEMMA SharesStep ==
  ASSUME ~CallFaults, EchoInv, DataInv, [Next]_vars
  PROVE  DataInv'
<1> USE DEF ControlOK, Threads, Locks, Goto, DataInv, StandbyInv, CallInv, WakeInv,
            CtlAt, Waking, Releasing
<1>a. /\ audio \in Audio /\ ControlOK /\ ReleaseRule /\ ReleaseInv
      /\ Counts(audio) /\ KeepsCall(audio, audio)
  BY DEF EchoInv, ReleaseInv, KeepsCall
<1>b. EchoInv' /\ audio' \in Audio
  BY EchoStep DEF EchoInv, ReleaseInv
<1>1. ASSUME CallWrite PROVE DataInv'
  BY <1>a, <1>1 DEF CallWrite, StartLocked, Start
<1>2. ASSUME WriteWake PROVE DataInv'
  <2>1. PICK a : a = [audio EXCEPT !.chip.wake = TRUE]
    OBVIOUS
  <2>2. /\ a \in Audio /\ KeepsCall(audio, a) /\ a.out = audio.out
        /\ a.in = audio.in /\ a.hw = audio.hw /\ a.chip.wake
    BY <1>a, <2>1 DEF Audio, Chip, KeepsCall
  <2>3. WriteLookIn(a) /\ pc["play"] = "wLockHw" /\ lock["hw"] = "free"
    BY <1>2, <2>1 DEF WriteWake, AtDevice
  <2>4. Counts(a)
    BY <1>a, <2>2 DEF Counts
  <2>5. QED
    BY <2>2, <2>3, <2>4, WriteLookInStep
<1>3. ASSUME WriteLockIn PROVE DataInv'
  BY <1>a, <1>3 DEF WriteLockIn, Acquire
<1>4. ASSUME WriteRelockHw PROVE DataInv'
  <2>1. /\ pc["play"] = "wRelockHw" /\ audio.out.standby /\ lock["hw"] = "free"
        /\ ~audio.out.pcm /\ ~audio.out.mixer /\ audio.chip.wake
    BY <1>a, <1>4 DEF WriteRelockHw, AtDevice, Audio, Out, Chip
  <2>2. CASE WriteLookIn(audio)
    BY <1>a, <2>1, <2>2, WriteLookInStep
  <2>3. ASSUME NEW b \in ReopenBoth(audio), ActiveIn(audio),
               IF b.in.pcm THEN WriteOpened(b)
               ELSE IF b.in.echo
                 THEN DoStandbyIn("play", b, "wWrite") /\ UNCHANGED call
                 ELSE WriteOpened(StandbyIn([b EXCEPT !.in.fresh = {}]))
        PROVE  DataInv'
    <3>1. /\ b \in Audio /\ Keeps(audio, b) /\ Counts(b)
          /\ b.out.mixer => b.out.pcm
          /\ b.out.standby = audio.out.standby /\ b.in.standby = audio.in.standby
          /\ b.chip.wake = audio.chip.wake
          /\ b.in.mixer => b.in.pcm
      BY <1>a, <2>1, ReopenBothFacts
    <3>a. KeepsCall(audio, b)
      BY <3>1 DEF Keeps, KeepsCall
    <3>2. CASE b.in.pcm
      BY <2>1, <2>3, <3>1, <3>a, <3>2, WriteOpenedStep DEF ActiveIn
    <3>3. CASE ~b.in.pcm /\ ~b.in.echo
      <4>1. PICK d : d = [b EXCEPT !.in.fresh = {}]
        OBVIOUS
      <4>2. Alike(b, d) /\ d.out = b.out /\ d.chip = b.chip
        BY <3>1, <4>1 DEF Alike, KeepsCall, Audio, In
      <4>3. PICK c : c = StandbyIn(d)
        OBVIOUS
      <4>4. Counts(d) /\ d \in Audio
        BY <3>1, <4>2, AlikeCounts DEF Alike
      <4>5. /\ c \in Audio /\ KeepsCall(d, c) /\ Counts(c)
            /\ ~c.in.pcm /\ ~c.in.mixer /\ c.in.standby
            /\ c.out = d.out /\ c.chip = d.chip
        BY <4>3, <4>4, StandbyInFacts
      <4>6. KeepsCall(audio, c) /\ WriteOpened(c)
        BY <2>3, <3>3, <3>a, <4>1, <4>2, <4>3, <4>5 DEF Alike, KeepsCall
      <4>7. QED
        BY <2>1, <3>1, <4>2, <4>5, <4>6, WriteOpenedStep
    <3>4. CASE ~b.in.pcm /\ b.in.echo
      <4>1. DoStandbyIn("play", b, "wWrite")
        BY <2>3, <3>4
      <4>2. ~b.in.standby /\ b.out.state = "open"
        BY <2>1, <2>3, <3>1, <3>a DEF ActiveIn, KeepsCall
      <4>3. /\ KeepsCall(b, audio') /\ Counts(audio')
            /\ audio'.out = b.out /\ audio'.chip = b.chip
        BY <3>1, <4>1, DoStandbyInFacts
      <4>4. /\ pc' = [pc EXCEPT !["play"] = "sLockOut"]
            /\ cont' = [cont EXCEPT !["play"] = "wWrite"]
            /\ audio' = [b EXCEPT !.in.fresh = {}]
        BY <3>4, <4>1, <4>2 DEF DoStandbyIn
      <4>5. audio'.in.standby = b.in.standby /\ audio'.in.mixer = b.in.mixer
        BY <3>1, <4>4 DEF Audio, In
      <4>6. KeepsCall(audio, audio')
        BY <3>a, <4>3 DEF KeepsCall
      <4>7. CallInv'
        BY <1>a, <4>4, <4>6, CallKept
      <4>8. \A t \in Threads : pc'[t] # "iUnlock"
        BY <1>a, <2>1, <4>4, NobodyAtEnd
      <4>9. StandbyInv'
        BY <1>a, <2>1, <2>3, <3>1, <4>2, <4>3, <4>4, <4>5, <4>6, <4>8
        DEF ActiveIn, KeepsCall
      <4>10. WakeInv'
        BY <1>a, <2>1, <3>1, <4>3, <4>4 DEF Audio, Chip
      <4>11. QED
        BY <4>3, <4>7, <4>9, <4>10
    <3>5. QED
      BY <3>2, <3>3, <3>4
  <2>4. CASE pc' = [pc EXCEPT !["play"] = "iLock"] /\ audio' = audio /\ cont' = cont
    BY <1>a, <2>1, <2>4
  <2>5. QED
    BY <1>4, <2>1, <2>2, <2>3, <2>4 DEF WriteRelockHw
<1>5. ASSUME WriteData PROVE DataInv'
  BY <1>a, <1>5 DEF WriteData, Return
<1>6. ASSUME CallOutStandby PROVE DataInv'
  BY <1>a, <1>6 DEF CallOutStandby, StartLocked, Start
<1>7. ASSUME CallOutSetParameters PROVE DataInv'
  BY <1>a, <1>7 DEF CallOutSetParameters, StartLocked, Start
<1>8. ASSUME OutSetParameters PROVE DataInv'
  <2>1. PICK d \in Devices :
          LET a == [audio EXCEPT !.out.device = d] IN
          audio' = IF d # audio.out.device /\ a.hw.mode # "IN_CALL"
                     THEN StandbyOut(a) ELSE a
    BY <1>8 DEF OutSetParameters
  <2>2. PICK a : a = [audio EXCEPT !.out.device = d]
    OBVIOUS
  <2>3. Alike(audio, a) /\ a.in = audio.in
    BY <1>a, <2>2 DEF Alike, KeepsCall, Audio, Out
  <2>4. /\ pc["play"] = "pLockHw" /\ pc' = [pc EXCEPT !["play"] = "idle"]
        /\ cont' = cont
    BY <1>8 DEF OutSetParameters, AtDevice, Return
  <2>5. Counts(a)
    BY <1>a, <2>3, AlikeCounts
  <2>6. CASE audio' = a
    BY <1>a, <2>3, <2>4, <2>5, <2>6 DEF Alike, KeepsCall
  <2>7. CASE audio' = StandbyOut(a)
    <3>1. /\ audio' \in Audio /\ Keeps(a, audio') /\ Counts(audio')
          /\ ~audio'.out.pcm /\ ~audio'.out.mixer /\ audio'.out.standby
          /\ audio'.in = a.in
          /\ audio'.chip.wake = (a.out.standby /\ a.chip.wake)
      BY <2>3, <2>5, <2>7, StandbyOutFacts DEF Alike
    <3>2. audio'.chip.wake = FALSE
      BY <1>a, <2>3, <2>4, <3>1 DEF Alike, Audio, Out, Chip
    <3>3. KeepsCall(audio, audio') /\ audio'.in = audio.in
      BY <2>3, <3>1 DEF Alike, Keeps, KeepsCall
    <3>5. StandbyInv'
      BY <1>a, <2>4, <3>1, <3>2, <3>3 DEF KeepsCall
    <3>6. CallInv'
      BY <1>a, <2>4, <3>3, CallKept
    <3>7. WakeInv'
      BY <1>a, <2>4, <3>1, <3>2
    <3>8. QED
      BY <3>1, <3>5, <3>6, <3>7
  <2>8. QED
    BY <2>1, <2>2, <2>6, <2>7
<1>9. ASSUME CallRead PROVE DataInv'
  BY <1>a, <1>9 DEF CallRead, StartLocked, Start
<1>10. ASSUME ReadWake PROVE DataInv'
  <2>1. pc["rec"] = "rLockHw" /\ lock["hw"] = "free"
    BY <1>10 DEF ReadWake, AtDevice
  <2>2. CASE ReadOpen(audio)
    BY <1>a, <2>1, <2>2, ReadOpenStep
  <2>3. CASE Goto("rec", "rLockOut") /\ audio' = audio /\ cont' = cont
    BY <1>a, <2>1, <2>3
  <2>4. QED
    BY <1>10, <2>2, <2>3 DEF ReadWake
<1>11. ASSUME ReadLockOut PROVE DataInv'
  BY <1>a, <1>11 DEF ReadLockOut, Acquire
<1>12. ASSUME ReadRelockIn PROVE DataInv'
  BY <1>a, <1>12 DEF ReadRelockIn, Acquire
<1>13. ASSUME ReadRelockHw PROVE DataInv'
  <2>1. /\ pc["rec"] = "rRelockHw" /\ lock["hw"] = "free"
    BY <1>13 DEF ReadRelockHw, AtDevice
  <2>2. pc["play"] \notin Waking
    <3>1. lock["out"] # "play"
      BY <1>a, <2>1 DEF ReleaseRule, WithOut
    <3>2. QED
      BY <1>a, <3>1, OutAlone
  <2>3. CASE audio.out.state = "open"
    <3>1. PICK b \in RestartOut(audio) : \E g \in WithEcho(b) : ReadOpen(g)
      BY <1>13, <2>3 DEF ReadRelockHw
    <3>2. audio.out.pcm = ~audio.out.standby /\ audio.chip.wake = ~audio.out.standby
      BY <1>a, <2>2 DEF Audio, Out
    <3>3. /\ b \in Audio /\ Keeps(audio, b) /\ Counts(b)
          /\ b.in = audio.in
          /\ b.out.pcm = ~b.out.standby /\ (b.out.mixer => b.out.pcm)
          /\ b.chip.wake = ~b.out.standby
          /\ audio.out.standby => b.out.standby
      BY <1>a, <3>2, RestartOutFacts
    <3>4. PICK c \in WithEcho(b) : ReadOpen(c)
      BY <3>1
    <3>5. Alike(b, c)
      BY <3>3, <3>4, GetEchoAlike DEF WithEcho, Alike, KeepsCall
    <3>6. /\ c \in Audio /\ Counts(c) /\ KeepsCall(audio, c)
          /\ ReadOpen(c) /\ c.in.standby /\ ~c.in.mixer
      BY <1>a, <2>1, <3>1, <3>3, <3>4, <3>5, AlikeCounts DEF Alike, Keeps, KeepsCall
    <3>7. /\ c.out.pcm = ~c.out.standby /\ (c.out.mixer => c.out.pcm)
          /\ audio.out.standby => c.out.standby
      BY <3>3, <3>5 DEF Alike
    <3>8. c.chip.wake = (~c.out.standby \/ pc["play"] \in Waking)
      BY <2>2, <3>3, <3>5, <3>6 DEF Alike, Audio, Chip
    <3>9. QED
      BY <2>1, <3>6, <3>7, <3>8, ReadOpenStep
  <2>4. CASE ReadOpen(audio)
    BY <1>a, <2>1, <2>4, ReadOpenStep
  <2>5. CASE Goto("rec", "oLock") /\ audio' = audio /\ cont' = cont
    BY <1>a, <2>1, <2>5
  <2>6. QED
    BY <1>13, <2>3, <2>4, <2>5 DEF ReadRelockHw
<1>14. ASSUME ReadData PROVE DataInv'
  BY <1>a, <1>14 DEF ReadData, Return
<1>15. ASSUME CallInStandby PROVE DataInv'
  BY <1>a, <1>15 DEF CallInStandby, StartLocked, Start
<1>16. ASSUME CallInSetParameters PROVE DataInv'
  BY <1>a, <1>16 DEF CallInSetParameters, StartLocked, Start
<1>17. ASSUME InSetSource PROVE DataInv'
  <2>1. PICK a \in OpenMixer(audio, DriverFaults) : audio' = CloseMixer(a)
    BY <1>17 DEF InSetSource
  <2>2. /\ a \in Audio /\ Keeps(audio, a)
        /\ a.out = audio.out /\ a.in = audio.in /\ a.chip = audio.chip
        /\ \/ a.hw.mixerCnt = audio.hw.mixerCnt + 1
           \/ a = audio /\ audio.hw.mixerCnt = 0
        /\ a.hw.pcmCnt = audio.hw.pcmCnt
    BY <1>a, <2>1, AudioAssumption, OpenMixerFacts DEF OpenMixer, Faulty
  <2>3. /\ audio' \in Audio /\ Keeps(a, audio')
        /\ audio'.out = a.out /\ audio'.in = a.in /\ audio'.chip = a.chip
        /\ audio'.hw.mixerCnt = (IF a.hw.mixerCnt = 0 THEN 0 ELSE a.hw.mixerCnt - 1)
        /\ audio'.hw.pcmCnt = a.hw.pcmCnt
    BY <2>1, <2>2, CloseMixerFacts
  <2>4. audio'.hw.mixerCnt = audio.hw.mixerCnt
    BY <1>a, <2>2, <2>3 DEF Audio, Hw
  <2>5. Alike(audio, audio')
    BY <2>2, <2>3, <2>4 DEF Alike, Keeps, KeepsCall
  <2>6. /\ pc["rec"] = "qLockHw" /\ pc' = [pc EXCEPT !["rec"] = "qRouteHw"]
        /\ cont' = cont
    BY <1>17 DEF InSetSource, AtDevice
  <2>7. QED
    BY <1>a, <2>5, <2>6, AlikeCounts DEF Alike, KeepsCall
<1>18. ASSUME InSetRouting PROVE DataInv'
  <2>1. pc["rec"] \in {"qLockHw", "qRouteHw"} /\ lock["hw"] = "free"
    BY <1>18 DEF InSetRouting, AtDevice
  <2>2. CASE DoStandbyIn("rec", audio, "iUnlock")
    BY <1>a, <2>1, <2>2, InputStandbyStep
  <2>3. CASE Return("rec") /\ audio' = audio /\ cont' = cont
    BY <1>a, <2>1, <2>3 DEF Return
  <2>4. QED
    BY <1>18, <2>2, <2>3 DEF InSetRouting
<1>19. ASSUME NEW md \in ClientModes, CallSetMode(md) PROVE DataInv'
  <2>1. pc["ctl"] = "idle" /\ ModeLookOut
    BY <1>19 DEF CallSetMode, AtDevice
  <2>2. QED
    BY <1>a, <2>1, ModeLookStep
<1>20. ASSUME ModeLockOut PROVE DataInv'
  BY <1>a, <1>20 DEF ModeLockOut, Acquire
<1>21. ASSUME ModeRelockHw PROVE DataInv'
  <2>1. pc["ctl"] = "mRelockHw" /\ (ModeLookOut \/ \E S : ModeLookIn(S))
    BY <1>21 DEF ModeRelockHw, AtDevice
  <2>2. QED
    BY <1>a, <2>1, ModeLookStep
<1>22. ASSUME ModeLockIn PROVE DataInv'
  BY <1>a, <1>22 DEF ModeLockIn, Acquire
<1>23. ASSUME ModeRelockHwIn PROVE DataInv'
  <2>1. pc["ctl"] = "mRelockHwIn"
    BY <1>23 DEF ModeRelockHwIn, AtDevice
  <2>2. CASE \E S : ModeLookIn(S)
    BY <1>a, <2>1, <2>2, ModeLookStep
  <2>3. CASE Goto("ctl", "mSet") /\ audio' = audio /\ cont' = cont
    BY <1>a, <2>1, <2>3
  <2>4. QED
    BY <1>23, <2>2, <2>3 DEF ModeRelockHwIn
<1>24. ASSUME ModeSet PROVE DataInv'
  <2>1. pc["ctl"] = "mSet" /\ lock["hw"] = "ctl" /\ call["ctl"] \in Modes
    BY <1>a, <1>24 DEF ModeSet, ReleaseRule, WithHw, ModePCs
  <2>2. /\ audio.hw.callPcm = audio.hw.inCall
        /\ audio.hw.callMixer = audio.hw.callPcm
    BY <1>a, <2>1 DEF Audio, Hw
  <2>3. /\ Counts(audio')
        /\ audio'.in.state = audio.in.state /\ audio'.out.state = audio.out.state
        /\ audio'.hw.inCall = audio.hw.inCall
        /\ \/ audio'.in.mixer = audio.in.mixer /\ audio'.in.standby = audio.in.standby
           \/ ~audio'.in.mixer /\ audio'.in.standby
        /\ \/ audio'.out = audio.out /\ audio'.chip.wake = audio.chip.wake
           \/ /\ OutLocked
              /\ ~audio'.out.pcm /\ ~audio'.out.mixer /\ audio'.out.standby
              /\ audio'.chip.wake = (audio.out.standby /\ audio.chip.wake)
    BY <1>a, <1>24, <2>1, <2>2, ModeSetFacts
  <2>4. PICK q \in {"mEnter", "mLeave", "mUnlock"} :
          /\ \/ Goto("ctl", q) /\ cont' = cont
             \/ /\ Goto("ctl", "sLockOut") /\ cont' = [cont EXCEPT !["ctl"] = q]
                /\ q # "mUnlock"
          /\ q = "mEnter" => ~audio.hw.inCall
          /\ q = "mLeave" => audio.hw.inCall
          /\ audio'.hw.callPcm = (audio.hw.callPcm /\ q # "mLeave")
          /\ audio'.hw.callMixer = (audio.hw.callMixer /\ q # "mLeave")
    BY <1>a, <1>24, <2>1, <2>2, ModeSetFacts
  <2>5. /\ pc'["ctl"] \in {"sLockOut", "mEnter", "mLeave", "mUnlock"}
        /\ pc' = [pc EXCEPT !["ctl"] = pc'["ctl"]]
    BY <1>a, <2>4
  <2>6. CallInv'
    <3>1. \A p \in {"mEnter", "mLeave"} : CtlAt(p)' <=> p = q
      BY <1>a, <2>4
    <3>2. QED
      BY <1>b, <2>2, <2>3, <2>4, <3>1 DEF Audio, Hw
  <2>7. \A t \in Threads : pc'[t] # "iUnlock"
    BY <1>a, <2>1, <2>5 DEF ReleaseRule, WithHw
  <2>8. /\ audio'.in.standby => ~audio'.in.mixer
        /\ audio.in.standby => audio'.in.standby
    BY <1>a, <2>3
  <2>9. CASE audio'.out = audio.out /\ audio'.chip.wake = audio.chip.wake
    <3>1. StandbyInv' /\ WakeInv'
      BY <1>a, <2>3, <2>5, <2>7, <2>8, <2>9
    <3>2. QED
      BY <2>3, <2>6, <3>1
  <2>10. CASE /\ OutLocked
              /\ ~audio'.out.pcm /\ ~audio'.out.mixer /\ audio'.out.standby
              /\ audio'.chip.wake = (audio.out.standby /\ audio.chip.wake)
    <3>1. pc["play"] \notin {"wLockHw"} \cup Waking
      BY <1>a, <2>10, OutAlone DEF OutLocked
    <3>2. audio'.chip.wake = FALSE
      BY <1>a, <2>10, <3>1 DEF Audio, Out, Chip
    <3>3. StandbyInv'
      BY <1>a, <2>3, <2>5, <2>7, <2>8, <2>10, <3>1
    <3>4. WakeInv'
      BY <1>a, <2>5, <2>10, <3>1, <3>2
    <3>5. QED
      BY <2>3, <2>6, <3>3, <3>4
  <2>11. QED
    BY <2>3, <2>9, <2>10
<1>25. ASSUME ModeEnter PROVE DataInv'
  <2>1. /\ pc["ctl"] = "mEnter" /\ audio' \in TakeCall(audio)
        /\ pc' = [pc EXCEPT !["ctl"] = "mUnlock"]
    BY <1>25 DEF ModeEnter
  <2>2. audio.hw.callPcm = FALSE /\ audio.hw.callMixer = FALSE
    BY <1>a, <2>1 DEF Audio, Hw
  <2>3. /\ Counts(audio')
        /\ audio'.out = audio.out /\ audio'.in = audio.in
        /\ audio'.chip = audio.chip
        /\ audio'.hw.inCall = TRUE /\ audio'.hw.callPcm = TRUE
        /\ audio'.hw.callMixer = TRUE
    BY <1>a, <2>1, <2>2, TakeCallFacts
  <2>4. QED
    BY <1>a, <2>1, <2>3
<1>26. ASSUME ModeLeave PROVE DataInv'
  <2>1. /\ pc["ctl"] = "mLeave"
        /\ pc' = [pc EXCEPT !["ctl"] = "mUnlock"]
    BY <1>26 DEF ModeLeave
  <2>2. /\ audio'.out = audio.out /\ audio'.in = audio.in
        /\ audio'.chip = audio.chip
        /\ audio'.hw.inCall = FALSE /\ audio'.hw.callPcm = audio.hw.callPcm
        /\ audio'.hw.callMixer = audio.hw.callMixer
        /\ audio'.hw.pcmCnt = audio.hw.pcmCnt
        /\ audio'.hw.mixerCnt = audio.hw.mixerCnt
    BY <1>a, <1>26 DEF ModeLeave, Audio, Hw
  <2>3. Counts(audio')
    BY <1>a, <2>2 DEF Counts
  <2>4. QED
    BY <1>a, <2>1, <2>2, <2>3
<1>27. ASSUME ModeUnlock PROVE DataInv'
  BY <1>a, <1>27 DEF ModeUnlock, Return
<1>28. ASSUME SetMicMute PROVE DataInv'
  <2>1. Alike(audio, audio') /\ pc["ctl"] = "idle" /\ cont' = cont
    BY <1>a, <1>28 DEF SetMicMute, AtDevice, Alike, KeepsCall, Audio, Hw
  <2>2. pc' = pc \/ pc' = [pc EXCEPT !["ctl"] = "iLock"]
    BY <1>28 DEF SetMicMute, Start
  <2>3. QED
    BY <1>a, <2>1, <2>2, AlikeCounts DEF Alike, KeepsCall
<1>29. ASSUME SetNeedEcho PROVE DataInv'
  <2>1. Alike(audio, audio') /\ pc["ctl"] = "idle" /\ cont' = cont
    BY <1>a, <1>29 DEF SetNeedEcho, Start, Alike, KeepsCall, Audio, In
  <2>2. pc' = [pc EXCEPT !["ctl"] = "iLock"]
    BY <1>29 DEF SetNeedEcho, Start
  <2>3. QED
    BY <1>a, <2>1, <2>2, AlikeCounts DEF Alike, KeepsCall
<1>30. ASSUME OpenOutputStream PROVE DataInv'
  <2>1. PICK d \in Devices :
          audio' = [audio EXCEPT !.out = [NewOut(d) EXCEPT !.state = "open"]]
    BY <1>30 DEF OpenOutputStream
  <2>2. PICK o : o = [NewOut(d) EXCEPT !.state = "open"]
    OBVIOUS
  <2>3. /\ o.state = "open" /\ o.standby = TRUE /\ o.pcm = FALSE
        /\ o.mixer = FALSE
    BY <2>2 DEF NewOut
  <2>4. /\ audio'.out = o /\ audio'.in = audio.in
        /\ audio'.hw = audio.hw /\ audio'.chip = audio.chip
    BY <1>a, <2>1, <2>2 DEF Audio
  <2>5. /\ audio.out.state = "none" /\ pc' = pc /\ cont' = cont
    BY <1>30 DEF OpenOutputStream
  <2>6. /\ audio.out.standby = TRUE /\ audio.out.pcm = FALSE
        /\ audio.out.mixer = FALSE /\ pc["play"] = "idle"
    BY <1>a, <2>5 DEF Audio, Out
  <2>7. Counts(audio')
    BY <1>a, <2>3, <2>4, <2>6 DEF Counts
  <2>8. QED
    BY <1>a, <2>3, <2>4, <2>5, <2>6, <2>7
<1>31. ASSUME OpenInputStream PROVE DataInv'
  <2>1. PICK i : i = [NewIn EXCEPT !.state = "open"]
    OBVIOUS
  <2>2. i.state = "open" /\ i.standby = TRUE /\ i.mixer = FALSE
    BY <2>1 DEF NewIn
  <2>3. /\ audio'.in = i /\ audio'.out = audio.out
        /\ audio'.hw = audio.hw /\ audio'.chip = audio.chip
    BY <1>a, <1>31, <2>1, <2>2 DEF OpenInputStream, Audio
  <2>4. /\ audio.in.state = "none" /\ pc' = pc /\ cont' = cont
    BY <1>31 DEF OpenInputStream
  <2>5. audio.in.mixer = FALSE
    BY <1>a, <2>4 DEF Audio, In
  <2>6. Counts(audio')
    BY <1>a, <2>2, <2>3, <2>5 DEF Counts
  <2>7. QED
    BY <1>a, <2>2, <2>3, <2>4, <2>6
<1>32. ASSUME CloseOutputStream PROVE DataInv'
  <2>1. /\ audio'.out.state = "closed" /\ audio'.in = audio.in
        /\ audio'.out.standby = audio.out.standby /\ audio'.out.pcm = audio.out.pcm
        /\ audio'.out.mixer = audio.out.mixer
        /\ audio'.hw = audio.hw /\ audio'.chip = audio.chip
    BY <1>a, <1>32 DEF CloseOutputStream, Audio, Out
  <2>2. /\ pc["ctl"] = "idle" /\ pc["play"] = "idle" /\ cont' = cont
        /\ \E q \in {"iLock", "cDrop"} : pc' = [pc EXCEPT !["ctl"] = q]
    BY <1>32 DEF CloseOutputStream, AtDevice, Start
  <2>3. Counts(audio')
    BY <1>a, <2>1 DEF Counts
  <2>4. QED
    BY <1>a, <2>1, <2>2, <2>3
<1>33. ASSUME DropOutput PROVE DataInv'
  BY <1>a, <1>33 DEF DropOutput, Return
<1>34. ASSUME CloseInputStream PROVE DataInv'
  <2>1. /\ audio'.in.state = "closed" /\ audio'.out = audio.out
        /\ audio'.in.standby = audio.in.standby
        /\ audio'.in.mixer = audio.in.mixer
        /\ audio'.hw = audio.hw /\ audio'.chip = audio.chip
    BY <1>a, <1>34 DEF CloseInputStream, Audio, In
  <2>2. /\ pc["ctl"] = "idle" /\ cont' = cont
        /\ pc' = pc \/ pc' = [pc EXCEPT !["ctl"] = "iLock"]
    BY <1>34 DEF CloseInputStream, AtDevice, Start
  <2>3. Counts(audio')
    BY <1>a, <2>1 DEF Counts
  <2>4. QED
    BY <1>a, <2>1, <2>2, <2>3
<1>35. ASSUME NEW t \in Threads, OutStandbyLock(t) PROVE DataInv'
  BY <1>a, <1>35 DEF OutStandbyLock, Acquire
<1>36. ASSUME NEW t \in Threads, OutStandby(t) PROVE DataInv'
  <2>1. PICK b : b = StandbyOut(audio)
    OBVIOUS
  <2>2. /\ b \in Audio /\ Keeps(audio, b) /\ Counts(b)
        /\ ~b.out.pcm /\ ~b.out.mixer /\ b.out.standby
        /\ b.in = audio.in
        /\ b.chip.wake = (audio.out.standby /\ audio.chip.wake)
    BY <1>a, <2>1, StandbyOutFacts
  <2>3. /\ pc[t] = "oLockHw" /\ pc' = [pc EXCEPT ![t] = "idle"] /\ cont' = cont
        /\ audio' = IF call[t] = "closeOutput"
                      THEN [b EXCEPT !.out = NewOut(b.out.device)] ELSE b
    BY <1>36, <2>1 DEF OutStandby, AtDevice, Return
  <2>4. pc["play"] \notin {"wLockHw"} \cup Waking
    <3>1. lock["out"] = t
      BY <1>a, <2>3 DEF ReleaseRule, WithOut
    <3>2. QED
      BY <1>a, <2>3, <3>1, OutAlone
  <2>5. /\ b.out.pcm = FALSE
        /\ b.out.mixer = FALSE
        /\ b.out.standby = TRUE
        /\ b.chip.wake = FALSE
    BY <1>a, <2>2, <2>4 DEF Audio, Out, Chip
  <2>6. /\ audio'.in = b.in /\ audio'.hw = b.hw
        /\ audio'.chip = b.chip /\ audio'.out.pcm = FALSE
        /\ audio'.out.mixer = FALSE /\ audio'.out.standby = TRUE
        /\ call[t] # "closeOutput" => audio'.out.state = audio.out.state
    BY <2>2, <2>3, <2>5 DEF Audio, NewOut, Keeps
  <2>7. Counts(audio')
    BY <2>2, <2>5, <2>6 DEF Counts
  <2>8. call[t] = "closeOutput" => pc'["play"] = "idle"
    BY <1>a, <2>3 DEF ReleaseRule, ReleaseInv
  <2>9. StandbyInv'
    BY <1>a, <2>2, <2>3, <2>4, <2>6, <2>8 DEF Keeps
  <2>10. CallInv'
    BY <1>a, <2>2, <2>3, <2>6 DEF Keeps
  <2>11. WakeInv'
    BY <1>a, <2>3, <2>4, <2>5, <2>6
  <2>12. QED
    BY <2>7, <2>9, <2>10, <2>11
<1>37. ASSUME NEW t \in Threads, InStandbyLock(t) PROVE DataInv'
  BY <1>a, <1>37 DEF InStandbyLock, Acquire
<1>38. ASSUME NEW t \in Threads, InStandby(t) PROVE DataInv'
  <2>1. /\ DoStandbyIn(t, audio, "iUnlock") /\ pc[t] = "iLockHw"
        /\ lock["hw"] = "free"
    BY <1>38 DEF InStandby, AtDevice
  <2>2. t # "play"
    BY <1>a, <2>1 DEF ReleaseRule, WithHw
  <2>3. QED
    BY <1>a, <2>1, <2>2, InputStandbyStep
<1>39. ASSUME NEW t \in Threads, InStandbyEnd(t) PROVE DataInv'
  <2>1. /\ pc[t] = "iUnlock" /\ cont' = cont
        /\ audio' = IF call[t] = "closeInput" THEN [audio EXCEPT !.in = NewIn] ELSE audio
        /\ \E q \in {"cDrop", "idle"} : pc' = [pc EXCEPT ![t] = q]
    BY <1>39 DEF InStandbyEnd, Return
  <2>2. t # "play"
    BY <1>a, <2>1 DEF ReleaseRule
  <2>3. audio.in.standby = TRUE /\ audio.in.mixer = FALSE
    BY <1>a, <2>1 DEF Audio, In
  <2>4. /\ audio'.out = audio.out /\ audio'.hw = audio.hw /\ audio'.chip = audio.chip
        /\ audio'.in.standby = TRUE /\ audio'.in.mixer = FALSE
    BY <1>a, <2>1, <2>3 DEF Audio, NewIn
  <2>5. Counts(audio')
    BY <1>a, <2>3, <2>4 DEF Counts
  <2>6. QED
    BY <1>a, <2>1, <2>2, <2>3, <2>4, <2>5
<1>40. ASSUME NEW t \in Threads, StandbyLockOut(t) PROVE DataInv'
  <2>1. /\ pc[t] = "sLockOut" /\ pc' = [pc EXCEPT ![t] = "sLockIn"]
        /\ lock["out"] = "free" /\ audio' = audio /\ cont' = cont
    BY <1>40 DEF StandbyLockOut, Acquire
  <2>2. t # "play"
    BY <1>a, <2>1 DEF ReleaseRule, WithOut
  <2>3. QED
    BY <1>a, <2>1, <2>2
<1>41. ASSUME NEW t \in Threads, StandbyLockIn(t) PROVE DataInv'
  BY <1>a, <1>41 DEF StandbyLockIn, Acquire
<1>42. ASSUME NEW t \in Threads, StandbyRelockHw(t) PROVE DataInv'
  <2>1. PICK a : a = IF audio.in.echo THEN ReleaseEcho(audio) ELSE audio
    OBVIOUS
  <2>2. Alike(audio, a) /\ a.out.state = audio.out.state
    BY <1>a, <2>1 DEF ReleaseEcho, Alike, KeepsCall, Audio, Out, Hw
  <2>3. /\ pc[t] = "sRelockHw" /\ lock["hw"] = "free" /\ cont' = cont
        /\ \/ /\ audio' = a /\ Goto(t, "oLock") /\ a.out.state = "closed"
           \/ /\ audio' = StandbyIn([a EXCEPT !.in.echo = FALSE])
              /\ Goto(t, cont[t])
    BY <1>42, <2>1 DEF StandbyRelockHw, AtDevice
  <2>4. /\ t # "play"
        /\ t = "rec" => cont[t] = "iUnlock"
        /\ t = "ctl" => cont[t] \in {"iUnlock", "mEnter", "mLeave"}
        /\ t = "ctl" => audio.out.state = "open"
    BY <1>a, <2>3 DEF ReleaseRule, ReleaseInv
  <2>5. CASE audio' = a /\ Goto(t, "oLock") /\ a.out.state = "closed"
    <3>1. t = "rec"
      BY <2>2, <2>4, <2>5
    <3>2. QED
      BY <1>a, <2>2, <2>3, <2>5, <3>1, AlikeCounts DEF Alike, KeepsCall
  <2>6. CASE audio' = StandbyIn([a EXCEPT !.in.echo = FALSE]) /\ Goto(t, cont[t])
    <3>1. PICK c : c = [a EXCEPT !.in.echo = FALSE]
      OBVIOUS
    <3>2. Alike(a, c) /\ c.out = a.out /\ c.chip = a.chip
      BY <2>2, <3>1 DEF Alike, KeepsCall, Audio, In
    <3>3. c \in Audio /\ Counts(c)
      BY <1>a, <2>2, <3>2, AlikeCounts DEF Alike
    <3>4. /\ KeepsCall(c, audio') /\ Counts(audio')
          /\ ~audio'.in.mixer /\ audio'.in.standby
          /\ audio'.out = c.out /\ audio'.chip = c.chip
      BY <2>6, <3>1, <3>3, StandbyInFacts
    <3>5. KeepsCall(audio, audio')
      BY <2>2, <3>2, <3>4 DEF Alike, KeepsCall
    <3>6. StandbyInv'
      BY <1>a, <2>2, <2>4, <2>6, <3>2, <3>4, <3>5 DEF Alike, KeepsCall
    <3>7. WakeInv'
      BY <1>a, <2>2, <2>4, <2>6, <3>2, <3>4 DEF Alike
    <3>8. CallInv'
      <4>1. CASE t = "rec"
        BY <1>a, <2>3, <2>6, <3>5, <4>1, CallKept
      <4>2. CASE t = "ctl"
        <5>1. \A p \in {"mEnter", "mLeave"} : CtlAt(p)' <=> CtlAt(p)
          BY <1>a, <2>3, <2>4, <2>6, <4>2
        <5>2. QED
          BY <1>a, <3>5, <5>1 DEF KeepsCall
      <4>3. QED
        BY <2>4, <4>1, <4>2
    <3>9. QED
      BY <3>4, <3>6, <3>7, <3>8
  <2>7. QED
    BY <2>3, <2>5, <2>6
<1>43. CASE UNCHANGED vars
  BY <1>a, <1>43 DEF vars
<1>44. QED
  BY
    <1>1, <1>2, <1>3, <1>4, <1>5, <1>6, <1>7, <1>8, <1>9, <1>10, <1>11,
    <1>12, <1>13, <1>14, <1>15, <1>16, <1>17, <1>18, <1>19, <1>20, <1>21,
    <1>22, <1>23, <1>24, <1>25, <1>26, <1>27, <1>28, <1>29, <1>30, <1>31,
    <1>32, <1>33, <1>34, <1>35, <1>36, <1>37, <1>38, <1>39, <1>40, <1>41,
    <1>42, <1>43
  DEF Next, PlaySteps, RecSteps, CtlSteps, StandbySteps

\* The shares are right at first.
LEMMA SharesInit == Init => SharesInv
<1> SUFFICES ASSUME Init PROVE SharesInv
  OBVIOUS
<1>1. PICK d \in Devices :
        audio = [out |-> NewOut(d), in |-> NewIn,
                 hw |-> [mode |-> "NORMAL", inCall |-> FALSE, pcmCnt |-> 0,
                         mixerCnt |-> 0, mute |-> FALSE, echo |-> FALSE,
                         callPcm |-> FALSE, callMixer |-> FALSE, late |-> FALSE],
                 chip |-> [play |-> d, mic |-> TRUE, wake |-> FALSE]]
  BY DEF Init
<1>2. /\ audio.out = NewOut(d) /\ audio.in = NewIn /\ audio.chip.wake = FALSE
      /\ audio.hw.inCall = FALSE /\ audio.hw.callPcm = FALSE
      /\ audio.hw.callMixer = FALSE /\ audio.hw.pcmCnt = 0 /\ audio.hw.mixerCnt = 0
  BY <1>1
<1>3. Counts(audio)
  BY <1>2 DEF Counts, One, NewOut, NewIn
<1>4. /\ pc["play"] = "idle" /\ pc["rec"] = "idle" /\ pc["ctl"] = "idle"
      /\ \A t \in Threads : pc[t] = "idle"
  BY DEF Init, Threads
<1>5. /\ audio.out.standby = TRUE /\ audio.out.pcm = FALSE /\ audio.out.mixer = FALSE
      /\ audio.in.standby = TRUE /\ audio.in.mixer = FALSE
  BY <1>2 DEF NewOut, NewIn
<1>6. StandbyInv
  BY <1>4, <1>5 DEF StandbyInv, Waking
<1>7. CallInv /\ WakeInv
  BY <1>2, <1>4, <1>5 DEF CallInv, WakeInv, CtlAt, Releasing, Waking
<1>8. QED
  BY <1>3, <1>6, <1>7, EchoInit DEF SharesInv, DataInv

\* They are right in every state the component can reach, if opening the device
\* for a call does not fail.
THEOREM SharesInvariant == ASSUME ~CallFaults PROVE Spec => []SharesInv
<1>1. SharesInv /\ [Next]_vars => SharesInv'
  BY EchoStep, SharesStep DEF SharesInv
<1>2. QED
  BY <1>1, SharesInit, PTL DEF Spec

\* The counts of users are right: the playback PCM and the mixer are closed with
\* their last user and not before.
THEOREM RefCountsHolds == ASSUME ~CallFaults PROVE Spec => []RefCounts
<1>1. SharesInv => RefCounts
  BY DEF SharesInv, DataInv, Counts, RefCounts
<1>2. QED
  BY <1>1, SharesInvariant, PTL

\* write() has an open PCM, whatever read() and setMode() do to it meanwhile.
THEOREM PlaybackLiveHolds == ASSUME ~CallFaults PROVE Spec => []PlaybackLive
<1>1. SharesInv => PlaybackLive
  <2> SUFFICES ASSUME SharesInv, ActiveOut(audio)
               PROVE  audio.out.pcm /\ audio.hw.pcmCnt > 0
    BY DEF PlaybackLive
  <2>1. audio.out.pcm
    BY DEF SharesInv, DataInv, StandbyInv, ActiveOut
  <2>2. audio.hw.callPcm \in BOOLEAN
    BY DEF SharesInv, EchoInv, ReleaseInv, Audio, Hw
  <2>3. QED
    BY <2>1, <2>2 DEF SharesInv, DataInv, Counts, One
<1>2. QED
  BY <1>1, SharesInvariant, PTL

\* The wake lock is held exactly while the output is active.
THEOREM WakeBalancedHolds == ASSUME ~CallFaults PROVE Spec => []WakeBalanced
<1>1. SharesInv => WakeBalanced
  <2> SUFFICES ASSUME SharesInv, lock["out"] = "free"
               PROVE  audio.chip.wake = ~audio.out.standby
    BY DEF WakeBalanced
  <2>1. pc["play"] \notin Waking
    BY OutAlone DEF SharesInv, EchoInv
  <2>2. QED
    BY <2>1 DEF SharesInv, EchoInv, ReleaseInv, DataInv, WakeInv, Audio, Out
<1>2. QED
  BY <1>1, SharesInvariant, PTL

-----------------------------------------------------------------------------
(* The mutexes.                                                              *)

\* The mutexes that a thread at p has for certain, and those it may have.
Has(p) ==
  CASE p \in {"wLockHw", "wLockIn", "wWrite", "oLockHw", "pLockHw", "rRelockIn",
              "mRelockHw"} -> {"out"}
    [] p \in {"wRelockHw", "rRelockHw"} -> {"out", "in"}
    [] p \in {"rLockHw", "rRead", "iLockHw", "qLockHw", "qRouteHw",
              "mRelockHwIn"} -> {"in"}
    [] p = "iUnlock" -> {"in", "hw"}
    [] p \in {"mSet", "mEnter", "mLeave", "mUnlock"} -> {"hw"}
    [] OTHER -> {}
MayHave(p) ==
  Has(p) \cup (CASE p \in {"mLockIn", "mRelockHwIn"} -> {"out"}
                 [] p \in {"mSet", "mEnter", "mLeave", "mUnlock"} -> {"out", "in"}
                 [] OTHER -> {})

\* Where each thread can be, as long as no input has an echo reference.
PlayPCs == {"idle", "wLockHw", "wLockIn", "wRelockHw", "wWrite",
            "oLock", "oLockHw", "pLockHw"}
RecPCs == {"idle", "rLockHw", "rLockOut", "rRelockIn", "rRelockHw", "rRead",
           "iLock", "iLockHw", "iUnlock", "qLockHw", "qRouteHw"}
CtlPCs == {"idle", "oLock", "oLockHw", "iLock", "iLockHw", "iUnlock", "cDrop",
           "mEnter", "mLeave", "mUnlock"} \cup ModePCs

LockInv ==
  /\ \A t \in Threads : \A l \in Locks :
       /\ l \in Has(pc[t]) => lock[l] = t
       /\ lock[l] = t => l \in MayHave(pc[t])
  /\ pc["play"] \in PlayPCs /\ pc["rec"] \in RecPCs /\ pc["ctl"] \in CtlPCs

\* A stream another thread is about to use is there.
StreamInv ==
  /\ pc["rec"] \in {"rLockOut", "rRelockIn", "rRelockHw"} => audio.out.state = "open"
  /\ pc["play"] \in {"wLockIn", "wRelockHw"} => audio.in.state = "open"

AudioInv == SharesInv /\ LockInv /\ StreamInv

\* Has and MayHave as a table.
LEMMA HasFacts ==
  /\ \A p \in {"idle", "oLock", "iLock", "rLockOut", "mLockOut", "cDrop"} :
       Has(p) = {} /\ MayHave(p) = {}
  /\ \A p \in {"wLockHw", "wLockIn", "wWrite", "oLockHw", "pLockHw", "rRelockIn",
               "mRelockHw"} : Has(p) = {"out"} /\ MayHave(p) = {"out"}
  /\ \A p \in {"wRelockHw", "rRelockHw"} :
       Has(p) = {"out", "in"} /\ MayHave(p) = {"out", "in"}
  /\ \A p \in {"rLockHw", "rRead", "iLockHw", "qLockHw", "qRouteHw"} :
       Has(p) = {"in"} /\ MayHave(p) = {"in"}
  /\ Has("mLockIn") = {} /\ MayHave("mLockIn") = {"out"}
  /\ Has("mRelockHwIn") = {"in"} /\ MayHave("mRelockHwIn") = {"out", "in"}
  /\ Has("iUnlock") = {"in", "hw"} /\ MayHave("iUnlock") = {"in", "hw"}
  /\ \A p \in {"mSet", "mEnter", "mLeave", "mUnlock"} :
       Has(p) = {"hw"} /\ MayHave(p) = {"out", "in", "hw"}
BY DEF Has, MayHave

\* What every step of t does about the mutexes: it takes free ones, gives up its
\* own, and ends where it is to have just those.
LockRule(t) ==
  /\ pc' = [pc EXCEPT ![t] = pc'[t]]
  /\ \A l \in Locks : /\ l \in Has(pc'[t]) => lock'[l] = t
                      /\ lock'[l] = t => l \in MayHave(pc'[t])
                      /\ lock'[l] # lock[l] => /\ lock[l] \in {"free", t}
                                               /\ lock'[l] \in {"free", t}

\* A step that follows the rule leaves every thread with the mutexes it is to have.
LEMMA LockRuleKeeps ==
  ASSUME ControlOK, NEW t \in Threads, LockRule(t),
         \A u \in Threads : \A l \in Locks :
           /\ l \in Has(pc[u]) => lock[l] = u
           /\ lock[l] = u => l \in MayHave(pc[u])
  PROVE  \A u \in Threads : \A l \in Locks :
           /\ l \in Has(pc'[u]) => lock'[l] = u
           /\ lock'[l] = u => l \in MayHave(pc'[u])
<1> SUFFICES ASSUME NEW u \in Threads, NEW l \in Locks
             PROVE  /\ l \in Has(pc'[u]) => lock'[l] = u
                    /\ lock'[l] = u => l \in MayHave(pc'[u])
  OBVIOUS
<1>1. CASE u = t
  BY <1>1 DEF LockRule
<1>2. CASE u # t
  <2>1. pc'[u] = pc[u]
    BY <1>2 DEF LockRule, ControlOK
  <2>2. u # "free"
    BY DEF Threads
  <2>3. QED
    BY <1>2, <2>1, <2>2 DEF LockRule
<1>3. QED
  BY <1>1, <1>2

\* Where thread t is after its step.
InOwnPCs(t) ==
  /\ t = "play" => pc'[t] \in PlayPCs
  /\ t = "rec" => pc'[t] \in RecPCs
  /\ t = "ctl" => pc'[t] \in CtlPCs

\* Every step follows the rule, and every thread stays in its own calls.
LEMMA StepRule ==
  ASSUME QuietClose, ~EchoCancel, AudioInv, Next
  PROVE  \E t \in Threads : LockRule(t) /\ InOwnPCs(t)
<1> USE DEF AudioInv, SharesInv, EchoInv, ControlOK, DataInv, Threads, Locks, Goto, InOwnPCs
<1>0. \A t \in Threads : \A l \in Locks :
        /\ l \in Has(pc[t]) => lock[l] = t
        /\ lock[l] = t => l \in MayHave(pc[t])
  BY DEF LockInv
<1>a. ~audio.in.echo /\ audio \in Audio /\ Counts(audio)
  BY DEF ReleaseInv
<1>1. ASSUME CallWrite PROVE LockRule("play") /\ InOwnPCs("play")
  BY <1>0, <1>1, HasFacts DEF
  CallWrite, LockRule, PlayPCs, StartLocked, Start, LockInv
<1>2. ASSUME WriteWake PROVE LockRule("play") /\ InOwnPCs("play")
  BY <1>0, <1>2, HasFacts DEF
  WriteWake, LockRule, PlayPCs, AtDevice, WriteLookIn, WriteOpened, LockInv
<1>3. ASSUME WriteLockIn PROVE LockRule("play") /\ InOwnPCs("play")
  BY <1>0, <1>3, HasFacts DEF WriteLockIn, LockRule, PlayPCs, Acquire, LockInv
<1>4. ASSUME WriteRelockHw PROVE LockRule("play") /\ InOwnPCs("play")
  <2>1. /\ audio.in.state = "open" /\ ~audio.out.pcm /\ ~audio.out.mixer
        /\ pc["play"] = "wRelockHw" /\ lock["hw"] = "free"
    BY <1>4 DEF StreamInv, StandbyInv, Waking, AtDevice, WriteRelockHw
  <2>2. \A b \in ReopenBoth(audio) : ~b.in.echo
    BY <1>a, <2>1, ReopenBothFacts DEF Keeps
  <2>3. (\E b : WriteOpened(b)) \/ WriteLookIn(audio)
    BY <1>4, <2>1, <2>2 DEF WriteRelockHw
  <2>4. /\ pc' = [pc EXCEPT !["play"] = pc'["play"]]
        /\ \/ /\ lock' = [lock EXCEPT !["in"] = IF @ = "play" THEN "free" ELSE @,
                                   !["out"] = "free"]
              /\ pc'["play"] = "oLock"
           \/ /\ lock' = [lock EXCEPT !["in"] = IF @ = "play" THEN "free" ELSE @]
              /\ pc'["play"] \in {"wWrite", "wLockIn"}
    BY <2>3 DEF WriteLookIn, WriteOpened
  <2>5. QED
    BY <1>0, <2>1, <2>4, HasFacts DEF LockRule, PlayPCs
<1>5. ASSUME WriteData PROVE LockRule("play") /\ InOwnPCs("play")
  BY <1>0, <1>5, HasFacts DEF WriteData, LockRule, PlayPCs, Return, LockInv
<1>6. ASSUME CallOutStandby PROVE LockRule("play") /\ InOwnPCs("play")
  BY <1>0, <1>6, HasFacts DEF
  CallOutStandby, LockRule, PlayPCs, StartLocked, Start, LockInv
<1>7. ASSUME CallOutSetParameters PROVE LockRule("play") /\ InOwnPCs("play")
  BY <1>0, <1>7, HasFacts DEF
  CallOutSetParameters, LockRule, PlayPCs, StartLocked, Start, LockInv
<1>8. ASSUME OutSetParameters PROVE LockRule("play") /\ InOwnPCs("play")
  BY <1>0, <1>8, HasFacts DEF
  OutSetParameters, LockRule, PlayPCs, AtDevice, Return, LockInv
<1>9. ASSUME CallRead PROVE LockRule("rec") /\ InOwnPCs("rec")
  BY <1>0, <1>9, HasFacts DEF
  CallRead, LockRule, RecPCs, StartLocked, Start, LockInv
<1>10. ASSUME ReadWake PROVE LockRule("rec") /\ InOwnPCs("rec")
  BY <1>0, <1>10, HasFacts DEF
  ReadWake, LockRule, RecPCs, AtDevice, ReadOpen, LockInv
<1>11. ASSUME ReadLockOut PROVE LockRule("rec") /\ InOwnPCs("rec")
  BY <1>0, <1>11, HasFacts DEF ReadLockOut, LockRule, RecPCs, Acquire, LockInv
<1>12. ASSUME ReadRelockIn PROVE LockRule("rec") /\ InOwnPCs("rec")
  BY <1>0, <1>12, HasFacts DEF ReadRelockIn, LockRule, RecPCs, Acquire, LockInv
<1>13. ASSUME ReadRelockHw PROVE LockRule("rec") /\ InOwnPCs("rec")
  <2>1. audio.out.state = "open"
    BY <1>13 DEF StreamInv, AtDevice, ReadRelockHw
  <2>2. QED
    BY <1>0, <1>13, <2>1, HasFacts DEF ReadRelockHw, AtDevice, ReadOpen,
    LockRule, RecPCs, LockInv
<1>14. ASSUME ReadData PROVE LockRule("rec") /\ InOwnPCs("rec")
  BY <1>0, <1>14, HasFacts DEF ReadData, LockRule, RecPCs, Return, LockInv
<1>15. ASSUME CallInStandby PROVE LockRule("rec") /\ InOwnPCs("rec")
  BY <1>0, <1>15, HasFacts DEF
  CallInStandby, LockRule, RecPCs, StartLocked, Start, LockInv
<1>16. ASSUME CallInSetParameters PROVE LockRule("rec") /\ InOwnPCs("rec")
  BY <1>0, <1>16, HasFacts DEF
  CallInSetParameters, LockRule, RecPCs, StartLocked, Start, LockInv
<1>17. ASSUME InSetSource PROVE LockRule("rec") /\ InOwnPCs("rec")
  BY <1>0, <1>17, HasFacts DEF InSetSource, LockRule, RecPCs, AtDevice, LockInv
<1>18. ASSUME InSetRouting PROVE LockRule("rec") /\ InOwnPCs("rec")
  <2>1. CASE DoStandbyIn("rec", audio, "iUnlock")
    <3>1. /\ lock' = [lock EXCEPT !["in"] = "rec", !["hw"] = "rec"]
          /\ Goto("rec", "iUnlock")
      BY <1>a, <2>1, DoStandbyInFacts
    <3>2. QED
      BY <1>0, <1>18, <3>1, HasFacts DEF InSetRouting, AtDevice, LockRule, RecPCs,
      LockInv
  <2>2. CASE lock' = [lock EXCEPT !["in"] = "free"] /\ Return("rec")
    BY <1>0, <1>18, <2>2, HasFacts DEF InSetRouting, AtDevice, Return, LockRule,
    RecPCs, LockInv
  <2>3. QED
    BY <1>18, <2>1, <2>2 DEF InSetRouting
<1>19. ASSUME NEW md \in ClientModes, CallSetMode(md)
       PROVE  LockRule("ctl") /\ InOwnPCs("ctl")
  BY <1>0, <1>19, HasFacts DEF
  CallSetMode, LockRule, CtlPCs, ModePCs, AtDevice, ModeLookOut, ModeLookIn,
  ModeHolds, LockInv
<1>20. ASSUME ModeLockOut PROVE LockRule("ctl") /\ InOwnPCs("ctl")
  BY <1>0, <1>20, HasFacts DEF
  ModeLockOut, LockRule, CtlPCs, ModePCs, Acquire, LockInv
<1>21. ASSUME ModeRelockHw PROVE LockRule("ctl") /\ InOwnPCs("ctl")
  BY <1>0, <1>21, HasFacts DEF
  ModeRelockHw, LockRule, CtlPCs, ModePCs, AtDevice, ModeLookOut, ModeLookIn,
  ModeHolds, LockInv
<1>22. ASSUME ModeLockIn PROVE LockRule("ctl") /\ InOwnPCs("ctl")
  BY <1>0, <1>22, HasFacts DEF
  ModeLockIn, LockRule, CtlPCs, ModePCs, Acquire, LockInv
<1>23. ASSUME ModeRelockHwIn PROVE LockRule("ctl") /\ InOwnPCs("ctl")
  BY <1>0, <1>23, HasFacts DEF
  ModeRelockHwIn, LockRule, CtlPCs, ModePCs, AtDevice, ModeLookIn, ModeHolds,
  LockInv
<1>24. ASSUME ModeSet PROVE LockRule("ctl") /\ InOwnPCs("ctl")
  <2>1. pc["ctl"] = "mSet" /\ lock["hw"] = "ctl"
    BY <1>0, <1>24, HasFacts DEF ModeSet
  <2>2. lock' = lock /\ \E q \in {"mEnter", "mLeave", "mUnlock"} : Goto("ctl", q)
    <3>1. call["ctl"] \in Modes
      BY <2>1 DEF ReleaseRule, ModePCs
    <3>2. /\ audio.hw.callPcm = audio.hw.inCall
          /\ audio.hw.callMixer = audio.hw.callPcm
      BY <1>a, <2>1 DEF CallInv, CtlAt, Releasing, Audio, Hw
    <3>3. QED
      BY <1>a, <1>24, <2>1, <3>1, <3>2, ModeSetFacts
  <2>3. QED
    BY <1>0, <2>1, <2>2, HasFacts DEF LockRule, CtlPCs, LockInv
<1>25. ASSUME ModeEnter PROVE LockRule("ctl") /\ InOwnPCs("ctl")
  BY <1>0, <1>25, HasFacts DEF ModeEnter, LockRule, CtlPCs, ModePCs, LockInv
<1>26. ASSUME ModeLeave PROVE LockRule("ctl") /\ InOwnPCs("ctl")
  BY <1>0, <1>26, HasFacts DEF ModeLeave, LockRule, CtlPCs, ModePCs, LockInv
<1>27. ASSUME ModeUnlock PROVE LockRule("ctl") /\ InOwnPCs("ctl")
  BY <1>0, <1>27, HasFacts DEF
  ModeUnlock, LockRule, CtlPCs, ModePCs, Return, LockInv
<1>28. ASSUME SetMicMute PROVE LockRule("ctl") /\ InOwnPCs("ctl")
  BY <1>0, <1>28, HasFacts DEF
  SetMicMute, LockRule, CtlPCs, ModePCs, AtDevice, Start, LockInv
<1>29. ASSUME SetNeedEcho PROVE LockRule("ctl") /\ InOwnPCs("ctl")
  BY <1>0, <1>29, HasFacts DEF
  SetNeedEcho, LockRule, CtlPCs, ModePCs, Start, LockInv
<1>30. ASSUME OpenOutputStream PROVE LockRule("ctl") /\ InOwnPCs("ctl")
  BY <1>0, <1>30, HasFacts DEF
  OpenOutputStream, LockRule, CtlPCs, ModePCs, AtDevice, LockInv
<1>31. ASSUME OpenInputStream PROVE LockRule("ctl") /\ InOwnPCs("ctl")
  BY <1>0, <1>31, HasFacts DEF
  OpenInputStream, LockRule, CtlPCs, ModePCs, AtDevice, LockInv
<1>32. ASSUME CloseOutputStream PROVE LockRule("ctl") /\ InOwnPCs("ctl")
  BY <1>0, <1>32, HasFacts DEF
  CloseOutputStream, LockRule, CtlPCs, ModePCs, AtDevice, Start, LockInv
<1>33. ASSUME DropOutput PROVE LockRule("ctl") /\ InOwnPCs("ctl")
  BY <1>0, <1>33, HasFacts DEF
  DropOutput, LockRule, CtlPCs, ModePCs, Return, RefersToOut, LockInv
<1>34. ASSUME CloseInputStream PROVE LockRule("ctl") /\ InOwnPCs("ctl")
  BY <1>0, <1>34, HasFacts DEF
  CloseInputStream, LockRule, CtlPCs, ModePCs, AtDevice, Start, RefersToIn, LockInv
<1>35. ASSUME NEW t \in Threads, OutStandbyLock(t) PROVE LockRule(t) /\ InOwnPCs(t)
  BY <1>0, <1>35, HasFacts DEF
  OutStandbyLock, LockRule, PlayPCs, RecPCs, CtlPCs, ModePCs, Acquire, LockInv
<1>36. ASSUME NEW t \in Threads, OutStandby(t) PROVE LockRule(t) /\ InOwnPCs(t)
  <2>1. /\ pc[t] = "oLockHw" /\ lock["hw"] = "free"
        /\ pc' = [pc EXCEPT ![t] = "idle"]
        /\ lock' = [lock EXCEPT !["out"] = "free"]
    BY <1>36 DEF OutStandby, AtDevice, Return
  <2>2. LockRule(t)
    BY <1>0, <2>1, HasFacts DEF LockRule
  <2>3. InOwnPCs(t)
    BY <2>1 DEF PlayPCs, RecPCs, CtlPCs
  <2>4. QED
    BY <2>2, <2>3
<1>37. ASSUME NEW t \in Threads, InStandbyLock(t) PROVE LockRule(t) /\ InOwnPCs(t)
  BY <1>0, <1>37, HasFacts DEF
  InStandbyLock, LockRule, PlayPCs, RecPCs, CtlPCs, ModePCs, Acquire, LockInv
<1>38. ASSUME NEW t \in Threads, InStandby(t) PROVE LockRule(t) /\ InOwnPCs(t)
  <2>1. lock' = [lock EXCEPT !["in"] = t, !["hw"] = t] /\ Goto(t, "iUnlock")
    BY <1>a, <1>38, DoStandbyInFacts DEF InStandby
  <2>2. t # "play"
    BY <1>38 DEF InStandby, AtDevice, LockInv, PlayPCs
  <2>3. QED
    BY <1>0, <1>38, <2>1, <2>2, HasFacts DEF InStandby, AtDevice, LockRule, RecPCs,
    CtlPCs, LockInv
<1>39. ASSUME NEW t \in Threads, InStandbyEnd(t) PROVE LockRule(t) /\ InOwnPCs(t)
  <2>1. /\ pc[t] = "iUnlock"
        /\ lock' = [lock EXCEPT !["in"] = "free", !["hw"] = "free"]
        /\ \/ pc' = [pc EXCEPT ![t] = "idle"]
           \/ pc' = [pc EXCEPT ![t] = "cDrop"] /\ call[t] = "closeOutput"
    BY <1>39 DEF InStandbyEnd, Return
  <2>2. LockRule(t)
    BY <1>0, <2>1, HasFacts DEF LockRule
  <2>3. InOwnPCs(t)
    BY <2>1 DEF PlayPCs, RecPCs, CtlPCs, ReleaseRule
  <2>4. QED
    BY <2>2, <2>3
<1>40. ASSUME NEW t \in Threads, StandbyLockOut(t) PROVE LockRule(t) /\ InOwnPCs(t)
  BY <1>0, <1>40, HasFacts DEF
  StandbyLockOut, LockRule, PlayPCs, RecPCs, CtlPCs, ModePCs, Acquire, LockInv
<1>41. ASSUME NEW t \in Threads, StandbyLockIn(t) PROVE LockRule(t) /\ InOwnPCs(t)
  BY <1>0, <1>41, HasFacts DEF
  StandbyLockIn, LockRule, PlayPCs, RecPCs, CtlPCs, ModePCs, Acquire, LockInv
<1>42. ASSUME NEW t \in Threads, StandbyRelockHw(t) PROVE LockRule(t) /\ InOwnPCs(t)
  BY <1>0, <1>42, HasFacts DEF
  StandbyRelockHw, LockRule, PlayPCs, RecPCs, CtlPCs, ModePCs, AtDevice, LockInv
<1>43. QED
  BY
    <1>1, <1>2, <1>3, <1>4, <1>5, <1>6, <1>7, <1>8, <1>9, <1>10, <1>11,
    <1>12, <1>13, <1>14, <1>15, <1>16, <1>17, <1>18, <1>19, <1>20, <1>21,
    <1>22, <1>23, <1>24, <1>25, <1>26, <1>27, <1>28, <1>29, <1>30, <1>31,
    <1>32, <1>33, <1>34, <1>35, <1>36, <1>37, <1>38, <1>39, <1>40, <1>41,
    <1>42
  DEF Next, PlaySteps, RecSteps, CtlSteps, StandbySteps

\* So every thread has the mutexes it is to have.
LEMMA LockStep ==
  ASSUME QuietClose, ~EchoCancel, AudioInv, [Next]_vars
  PROVE  LockInv'
<1>1. CASE UNCHANGED vars
  BY <1>1 DEF vars, AudioInv, LockInv
<1>2. CASE Next
  <2>1. PICK t \in Threads : LockRule(t) /\ InOwnPCs(t)
    BY <1>2, StepRule
  <2>2. \A u \in Threads : \A l \in Locks :
          /\ l \in Has(pc'[u]) => lock'[l] = u
          /\ lock'[l] = u => l \in MayHave(pc'[u])
    BY <2>1, LockRuleKeeps DEF AudioInv, SharesInv, EchoInv, LockInv
  <2>3. pc'["play"] \in PlayPCs /\ pc'["rec"] \in RecPCs /\ pc'["ctl"] \in CtlPCs
    BY <2>1 DEF LockRule, InOwnPCs, AudioInv, SharesInv, EchoInv, ControlOK, LockInv, Threads
  <2>4. QED
    BY <2>2, <2>3 DEF LockInv
<1>3. QED
  BY <1>1, <1>2

\* A step that neither opens nor destroys a stream.
LEMMA StreamKeeps ==
  ASSUME ControlOK, StreamInv, Level(audio, audio'), NEW t \in Threads, NEW q,
         pc' = [pc EXCEPT ![t] = q],
         q \in {"rLockOut", "rRelockIn", "rRelockHw"} => audio.out.state = "open",
         q \in {"wLockIn", "wRelockHw"} => audio.in.state = "open"
  PROVE  StreamInv'
BY DEF ControlOK, StreamInv, Level, Threads

\* write(), looking for an active input.
LEMMA LookInStreams ==
  ASSUME ControlOK, StreamInv, NEW a, Level(audio, a), a.in = audio.in, WriteLookIn(a)
  PROVE  StreamInv'
<1>1. Level(a, audio') /\ a \in Audio
  BY WriteLookInSame DEF Level, Same
<1>2. Level(audio, audio') /\ "play" \in Threads
  BY <1>1 DEF Level, Threads
<1>3. CASE ActiveIn(a)
  <2>1. pc' = [pc EXCEPT !["play"] = "wLockIn"]
    BY <1>3 DEF WriteLookIn, Goto
  <2>2. audio.in.state = "open"
    BY <1>3 DEF ActiveIn
  <2>3. QED
    BY <1>2, <2>1, <2>2, StreamKeeps
<1>4. CASE ~ActiveIn(a)
  <2>1. PICK b \in OpenOut(a) : WriteOpened(b)
    BY <1>4 DEF WriteLookIn
  <2>2. \/ pc' = [pc EXCEPT !["play"] = "wWrite"]
        \/ pc' = [pc EXCEPT !["play"] = "oLock"]
    BY <2>1 DEF WriteOpened, Goto
  <2>3. QED
    BY <1>2, <2>2, StreamKeeps
<1>5. QED
  BY <1>3, <1>4

\* Every step leaves the streams there that others are about to use.
LEMMA StreamStep ==
  ASSUME QuietClose, ~EchoCancel, AudioInv, [Next]_vars
  PROVE  StreamInv'
<1>a. /\ ControlOK /\ StreamInv /\ audio \in Audio /\ ReleaseRule /\ LockInv
      /\ ~audio.in.echo
      /\ "play" \in Threads /\ "rec" \in Threads /\ "ctl" \in Threads
  BY DEF AudioInv, SharesInv, EchoInv, ReleaseInv, Threads
<1>b. Same(audio, audio) /\ Level(audio, audio)
  BY <1>a, SameSame DEF Same
<1>1. CASE UNCHANGED vars
  BY <1>a, <1>1 DEF vars, StreamInv
<1>2. CASE PlaySteps
  <2>1. CASE \/ CallWrite \/ WriteLockIn \/ WriteData \/ CallOutStandby
             \/ CallOutSetParameters
    <3>1. PICK q : /\ audio' = audio /\ pc' = [pc EXCEPT !["play"] = q]
                   /\ q \notin {"rLockOut", "rRelockIn", "rRelockHw", "wLockIn"}
                   /\ q = "wRelockHw" => pc["play"] = "wLockIn"
      BY <2>1 DEF CallWrite, WriteLockIn, WriteData, CallOutStandby,
      CallOutSetParameters, StartLocked, Start, Acquire, Goto, Return
    <3>2. QED
      BY <1>a, <1>b, <3>1, StreamKeeps DEF StreamInv
  <2>2. CASE WriteWake
    <3>1. PICK a : a = [audio EXCEPT !.chip.wake = TRUE]
      OBVIOUS
    <3>2. Level(audio, a) /\ a.in = audio.in
      BY <1>a, <3>1 DEF Level, Audio, Chip
    <3>3. WriteLookIn(a)
      BY <2>2, <3>1 DEF WriteWake
    <3>4. QED
      BY <1>a, <3>2, <3>3, LookInStreams
  <2>3. CASE WriteRelockHw
    <3>1. pc["play"] = "wRelockHw" /\ audio.in.state = "open"
      BY <1>a, <2>3 DEF WriteRelockHw, AtDevice, StreamInv
    <3>2. PICK q \in {"wLockIn", "wWrite", "oLock", "iLock", "sLockOut"} :
            pc' = [pc EXCEPT !["play"] = q]
      BY <2>3 DEF WriteRelockHw, WriteLookIn, WriteOpened, DoStandbyIn, Goto
    <3>3. Level(audio, audio')
      <4>1. CASE WriteLookIn(audio)
        BY <1>a, <4>1, WriteLookInSame DEF Same
      <4>2. ASSUME NEW b \in ReopenBoth(audio),
                   \/ WriteOpened(b)
                   \/ DoStandbyIn("play", b, "wWrite")
                   \/ WriteOpened(StandbyIn([b EXCEPT !.in.fresh = {}]))
            PROVE  Level(audio, audio')
        <5>1. Level(audio, b) /\ b \in Audio
          BY <1>a, ReopenBothSame DEF Same, Level
        <5>2. CASE WriteOpened(b)
          BY <5>1, <5>2, WriteOpenedSame DEF Same, Level
        <5>3. CASE DoStandbyIn("play", b, "wWrite")
          BY <5>1, <5>3, DoStandbyInCalm DEF Calm, Level
        <5>4. CASE WriteOpened(StandbyIn([b EXCEPT !.in.fresh = {}]))
          <6>1. PICK c : c = [b EXCEPT !.in.fresh = {}]
            OBVIOUS
          <6>2. Level(b, c)
            BY <5>1, <6>1 DEF Level, Audio, In
          <6>3. PICK d : d = StandbyIn(c)
            OBVIOUS
          <6>4. Level(c, d)
            BY <6>2, <6>3, StandbyInCalm DEF Calm, Level
          <6>5. Level(d, audio')
            BY <5>4, <6>1, <6>3, <6>4, WriteOpenedSame DEF Same, Level
          <6>6. QED
            BY <5>1, <6>2, <6>4, <6>5 DEF Level
        <5>5. QED
          BY <4>2, <5>2, <5>3, <5>4
      <4>3. QED
        BY <2>3, <3>1, <4>1, <4>2 DEF WriteRelockHw
    <3>4. QED
      BY <1>a, <3>1, <3>2, <3>3, StreamKeeps
  <2>4. CASE OutSetParameters
    <3>0. PICK d \in Devices :
            LET a == [audio EXCEPT !.out.device = d] IN
            audio' = a \/ audio' = StandbyOut(a)
      BY <2>4 DEF OutSetParameters
    <3>1. PICK a : a = [audio EXCEPT !.out.device = d]
      OBVIOUS
    <3>2. Same(audio, a) /\ a \in Audio
      BY <1>a, <3>1 DEF Same, Level, Audio, Out
    <3>3. Level(audio, audio')
      <4>1. CASE audio' = a
        BY <3>2, <4>1 DEF Same
      <4>2. CASE audio' = StandbyOut(a)
        <5>1. Same(a, audio')
          BY <3>2, <4>2, StandbyOutSame
        <5>2. QED
          BY <3>2, <5>1 DEF Same, Level
      <4>3. QED
        BY <3>0, <3>1, <4>1, <4>2
    <3>4. pc' = [pc EXCEPT !["play"] = "idle"]
      BY <2>4 DEF OutSetParameters, Return
    <3>5. QED
      BY <1>a, <3>3, <3>4, StreamKeeps
  <2>5. QED
    BY <1>2, <2>1, <2>2, <2>3, <2>4 DEF PlaySteps
<1>3. CASE RecSteps
  <2>1. CASE \/ CallRead \/ ReadLockOut \/ ReadRelockIn \/ ReadData \/ CallInStandby
             \/ CallInSetParameters
    <3>1. PICK q : /\ audio' = audio /\ pc' = [pc EXCEPT !["rec"] = q]
                   /\ q \notin {"rLockOut", "wLockIn", "wRelockHw"}
                   /\ q \in {"rRelockIn", "rRelockHw"} =>
                        pc["rec"] \in {"rLockOut", "rRelockIn"}
      BY <2>1 DEF CallRead, ReadLockOut, ReadRelockIn, ReadData, CallInStandby,
      CallInSetParameters, StartLocked, Start, Acquire, Goto, Return
    <3>2. QED
      BY <1>a, <1>b, <3>1, StreamKeeps DEF StreamInv
  <2>2. CASE ReadWake
    <3>1. CASE ReadOpen(audio)
      BY <1>a, <3>1, ReadOpenLevel, StreamKeeps
    <3>2. CASE /\ audio.out.state = "open" /\ audio' = audio
               /\ pc' = [pc EXCEPT !["rec"] = "rLockOut"]
      BY <1>a, <1>b, <3>2, StreamKeeps
    <3>3. QED
      BY <2>2, <3>1, <3>2 DEF ReadWake, Goto
  <2>3. CASE ReadRelockHw
    <3>1. audio.out.state = "open"
      BY <1>a, <2>3 DEF ReadRelockHw, AtDevice, StreamInv
    <3>2. PICK b \in RestartOut(audio) : \E g \in WithEcho(b) : ReadOpen(g)
      BY <2>3, <3>1 DEF ReadRelockHw
    <3>3. Level(audio, b) /\ b \in Audio /\ ~b.in.need
      BY <1>a, RestartOutSame DEF Same, Level, AudioInv, SharesInv, EchoInv, ReleaseInv
    <3>4. ReadOpen(b)
      BY <3>2, <3>3 DEF WithEcho
    <3>5. Level(audio, audio') /\ \E q \in {"rRead", "iLock"} : pc' = [pc EXCEPT !["rec"] = q]
      BY <3>3, <3>4, ReadOpenLevel DEF Level
    <3>6. QED
      BY <1>a, <3>5, StreamKeeps
  <2>4. CASE InSetSource
    <3>1. PICK a \in OpenMixer(audio, DriverFaults) : audio' = CloseMixer(a)
      BY <2>4 DEF InSetSource
    <3>2. Level(audio, a) /\ a \in Audio
      BY <1>a, OpenSame, AudioAssumption DEF Same, Level
    <3>3. Level(audio, audio')
      BY <3>1, <3>2, CloseSame DEF Same, Level
    <3>4. pc' = [pc EXCEPT !["rec"] = "qRouteHw"]
      BY <2>4 DEF InSetSource, Goto
    <3>5. QED
      BY <1>a, <3>3, <3>4, StreamKeeps
  <2>5. CASE InSetRouting
    <3>1. CASE DoStandbyIn("rec", audio, "iUnlock")
      BY <1>a, <3>1, DoStandbyInCalm, StreamKeeps DEF Calm
    <3>2. CASE Return("rec") /\ audio' = audio
      BY <1>a, <1>b, <3>2, StreamKeeps DEF Return
    <3>3. QED
      BY <2>5, <3>1, <3>2 DEF InSetRouting
  <2>6. QED
    BY <1>3, <2>1, <2>2, <2>3, <2>4, <2>5 DEF RecSteps
<1>4. CASE CtlSteps
  \* Only opening and closing a stream changes whether it is there.
  <2>0. ASSUME Level(audio, audio'), NEW q, pc' = [pc EXCEPT !["ctl"] = q],
               q \notin {"rLockOut", "rRelockIn", "rRelockHw", "wLockIn", "wRelockHw"}
        PROVE  StreamInv'
    BY <1>a, <2>0, StreamKeeps
  <2>1. CASE (\E m \in ClientModes : CallSetMode(m)) \/ ModeRelockHw \/ ModeRelockHwIn
    <3>1. ModeLookOut \/ (\E S : ModeLookIn(S)) \/ (audio' = audio /\ Goto("ctl", "mSet"))
      BY <2>1 DEF CallSetMode, ModeRelockHw, ModeRelockHwIn
    <3>2. /\ Level(audio, audio')
          /\ \E q \in {"mLockOut", "mLockIn", "mSet"} : pc' = [pc EXCEPT !["ctl"] = q]
      BY <1>a, <1>b, <3>1, ModeLookSame DEF Same, Goto
    <3>3. QED
      BY <2>0, <3>2
  <2>2. CASE ModeLockOut \/ ModeLockIn \/ ModeUnlock \/ DropOutput
    <3>1. /\ audio' = audio
          /\ \E q \in {"mRelockHw", "mRelockHwIn", "idle", "oLock"} :
               pc' = [pc EXCEPT !["ctl"] = q]
      BY <2>2 DEF ModeLockOut, ModeLockIn, ModeUnlock, DropOutput, Acquire, Goto, Return
    <3>2. QED
      BY <1>b, <2>0, <3>1
  <2>3. CASE ModeSet
    <3>1. pc["ctl"] = "mSet" /\ call["ctl"] \in Modes /\ lock["hw"] = "ctl"
      BY <1>a, <2>3 DEF ModeSet, ReleaseRule, ModePCs, WithHw
    <3>2. /\ audio.hw.callPcm = audio.hw.inCall
          /\ audio.hw.callMixer = audio.hw.callPcm
      BY <1>a, <3>1 DEF AudioInv, SharesInv, DataInv, CallInv, CtlAt, Releasing, Audio, Hw
    <3>3. /\ audio'.in.state = audio.in.state /\ audio'.out.state = audio.out.state
          /\ \E q \in {"mEnter", "mLeave", "mUnlock"} : pc' = [pc EXCEPT !["ctl"] = q]
      BY <1>a, <2>3, <3>1, <3>2, ModeSetFacts
      DEF AudioInv, SharesInv, DataInv, ControlOK, Goto
    <3>4. QED
      BY <1>a, <3>3 DEF ControlOK, StreamInv, Threads
  <2>4. CASE ModeEnter \/ ModeLeave
    <3>1. pc' = [pc EXCEPT !["ctl"] = "mUnlock"]
      BY <2>4 DEF ModeEnter, ModeLeave, Goto
    <3>2. CASE ModeEnter
      <4>1. Level(audio, audio')
        BY <1>a, <3>2, TakeCallSame DEF ModeEnter, Same
      <4>2. QED
        BY <2>0, <3>1, <4>1
    <3>3. CASE ModeLeave
      <4>1. Level(audio, audio')
        BY <1>a, <3>3 DEF ModeLeave, Level, Audio, Hw
      <4>2. QED
        BY <2>0, <3>1, <4>1
    <3>4. QED
      BY <2>4, <3>2, <3>3
  <2>5. CASE SetMicMute
    <3>1. Level(audio, audio')
      BY <1>a, <2>5 DEF SetMicMute, Level, Audio, Hw
    <3>2. pc' = pc \/ pc' = [pc EXCEPT !["ctl"] = "iLock"]
      BY <2>5 DEF SetMicMute, Start, Goto
    <3>3. QED
      BY <1>a, <2>0, <3>1, <3>2 DEF StreamInv, Level
  <2>6. CASE SetNeedEcho
    BY <2>6 DEF SetNeedEcho
  <2>7. CASE OpenOutputStream \/ OpenInputStream
    <3>1. /\ pc' = pc
          /\ audio'.out.state = audio.out.state \/ audio.out.state = "none"
          /\ audio'.in.state = audio.in.state \/ audio.in.state = "none"
      BY <1>a, <2>7 DEF OpenOutputStream, OpenInputStream, Audio
    <3>2. QED
      BY <1>a, <3>1 DEF StreamInv
  <2>8. CASE CloseOutputStream
    <3>1. /\ audio'.in.state = audio.in.state /\ ~RefersToOut("rec")
          /\ \E q \in {"iLock", "cDrop"} : pc' = [pc EXCEPT !["ctl"] = q]
      BY <1>a, <2>8 DEF CloseOutputStream, Start, Goto, Audio
    <3>2. QED
      BY <1>a, <3>1 DEF StreamInv, RefersToOut, ControlOK, Threads
  <2>9. CASE CloseInputStream
    <3>1. /\ audio'.out.state = audio.out.state /\ ~RefersToIn("play")
          /\ pc' = pc \/ pc' = [pc EXCEPT !["ctl"] = "iLock"]
      BY <1>a, <2>9 DEF CloseInputStream, Start, Goto, Audio
    <3>2. QED
      BY <1>a, <3>1 DEF StreamInv, RefersToIn, ControlOK, Threads
  <2>10. QED
    BY <1>4, <2>1, <2>2, <2>3, <2>4, <2>5, <2>6, <2>7, <2>8, <2>9 DEF CtlSteps
<1>5. CASE StandbySteps
  <2>1. PICK t \in Threads :
          \/ OutStandbyLock(t) \/ OutStandby(t)
          \/ InStandbyLock(t) \/ InStandby(t) \/ InStandbyEnd(t)
          \/ StandbyLockOut(t) \/ StandbyLockIn(t) \/ StandbyRelockHw(t)
    BY <1>5 DEF StandbySteps
  <2>2. pc[t] \notin {"sLockOut", "sLockIn", "sRelockHw"}
    BY <1>a DEF LockInv, PlayPCs, RecPCs, CtlPCs, ModePCs, Threads
  <2>3. CASE OutStandbyLock(t) \/ InStandbyLock(t)
    <3>1. audio' = audio /\ \E q \in {"oLockHw", "iLockHw"} : pc' = [pc EXCEPT ![t] = q]
      BY <2>3 DEF OutStandbyLock, InStandbyLock, Acquire, Goto
    <3>2. QED
      BY <1>a, <1>b, <3>1, StreamKeeps
  <2>4. CASE InStandby(t)
    <3>1. DoStandbyIn(t, audio, "iUnlock")
      BY <2>4 DEF InStandby
    <3>2. QED
      BY <1>a, <3>1, DoStandbyInCalm, StreamKeeps DEF Calm
  <2>5. CASE OutStandby(t)
    <3>1. PICK a : a = StandbyOut(audio)
      OBVIOUS
    <3>2. Level(audio, a) /\ a \in Audio
      BY <1>a, <3>1, StandbyOutSame DEF Same, Level
    <3>3. /\ pc' = [pc EXCEPT ![t] = "idle"]
          /\ audio' = IF call[t] = "closeOutput"
                        THEN [a EXCEPT !.out = NewOut(a.out.device)] ELSE a
      BY <2>5, <3>1 DEF OutStandby, Return
    <3>4. CASE call[t] # "closeOutput"
      BY <1>a, <3>2, <3>3, <3>4, StreamKeeps
    <3>5. CASE call[t] = "closeOutput"
      <4>1. audio.out.state = "closed" /\ audio'.in.state = audio.in.state
        BY <1>a, <3>2, <3>3, <3>5
        DEF AudioInv, SharesInv, EchoInv, ReleaseInv, ReleaseRule, Threads, Audio, Level
      <4>2. QED
        BY <1>a, <3>3, <4>1 DEF StreamInv, ControlOK, Threads
    <3>6. QED
      BY <3>4, <3>5
  <2>6. CASE InStandbyEnd(t)
    <3>1. /\ \E q \in {"idle", "cDrop"} : pc' = [pc EXCEPT ![t] = q]
          /\ audio' = IF call[t] = "closeInput" THEN [audio EXCEPT !.in = NewIn] ELSE audio
      BY <2>6 DEF InStandbyEnd, Return, Goto
    <3>2. CASE call[t] # "closeInput"
      BY <1>a, <1>b, <3>1, <3>2, StreamKeeps
    <3>3. CASE call[t] = "closeInput"
      <4>1. audio.in.state = "closed" /\ audio'.out.state = audio.out.state
        BY <1>a, <3>1, <3>3
        DEF AudioInv, SharesInv, EchoInv, ReleaseInv, ReleaseRule, Threads, Audio
      <4>2. QED
        BY <1>a, <3>1, <4>1 DEF StreamInv, ControlOK, Threads
    <3>4. QED
      BY <3>2, <3>3
  <2>7. QED
    BY <2>1, <2>2, <2>3, <2>4, <2>5, <2>6
    DEF StandbyLockOut, StandbyLockIn, StandbyRelockHw, Acquire, AtDevice
<1>6. QED
  BY <1>1, <1>2, <1>3, <1>4, <1>5 DEF Next

\* The invariant holds when the HAL is loaded.
LEMMA AudioInit == Init => AudioInv
<1> SUFFICES ASSUME Init PROVE AudioInv
  OBVIOUS
<1>1. /\ \A t \in Threads : pc[t] = "idle"
      /\ \A l \in Locks : lock[l] = "free"
  BY DEF Init
<1>2. "free" \notin Threads
  BY DEF Threads
<1>3. LockInv
  BY <1>1, <1>2, HasFacts DEF LockInv, PlayPCs, RecPCs, CtlPCs, Threads
<1>4. StreamInv
  BY <1>1 DEF StreamInv, Threads
<1>5. QED
  BY <1>3, <1>4, SharesInit DEF AudioInv

\* All of it holds in every state the component can reach, without an echo
\* canceller, if streams are closed when nobody refers to them and opening the
\* device for a call does not fail.
THEOREM AudioInvariant ==
  ASSUME QuietClose, ~EchoCancel, ~CallFaults
  PROVE  Spec => []AudioInv
<1>1. AudioInv /\ [Next]_vars => AudioInv'
  BY LockStep, StreamStep, EchoStep, SharesStep DEF AudioInv, SharesInv
<1>2. QED
  BY <1>1, AudioInit, PTL DEF Spec

\* A thread that waits for a mutex holds none of the same or of a later level.
THEOREM LockOrderHolds ==
  ASSUME QuietClose, ~EchoCancel, ~CallFaults
  PROVE  Spec => []LockOrder
<1>1. AudioInv => LockOrder
  <2> SUFFICES ASSUME AudioInv, NEW t \in Threads, NEW l \in Locks, lock[l] = t
               PROVE  Rank(l) < Rank(Wanted(pc[t]))
    BY DEF LockOrder
  <2>1. l \in MayHave(pc[t]) /\ pc[t] \in PlayPCs \cup RecPCs \cup CtlPCs
    BY DEF AudioInv, LockInv, Threads
  <2>2. QED
    BY <2>1, HasFacts DEF Wanted, Rank, PlayPCs, RecPCs, CtlPCs, ModePCs
<1>2. QED
  BY <1>1, AudioInvariant, PTL

\* What the lock order is for: as long as it is kept, no threads wait in a circle.
\* Along one the level of the mutex waited for would go up forever, and there are
\* three levels.  (It is not kept with an echo canceller, nor by a stream whose last
\* reference a thread in the middle of a call holds.)
LEMMA OrderPreventsCircles == LockOrder => NoCircularWait
<1> SUFFICES ASSUME LockOrder, NEW S \in (SUBSET Threads) \ {{}}
             PROVE  \E t \in S : Wanted(pc[t]) = "none" \/ lock[Wanted(pc[t])] \notin S
  BY DEF NoCircularWait
<1> SUFFICES ASSUME \A t \in S : /\ Wanted(pc[t]) # "none"
                                 /\ lock[Wanted(pc[t])] \in S
             PROVE  FALSE
  OBVIOUS
<1> DEFINE W(t) == Wanted(pc[t])
<1>1. \A t \in S : W(t) \in Locks /\ Rank(W(t)) \in 1..3
  BY DEF Wanted, Rank, Locks
<1>2. \A t \in S : lock[W(t)] \in S /\ Rank(W(t)) < Rank(W(lock[W(t)]))
  BY <1>1 DEF LockOrder
<1> HIDE DEF W
<1>3. PICK t : t \in S
  <2>1. S # {}
    OBVIOUS
  <2>2. QED
    BY <2>1
<1>4. PICK u \in S : Rank(W(t)) < Rank(W(u))
  BY <1>2, <1>3
<1>5. PICK v \in S : Rank(W(u)) < Rank(W(v))
  BY <1>2
<1>6. PICK w \in S : Rank(W(v)) < Rank(W(w))
  BY <1>2
<1>7. QED
  BY <1>1, <1>3, <1>4, <1>5, <1>6
=============================================================================
