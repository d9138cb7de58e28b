------------------------ MODULE AudioCapture_proofs ------------------------
(***************************************************************************)
(* Proofs about the way of captured frames through an input stream, for    *)
(* any period, read sizes, rates and capacity: that they come in the order *)
(* in which they were captured, that the buffers suffice, and that a rate  *)
(* the client was offered is one the stream takes.                         *)
(***************************************************************************)
EXTENDS AudioCapture, TLAPS

-----------------------------------------------------------------------------
(* Sequences of frames.                                                      *)

\* Copies(f, s) is as long as s, and f throughout.
LEMMA CopiesFacts ==
  ASSUME NEW f \in Int, NEW s \in Seq(Int)
  PROVE  /\ Copies(f, s) \in Seq(Int) /\ Len(Copies(f, s)) = Len(s)
         /\ \A i \in DOMAIN Copies(f, s) : Copies(f, s)[i] = f
BY DEF Copies

\* Frames(first, n) counts n frames from first.
LEMMA FramesFacts ==
  ASSUME NEW first \in Int, NEW n \in Nat
  PROVE  /\ Frames(first, n) \in Seq(Int) /\ Len(Frames(first, n)) = n
         /\ \A i \in 1..n : Frames(first, n)[i] = first + i - 1
BY DEF Frames

\* Renumbered(s, n) takes n off each number, down to Lost.
LEMMA RenumberedFacts ==
  ASSUME NEW s \in Seq(Int), NEW n \in Nat
  PROVE  /\ Renumbered(s, n) \in Seq(Int) /\ Len(Renumbered(s, n)) = Len(s)
         /\ \A i \in 1..Len(s) :
              Renumbered(s, n)[i] = IF s[i] >= n THEN s[i] - n ELSE Smaller(s[i], Lost)
BY DEF Renumbered, Smaller, Lost

\* Upto(s, n) is the first n elements of s ...
LEMMA UptoFacts ==
  ASSUME NEW s \in Seq(Int), NEW n \in 0..Len(s)
  PROVE  /\ Upto(s, n) \in Seq(Int) /\ Len(Upto(s, n)) = n
         /\ \A i \in 1..n : Upto(s, n)[i] = s[i]
BY DEF Upto

\* ... and Beyond(s, n) the others.
LEMMA BeyondFacts ==
  ASSUME NEW s \in Seq(Int), NEW n \in 0..Len(s)
  PROVE  /\ Beyond(s, n) \in Seq(Int) /\ Len(Beyond(s, n)) = Len(s) - n
         /\ \A i \in 1..(Len(s) - n) : Beyond(s, n)[i] = s[n + i]
BY DEF Beyond

\* A concatenation, element by element.
LEMMA ConcatFacts ==
  ASSUME NEW s \in Seq(Int), NEW t \in Seq(Int)
  PROVE  /\ s \o t \in Seq(Int) /\ Len(s \o t) = Len(s) + Len(t)
         /\ \A i \in 1..Len(s) : (s \o t)[i] = s[i]
         /\ \A i \in 1..Len(t) : (s \o t)[Len(s) + i] = t[i]
OBVIOUS

\* Follow(s, n) element by element: the numbers count on from n, and what would
\* be below zero is no frame.
LEMMA FollowIs ==
  ASSUME NEW s \in Seq(Int), NEW n \in Int
  PROVE  Follow(s, n)
           <=> \A i \in 1..Len(s) : IF n + i > 0 THEN s[i] = n + i - 1 ELSE s[i] < 0
BY DEF Follow

\* A piece of a sequence follows on from where it was.
Piece(r, s, d) == \A i \in 1..Len(r) : d + i \in 1..Len(s) /\ r[i] = s[d + i]

\* A piece d further on follows on from d further on.
LEMMA FollowPiece ==
  ASSUME NEW s \in Seq(Int), NEW r \in Seq(Int), NEW m \in Int, NEW d \in Int,
         NEW k \in Int, k = m + d, Follow(s, m), Piece(r, s, d)
  PROVE  Follow(r, k)
<1> SUFFICES ASSUME NEW i \in 1..Len(r)
             PROVE  IF k + i > 0 THEN r[i] = k + i - 1 ELSE r[i] < 0
  BY FollowIs
<1>1. PICK j \in 1..Len(s) : j = d + i /\ r[i] = s[j]
  BY DEF Piece
<1>2. IF m + j > 0 THEN s[j] = m + j - 1 ELSE s[j] < 0
  BY FollowIs
<1> QED BY <1>1, <1>2

\* A concatenation follows when its parts do, the second after the first.
LEMMA FollowConcat ==
  ASSUME NEW s \in Seq(Int), NEW t \in Seq(Int), NEW n \in Int
  PROVE  Follow(s \o t, n) <=> Follow(s, n) /\ Follow(t, n + Len(s))
<1> DEFINE st == s \o t
<1>1. /\ st \in Seq(Int) /\ Len(st) = Len(s) + Len(t)
      /\ \A i \in 1..Len(s) : st[i] = s[i]
      /\ \A i \in 1..Len(t) : st[Len(s) + i] = t[i]
  BY ConcatFacts
<1> HIDE DEF st
<1>0. PICK a \in Nat : a = Len(s)
  OBVIOUS
<1>5. PICK b \in Nat : b = Len(t)
  OBVIOUS
<1>6. \A i \in 1..a : i \in 1..Len(st) /\ s[i] = st[i]
  BY <1>0, <1>1, <1>5
<1>7. \A i \in 1..b : a + i \in 1..Len(st) /\ t[i] = st[a + i]
  BY <1>0, <1>1, <1>5
<1>2. ASSUME Follow(st, n) PROVE Follow(s, n)
  <2> SUFFICES ASSUME NEW i \in 1..a
               PROVE  IF n + i > 0 THEN s[i] = n + i - 1 ELSE s[i] < 0
    BY <1>0, FollowIs
  <2> QED BY <1>1, <1>2, <1>6, FollowIs
<1>3. ASSUME Follow(st, n) PROVE Follow(t, n + a)
  <2>1. Piece(t, st, a)
    BY <1>5, <1>7 DEF Piece
  <2>2. PICK k \in Int : k = n + a
    OBVIOUS
  <2>3. Follow(t, k)
    BY <1>1, <1>3, <2>1, <2>2, FollowPiece
  <2> QED BY <2>2, <2>3
<1>4. ASSUME Follow(s, n), Follow(t, n + a) PROVE Follow(st, n)
  <2> SUFFICES ASSUME NEW i \in 1..Len(st)
               PROVE  IF n + i > 0 THEN st[i] = n + i - 1 ELSE st[i] < 0
    BY <1>1, FollowIs
  <2>0. i \in 1..(a + b)
    BY <1>0, <1>1, <1>5
  <2>1. CASE i <= a
    <3>1. i \in 1..a
      BY <2>0, <2>1
    <3>2. st[i] = s[i] /\ (IF n + i > 0 THEN s[i] = n + i - 1 ELSE s[i] < 0)
      BY <1>0, <1>4, <1>6, <3>1, FollowIs
    <3> QED BY <3>2
  <2>2. CASE i > a
    <3>1. PICK j \in 1..b : i = a + j
      BY <2>0, <2>2
    <3>2. st[i] = t[j]
      BY <1>7, <3>1
    <3>3. IF (n + a) + j > 0 THEN t[j] = (n + a) + j - 1 ELSE t[j] < 0
      BY <1>4, <1>5, FollowIs
    <3> QED BY <3>1, <3>2, <3>3
  <2> QED BY <2>0, <2>1, <2>2
<1> QED BY <1>0, <1>2, <1>3, <1>4 DEF st

\* Frames before the next one to return have no numbers, and that is all there is to them.
LEMMA FollowNegative ==
  ASSUME NEW s \in Seq(Int), NEW n \in Int, n + Len(s) <= 0
  PROVE  Follow(s, n) <=> \A i \in 1..Len(s) : s[i] < 0
BY FollowIs

\* Frames captured in a row follow ...
LEMMA FollowFrames ==
  ASSUME NEW first \in Nat, NEW n \in Nat
  PROVE  Follow(Frames(first, n), first)
<1> DEFINE r == Frames(first, n)
<1>1. r \in Seq(Int) /\ Len(r) = n /\ \A i \in 1..n : r[i] = first + i - 1
  BY FramesFacts
<1> HIDE DEF r
<1>2. Follow(r, first)
  BY <1>1, FollowIs
<1> QED BY <1>2 DEF r

\* ... and so does the beginning of what follows ...
LEMMA FollowUpto ==
  ASSUME NEW s \in Seq(Int), NEW n \in 0..Len(s), NEW m \in Int, Follow(s, m)
  PROVE  Follow(Upto(s, n), m)
<1> DEFINE r == Upto(s, n)
<1>1. r \in Seq(Int) /\ Len(r) = n /\ \A i \in 1..n : r[i] = s[i]
  BY UptoFacts
<1> HIDE DEF r
<1>2. \A i \in 1..n : i \in 1..Len(s)
  OBVIOUS
<1>3. \A i \in 1..Len(s) : IF m + i > 0 THEN s[i] = m + i - 1 ELSE s[i] < 0
  BY FollowIs
<1>4. \A i \in 1..Len(r) : IF m + i > 0 THEN r[i] = m + i - 1 ELSE r[i] < 0
  BY <1>1, <1>2, <1>3
<1>5. Follow(r, m)
  BY <1>1, <1>4, FollowIs
<1> QED BY <1>5 DEF r

\* ... and its rest, from where the beginning ends.
LEMMA FollowBeyond ==
  ASSUME NEW s \in Seq(Int), NEW n \in 0..Len(s), NEW m \in Int, Follow(s, m)
  PROVE  Follow(Beyond(s, n), m + n)
<1> DEFINE r == Beyond(s, n)
<1>1. r \in Seq(Int) /\ Len(r) = Len(s) - n /\ \A i \in 1..(Len(s) - n) : r[i] = s[n + i]
  BY BeyondFacts
<1> HIDE DEF r
<1>2. PICK a \in Nat : a = Len(s) /\ n \in 0..a
  OBVIOUS
<1>3. \A i \in 1..(a - n) : n + i \in 1..a
  BY <1>2
<1>4. n \in Int /\ Piece(r, s, n)
  BY <1>1, <1>2, <1>3 DEF Piece
<1>5. PICK k \in Int : k = m + n
  BY <1>2
<1>6. Follow(r, k)
  BY <1>1, <1>2, <1>4, <1>5, FollowPiece
<1> QED BY <1>5, <1>6 DEF r

\* Numbers that follow still do when k frames have been handed over.
LEMMA FollowRenumbered ==
  ASSUME NEW s \in Seq(Int), NEW k \in Nat, NEW n \in Int, Follow(s, n)
  PROVE  Follow(Renumbered(s, k), n - k)
<1> DEFINE r == Renumbered(s, k)
<1>1. /\ r \in Seq(Int) /\ Len(r) = Len(s)
      /\ \A i \in 1..Len(s) : r[i] = IF s[i] >= k THEN s[i] - k ELSE Smaller(s[i], Lost)
  BY RenumberedFacts
<1> HIDE DEF r
<1> SUFFICES ASSUME NEW i \in 1..Len(r)
             PROVE  IF n - k + i > 0 THEN r[i] = n - k + i - 1 ELSE r[i] < 0
  <2>1. Follow(r, n - k)
    BY <1>1, FollowIs
  <2> QED BY <2>1 DEF r
<1>2. IF n + i > 0 THEN s[i] = n + i - 1 ELSE s[i] < 0
  BY <1>1, FollowIs
<1>3. i \in 1..Len(s) /\ s[i] \in Int /\ r[i] = IF s[i] >= k THEN s[i] - k ELSE Smaller(s[i], Lost)
  BY <1>1
<1> QED BY <1>2, <1>3 DEF Smaller, Lost

\* The number after a sequence that follows.
LEMMA NextAfterFollow ==
  ASSUME NEW s \in Seq(Int), NEW n \in Int, n <= 0, Follow(s, n)
  PROVE  NextAfter(s) = Larger(n + Len(s), 0)
<1>1. CASE s = <<>>
  BY <1>1 DEF NextAfter, Larger
<1>2. CASE s # <<>>
  <2>1. Len(s) \in DOMAIN s /\ s[Len(s)] \in Int
    BY <1>2
  <2> QED BY <1>2, <2>1 DEF NextAfter, Larger, Follow
<1> QED BY <1>1, <1>2

-----------------------------------------------------------------------------
(* The inductive invariant.  Where each buffer starts, counted from the next *)
(* frame to return, is what is needed to move frames from one to another.    *)

InputAt == captured - Len(mInputBuf)
HeldAt == InputAt - Len(held)
FillAt == HeldAt - Len(fill)
ProcAt == FillAt - Len(mProcBuf)
FxAt == ProcAt - Len(fx)
OutAt == FxAt - Len(out)

InParts ==
  /\ OutAt <= 0
  /\ Follow(out, OutAt) /\ Follow(fx, FxAt) /\ Follow(mProcBuf, ProcAt)
  /\ Follow(fill, FillAt) /\ Follow(held, HeldAt) /\ Follow(mInputBuf, InputAt)

\* Never memory that was freed.
Clean(s) == \A i \in 1..Len(s) : s[i] >= Lost

\* What a place in read() says of the buffers.  Without effects no frame with a number
\* is where only they would find it.
Phases ==
  /\ pc \in {"closed", "idle", "failed"} => out = <<>>
  /\ pc # "frames" => fill = <<>>
  /\ pc = "frames" /\ mPreprocessors = {} => out = <<>>
  /\ pc \in {"fill", "push", "process"} => mPreprocessors # {}
  /\ pc \in {"frames", "fill", "push", "process"} => active /\ frames > 0
  /\ pc = "frames" /\ mPreprocessors # {} =>
       frames <= mProcBufSize /\ Len(mProcBuf) < frames
  /\ pc = "frames" => Len(fill) <= Wanted
  /\ mPreprocessors = {} => FillAt <= 0
  /\ pc = "closed" \/ ~mDownSampler => held = <<>>

NoJunk ==
  /\ Clean(fill) /\ Clean(held) /\ Clean(mInputBuf)
  /\ active => Clean(mProcBuf)

IInv == TypeOK /\ BuffersFit /\ EchoInOrder /\ InParts /\ NoJunk /\ Phases

-----------------------------------------------------------------------------
(* The six buffers make up what is on the way.                               *)

\* One half of FollowConcat, for a place that has a name.
LEMMA FollowNext ==
  ASSUME NEW s \in Seq(Int), NEW t \in Seq(Int), NEW n \in Int, NEW k \in Int,
         k = n + Len(s), Follow(s, n), Follow(t, k)
  PROVE  Follow(s \o t, n)
BY FollowConcat

\* When each buffer follows from its place, everything on the way does.
LEMMA PartsInOrder ==
  ASSUME TypeOK, InParts
  PROVE  CaptureInOrder
<1>1. /\ out \in Seq(Int) /\ fx \in Seq(Int) /\ mProcBuf \in Seq(Int)
      /\ fill \in Seq(Int) /\ held \in Seq(Int) /\ mInputBuf \in Seq(Int)
      /\ captured \in Nat
  BY DEF TypeOK
<1> DEFINE two == out \o fx
           three == two \o mProcBuf
           four == three \o fill
           five == four \o held
<1> HIDE DEF two, three, four, five
<1>2. /\ OutAt \in Int /\ FxAt \in Int /\ ProcAt \in Int
      /\ FillAt \in Int /\ HeldAt \in Int /\ InputAt \in Int
  BY <1>1 DEF OutAt, FxAt, ProcAt, FillAt, HeldAt, InputAt
<1>3. /\ FxAt = OutAt + Len(out) /\ ProcAt = FxAt + Len(fx)
      /\ FillAt = ProcAt + Len(mProcBuf) /\ HeldAt = FillAt + Len(fill)
      /\ InputAt = HeldAt + Len(held) /\ captured = InputAt + Len(mInputBuf)
  BY <1>1 DEF OutAt, FxAt, ProcAt, FillAt, HeldAt, InputAt
<1>0. /\ Len(out) \in Nat /\ Len(fx) \in Nat /\ Len(mProcBuf) \in Nat
      /\ Len(fill) \in Nat /\ Len(held) \in Nat /\ Len(mInputBuf) \in Nat
  BY <1>1
<1>4. two \in Seq(Int) /\ ProcAt = OutAt + Len(two) /\ Follow(two, OutAt)
  <2>1. two \in Seq(Int) /\ Len(two) = Len(out) + Len(fx)
    BY <1>1, ConcatFacts DEF two
  <2>2. Follow(two, OutAt)
    BY <1>1, <1>2, <1>3, FollowNext DEF InParts, two
  <2> QED BY <1>1, <1>2, <1>3, <2>1, <2>2
<1>5. three \in Seq(Int) /\ FillAt = OutAt + Len(three) /\ Follow(three, OutAt)
  <2>1. three \in Seq(Int) /\ Len(three) = Len(two) + Len(mProcBuf)
    BY <1>1, <1>4, ConcatFacts DEF three
  <2>2. Follow(three, OutAt)
    BY <1>1, <1>2, <1>4, FollowNext DEF InParts, three
  <2>3. Len(two) \in Nat /\ ProcAt = OutAt + Len(two)
    BY <1>4
  <2>4. Len(three) = Len(two) + Len(mProcBuf) /\ FillAt = ProcAt + Len(mProcBuf)
    BY <1>3, <2>1
  <2>5. FillAt = OutAt + Len(three)
    BY <1>0, <1>2, <2>3, <2>4
  <2> QED BY <2>1, <2>2, <2>5
<1>6. four \in Seq(Int) /\ HeldAt = OutAt + Len(four) /\ Follow(four, OutAt)
  <2>1. four \in Seq(Int) /\ Len(four) = Len(three) + Len(fill)
    BY <1>1, <1>5, ConcatFacts DEF four
  <2>2. Follow(four, OutAt)
    BY <1>1, <1>2, <1>5, FollowNext DEF InParts, four
  <2>3. Len(three) \in Nat /\ FillAt = OutAt + Len(three)
    BY <1>5
  <2>4. Len(four) = Len(three) + Len(fill) /\ HeldAt = FillAt + Len(fill)
    BY <1>3, <2>1
  <2>5. HeldAt = OutAt + Len(four)
    BY <1>0, <1>2, <2>3, <2>4
  <2> QED BY <2>1, <2>2, <2>5
<1>7. five \in Seq(Int) /\ InputAt = OutAt + Len(five) /\ Follow(five, OutAt)
  <2>1. five \in Seq(Int) /\ Len(five) = Len(four) + Len(held)
    BY <1>1, <1>6, ConcatFacts DEF five
  <2>2. Follow(five, OutAt)
    BY <1>1, <1>2, <1>6, FollowNext DEF InParts, five
  <2>3. Len(four) \in Nat /\ HeldAt = OutAt + Len(four)
    BY <1>6
  <2>4. Len(five) = Len(four) + Len(held) /\ InputAt = HeldAt + Len(held)
    BY <1>3, <2>1
  <2>5. InputAt = OutAt + Len(five)
    BY <1>0, <1>2, <2>3, <2>4
  <2> QED BY <2>1, <2>2, <2>5
<1>8. /\ OnTheWay = five \o mInputBuf /\ Len(OnTheWay) = Len(five) + Len(mInputBuf)
      /\ OnTheWay \in Seq(Int)
  BY <1>1, <1>7, ConcatFacts DEF OnTheWay, two, three, four, five
<1>9. Follow(OnTheWay, OutAt)
  BY <1>1, <1>2, <1>7, <1>8, FollowNext DEF InParts
<1>10. OutAt = captured - Len(OnTheWay) /\ captured <= Len(OnTheWay)
  <2>1. Len(five) \in Nat /\ OutAt <= 0 /\ captured \in Nat
    BY <1>1, <1>7 DEF InParts
  <2>2. /\ InputAt = OutAt + Len(five) /\ captured = InputAt + Len(mInputBuf)
        /\ Len(OnTheWay) = Len(five) + Len(mInputBuf)
    BY <1>3, <1>7, <1>8
  <2> QED BY <1>0, <1>2, <2>1, <2>2
<1> QED BY <1>9, <1>10 DEF CaptureInOrder

\* When nothing is captured, the buffers follow as soon as none of them has a number.
Numberless(s) == \A i \in 1..Len(s) : s[i] < 0

\* With no number in any buffer and none given out, the buffers follow.
LEMMA NothingCaptured ==
  ASSUME TypeOK', captured' = 0,
         Numberless(out'), Numberless(fx'), Numberless(mProcBuf'),
         Numberless(fill'), Numberless(held'), Numberless(mInputBuf')
  PROVE  InParts' /\ FillAt' <= 0
<1>1. /\ out' \in Seq(Int) /\ fx' \in Seq(Int) /\ mProcBuf' \in Seq(Int)
      /\ fill' \in Seq(Int) /\ held' \in Seq(Int) /\ mInputBuf' \in Seq(Int)
  BY DEF TypeOK
<1>0. /\ Len(out') \in Nat /\ Len(fx') \in Nat /\ Len(mProcBuf') \in Nat
      /\ Len(fill') \in Nat /\ Len(held') \in Nat /\ Len(mInputBuf') \in Nat
  BY <1>1
<1>2. /\ InputAt' \in Int /\ InputAt' + Len(mInputBuf') <= 0
      /\ HeldAt' \in Int /\ HeldAt' + Len(held') <= 0
      /\ FillAt' \in Int /\ FillAt' + Len(fill') <= 0
      /\ ProcAt' \in Int /\ ProcAt' + Len(mProcBuf') <= 0
      /\ FxAt' \in Int /\ FxAt' + Len(fx') <= 0
      /\ OutAt' \in Int /\ OutAt' + Len(out') <= 0
  BY <1>0 DEF OutAt, FxAt, ProcAt, FillAt, HeldAt, InputAt
<1>3. OutAt' <= 0 /\ FillAt' <= 0
  BY <1>0 DEF OutAt, FxAt, ProcAt, FillAt, HeldAt, InputAt
<1>4. Follow(out', OutAt') /\ Follow(fx', FxAt') /\ Follow(mProcBuf', ProcAt')
  BY <1>1, <1>2, FollowNegative DEF Numberless
<1>5. Follow(fill', FillAt') /\ Follow(held', HeldAt') /\ Follow(mInputBuf', InputAt')
  BY <1>1, <1>2, FollowNegative DEF Numberless
<1> QED BY <1>3, <1>4, <1>5 DEF InParts

\* Copies of what is no frame have no number.
LEMMA CopiesNumberless ==
  ASSUME NEW f \in Int, NEW s \in Seq(Int), f < 0
  PROVE  Numberless(Copies(f, s))
<1>1. /\ Copies(f, s) \in Seq(Int) /\ Len(Copies(f, s)) = Len(s)
      /\ \A i \in DOMAIN Copies(f, s) : Copies(f, s)[i] = f
  BY CopiesFacts
<1> QED BY <1>1 DEF Numberless

\* Silence is not junk.
LEMMA CopiesClean ==
  ASSUME NEW s \in Seq(Int)
  PROVE  Clean(Copies(Lost, s))
<1>1. Lost \in Int
  BY DEF Lost
<1>2. /\ Copies(Lost, s) \in Seq(Int) /\ Len(Copies(Lost, s)) = Len(s)
      /\ \A i \in DOMAIN Copies(Lost, s) : Copies(Lost, s)[i] = Lost
  BY <1>1, CopiesFacts
<1> QED BY <1>1, <1>2 DEF Clean

\* The empty buffer.
LEMMA Nothing ==
  <<>> \in Seq(Int) /\ Len(<<>>) = 0 /\ Numberless(<<>>) /\ Clean(<<>>)
BY DEF Numberless, Clean

\* An empty buffer has nothing to copy over.
LEMMA CopiesNothing ==
  ASSUME NEW f
  PROVE  Copies(f, <<>>) = <<>>
BY DEF Copies

-----------------------------------------------------------------------------
(* Opening and closing the driver.                                           *)

\* What every step needs to know of the state it starts from.
LEMMA Types ==
  ASSUME TypeOK
  PROVE  /\ out \in Seq(Int) /\ fx \in Seq(Int) /\ mProcBuf \in Seq(Int)
         /\ fill \in Seq(Int) /\ held \in Seq(Int) /\ mInputBuf \in Seq(Int)
         /\ mRefBuf \in Seq(Int)
         /\ Len(out) \in Nat /\ Len(fx) \in Nat /\ Len(mProcBuf) \in Nat
         /\ Len(fill) \in Nat /\ Len(held) \in Nat /\ Len(mInputBuf) \in Nat
         /\ Len(mRefBuf) \in Nat /\ captured \in Nat
         /\ frames \in Nat /\ mProcBufSize \in Nat /\ mRefBufSize \in Nat
BY CaptureAssumption DEF TypeOK

\* What every step that opens the PCM keeps.
LEMMA OpensKeeps ==
  ASSUME IInv, Opens, out = <<>>, fill = <<>>, out' = <<>>, fill' = <<>>,
         pc' \in {"closed", "idle", "failed", "frames", "fill", "push", "process"},
         frames' \in ReadSizes \cup {0}, mDownSampler' \in BOOLEAN, echo' \in BOOLEAN,
         mPreprocessors' \subseteq Effects, ctl' \in {"idle", "need", "add", "standby"}
  PROVE  /\ TypeOK' /\ BuffersFit' /\ EchoInOrder' /\ InParts' /\ NoJunk'
         /\ FillAt' <= 0 /\ held' = <<>> /\ mProcBuf' = <<>>
<1> USE DEF IInv, Opens, StartsEmpty
<1>0. frames' \in Nat /\ Capacity \in Nat /\ AUDIO_HW_IN_PERIOD_SZ \in Nat
  BY CaptureAssumption
<1>1. /\ fx' \in Seq(Int) /\ Len(fx') = Len(fx) /\ Numberless(fx')
  BY Types, CopiesFacts, CopiesNumberless DEF Lost
<1>2. TypeOK'
  BY <1>0, <1>1, Nothing DEF TypeOK
<1>3. InParts' /\ FillAt' <= 0
  BY <1>1, <1>2, Nothing, NothingCaptured
<1>4. BuffersFit'
  BY <1>0, Nothing DEF BuffersFit
<1>5. EchoInOrder'
  BY DEF EchoInOrder, Frames
<1>6. NoJunk'
  BY Nothing DEF NoJunk
<1> QED BY <1>2, <1>3, <1>4, <1>5, <1>6

\* What every step that closes the PCM keeps.
LEMMA ClosesKeeps ==
  ASSUME IInv, Closes, out = <<>>, fill = <<>>, out' = <<>>, fill' = <<>>,
         pc' \in {"closed", "idle", "failed", "frames", "fill", "push", "process"},
         frames' \in ReadSizes \cup {0}, mDownSampler' \in BOOLEAN, echo' \in BOOLEAN,
         mPreprocessors' \subseteq Effects, ctl' \in {"idle", "need", "add", "standby"}
  PROVE  /\ TypeOK' /\ BuffersFit' /\ EchoInOrder' /\ InParts' /\ NoJunk'
         /\ FillAt' <= 0 /\ (held = <<>> => held' = <<>>)
<1> USE DEF IInv, Closes
<1>0. /\ frames' \in Nat /\ Capacity \in Nat /\ AUDIO_HW_IN_PERIOD_SZ \in Nat
      /\ Lost \in Int /\ Lost < 0 /\ Junk \in Int /\ Junk < 0
  BY CaptureAssumption DEF Lost, Junk
<1>1. /\ fx' \in Seq(Int) /\ Len(fx') = Len(fx) /\ Numberless(fx')
      /\ held' \in Seq(Int) /\ Len(held') = Len(held) /\ Numberless(held')
      /\ mInputBuf' \in Seq(Int) /\ Len(mInputBuf') = Len(mInputBuf)
      /\ Numberless(mInputBuf')
      /\ mProcBuf' \in Seq(Int) /\ Numberless(mProcBuf')
      /\ mRefBuf' \in Seq(Int)
  BY <1>0, Types, CopiesFacts, CopiesNumberless
<1>2. TypeOK'
  BY <1>0, <1>1, Nothing DEF TypeOK
<1>3. InParts' /\ FillAt' <= 0
  BY <1>1, <1>2, Nothing, NothingCaptured
<1>4. BuffersFit'
  BY <1>0, <1>1, Nothing DEF BuffersFit
<1>5. EchoInOrder'
  BY DEF EchoInOrder
<1>6. NoJunk'
  BY Types, Nothing, CopiesClean DEF NoJunk
<1>7. held = <<>> => held' = <<>>
  BY CopiesNothing
<1> QED BY <1>2, <1>3, <1>4, <1>5, <1>6, <1>7

\* A stream that goes to standby, between two calls.
LEMMA StandbyKeeps ==
  ASSUME IInv, GoesToStandby, Unlocked, Unlocked',
         out' = out, fill' = fill, frames' = frames, mDownSampler' = mDownSampler,
         mPreprocessors' \subseteq Effects, ctl' \in {"idle", "need", "add", "standby"}
  PROVE  IInv'
<1>1. /\ Closes /\ out = <<>> /\ fill = <<>> /\ echo' \in BOOLEAN
      /\ pc' \in {"closed", "idle", "failed", "frames", "fill", "push", "process"}
      /\ frames' \in ReadSizes \cup {0} /\ mDownSampler' \in BOOLEAN
  BY DEF IInv, Phases, TypeOK, GoesToStandby, Unlocked
<1>2. /\ TypeOK' /\ BuffersFit' /\ EchoInOrder' /\ InParts' /\ NoJunk'
      /\ FillAt' <= 0 /\ (held = <<>> => held' = <<>>)
  BY <1>1, ClosesKeeps
<1>3. Phases'
  BY <1>1, <1>2 DEF IInv, Phases, Unlocked
<1> QED BY <1>2, <1>3 DEF IInv

\* standby(), and the standby when an effect is added or removed.
LEMMA StandbyAlone ==
  ASSUME IInv, Standby \/ AddStandby \/ RemoveStandby
  PROVE  IInv'
<1>1. /\ GoesToStandby /\ Unlocked /\ Unlocked' /\ out' = out /\ fill' = fill
      /\ frames' = frames /\ mDownSampler' = mDownSampler
      /\ mPreprocessors' \subseteq Effects /\ ctl' \in {"idle", "need", "add", "standby"}
  BY DEF IInv, TypeOK, Standby, AddStandby, RemoveStandby, Unlocked, rateVars
<1> QED BY <1>1, StandbyKeeps

\* A read that finds the stream in standby opens the PCM again.
LEMMA RestartKeeps ==
  ASSUME IInv, Restart
  PROVE  IInv'
<1>1. /\ Unlocked /\ Unlocked' /\ out' = out /\ fill' = fill /\ frames' = frames
      /\ pc' = pc /\ mDownSampler' = mDownSampler /\ mPreprocessors' = mPreprocessors
      /\ mPreprocessors' \subseteq Effects /\ ctl' \in {"idle", "need", "add", "standby"}
  BY DEF IInv, TypeOK, Restart, Unlocked, rateVars
<1>2. CASE Opens /\ UNCHANGED echo
  <2>1. /\ out = <<>> /\ fill = <<>> /\ echo' \in BOOLEAN
        /\ pc' \in {"closed", "idle", "failed", "frames", "fill", "push", "process"}
        /\ frames' \in ReadSizes \cup {0} /\ mDownSampler' \in BOOLEAN
    BY <1>1, <1>2 DEF IInv, Phases, TypeOK, Unlocked
  <2>2. /\ TypeOK' /\ BuffersFit' /\ EchoInOrder' /\ InParts' /\ NoJunk'
        /\ FillAt' <= 0 /\ held' = <<>>
    BY <1>1, <1>2, <2>1, OpensKeeps
  <2>3. Phases'
    BY <1>1, <2>1, <2>2 DEF IInv, Phases, Unlocked
  <2> QED BY <2>2, <2>3 DEF IInv
<1>3. CASE GoesToStandby
  BY <1>1, <1>3, StandbyKeeps
<1> QED BY <1>2, <1>3 DEF Restart

\* A read that failed leaves the stream in standby.
LEMMA ReadFailedKeeps ==
  ASSUME IInv, ReadFailed
  PROVE  IInv'
<1>1. out = <<>> /\ fill = <<>>
  BY DEF IInv, Phases, ReadFailed
<1>2. /\ GoesToStandby /\ Unlocked /\ Unlocked' /\ out' = out /\ fill' = fill
      /\ frames' = frames /\ mDownSampler' = mDownSampler
      /\ mPreprocessors' \subseteq Effects /\ ctl' \in {"idle", "need", "add", "standby"}
  BY <1>1 DEF IInv, TypeOK, ReadFailed, Unlocked, rateVars
<1> QED BY <1>2, StandbyKeeps

\* What the invariant says of frames stays when none is moved.
LEMMA FramesStay ==
  ASSUME IInv, UNCHANGED <<dataVars, mProcBufSize, mRefBufSize, mRefBuf, active>>
  PROVE  EchoInOrder' /\ InParts' /\ NoJunk' /\ FillAt' = FillAt
BY DEF IInv, EchoInOrder, InParts, NoJunk, OutAt, FxAt, ProcAt, FillAt, HeldAt, InputAt,
       dataVars

\* The call of read(), in the state in which the stream is.
LEMMA CallReadKeeps ==
  ASSUME IInv, NEW n \in ReadSizes, CallRead(n)
  PROVE  IInv'
<1>1. /\ pc = "idle" /\ out = <<>> /\ fill = <<>> /\ out' = <<>> /\ fill' = <<>>
      /\ frames' = n /\ frames' \in ReadSizes \cup {0} /\ n \in Nat /\ n > 0
      /\ mDownSampler' = mDownSampler /\ mPreprocessors' = mPreprocessors
      /\ mDownSampler' \in BOOLEAN /\ echo' \in BOOLEAN
      /\ mPreprocessors' \subseteq Effects /\ ctl' = ctl
      /\ ctl' \in {"idle", "need", "add", "standby"}
  <2>1. /\ pc = "idle" /\ frames' = n /\ out' = out /\ fill' = fill
        /\ mDownSampler' = mDownSampler /\ mPreprocessors' = mPreprocessors /\ ctl' = ctl
    BY DEF CallRead, dataVars, rateVars
  <2>2. echo' \in BOOLEAN
    BY DEF IInv, TypeOK, CallRead
  <2>3. out = <<>> /\ fill = <<>>
    BY <2>1 DEF IInv, Phases
  <2>4. n \in Nat /\ n > 0
    BY CaptureAssumption
  <2> QED BY <2>1, <2>2, <2>3, <2>4 DEF IInv, TypeOK
<1>2. CASE active /\ Begins /\ UNCHANGED <<dataVars, sizeVars, mRefBuf, active, echo>>
  <2>1. EchoInOrder' /\ InParts' /\ NoJunk' /\ FillAt' = FillAt
    BY <1>2, FramesStay DEF sizeVars
  <2>2. TypeOK'
    BY <1>1, <1>2 DEF IInv, TypeOK, Begins, dataVars, sizeVars
  <2>3. BuffersFit'
    BY <1>1, <1>2, Nothing DEF IInv, BuffersFit, dataVars, sizeVars
  <2>4. Phases'
    BY <1>1, <1>2, <2>1, Nothing DEF IInv, Phases, Begins, Wanted, dataVars, sizeVars
  <2> QED BY <2>1, <2>2, <2>3, <2>4 DEF IInv
<1>3. CASE Opens /\ Begins
  <2>1. pc' \in {"closed", "idle", "failed", "frames", "fill", "push", "process"}
    BY <1>3 DEF Begins
  <2>2. /\ TypeOK' /\ BuffersFit' /\ EchoInOrder' /\ InParts' /\ NoJunk'
        /\ FillAt' <= 0 /\ held' = <<>>
    BY <1>1, <1>3, <2>1, OpensKeeps
  <2>3. Phases'
    BY <1>1, <1>3, <2>2, Nothing DEF IInv, Phases, Begins, Opens, Wanted
  <2> QED BY <2>2, <2>3 DEF IInv
<1>4. CASE /\ pc' = "failed"
           /\ UNCHANGED <<mInputBuf, held, mProcBuf, fx, captured, sizeVars, mRefBuf,
                          active>>
  <2>1. EchoInOrder' /\ InParts' /\ NoJunk' /\ FillAt' = FillAt
    BY <1>1, <1>4, FramesStay DEF sizeVars, dataVars
  <2>2. TypeOK'
    BY <1>1, <1>4 DEF IInv, TypeOK, sizeVars
  <2>3. BuffersFit'
    BY <1>1, <1>4, Nothing DEF IInv, BuffersFit, sizeVars
  <2>4. Phases'
    BY <1>1, <1>4, <2>1 DEF IInv, Phases
  <2> QED BY <2>1, <2>2, <2>3, <2>4 DEF IInv
<1> QED BY <1>2, <1>3, <1>4 DEF CallRead

-----------------------------------------------------------------------------
(* Steps that move no frames.                                                *)

\* Such a step keeps the invariant if it leaves the effects of a read alone.
LEMMA StillKeeps ==
  ASSUME IInv, UNCHANGED <<frames, dataVars, sizeVars, mRefBuf, active, mDownSampler, pc>>,
         mPreprocessors' = mPreprocessors \/ pc \in {"idle", "failed"},
         mPreprocessors' = {} => mPreprocessors = {}, mPreprocessors' \subseteq Effects,
         echo' \in BOOLEAN, ctl' \in {"idle", "need", "add", "standby"}
  PROVE  IInv'
<1>1. EchoInOrder' /\ InParts' /\ NoJunk' /\ FillAt' = FillAt
  BY FramesStay DEF sizeVars
<1>2. TypeOK'
  BY DEF IInv, TypeOK, dataVars, sizeVars
<1>3. BuffersFit'
  BY Nothing DEF IInv, BuffersFit, Phases, dataVars, sizeVars
<1>4. Phases'
  BY <1>1 DEF IInv, Phases, Wanted, dataVars, sizeVars
<1> QED BY <1>1, <1>2, <1>3, <1>4 DEF IInv

\* addAudioEffect(), but for its standby.
LEMMA EffectsKeep ==
  ASSUME IInv, NeedEchoReference \/ AddEffect
  PROVE  IInv'
<1>1. /\ UNCHANGED <<frames, dataVars, sizeVars, mRefBuf, active, mDownSampler, pc>>
      /\ mPreprocessors' = mPreprocessors \/ pc \in {"idle", "failed"}
      /\ mPreprocessors' = {} => mPreprocessors = {}
      /\ mPreprocessors' \subseteq Effects
      /\ echo' \in BOOLEAN /\ ctl' \in {"idle", "need", "add", "standby"}
  BY DEF IInv, TypeOK, NeedEchoReference, AddEffect, Unlocked, rateVars, Effects
<1> QED BY <1>1, StillKeeps

\* openInputStream() makes a new stream.
LEMMA OpenInputStreamKeeps ==
  ASSUME IInv, NEW r \in AskedRates, OpenInputStream(r)
  PROVE  IInv'
<1>1. /\ pc = "closed" /\ pc' \in {"closed", "idle"} /\ mDownSampler' \in BOOLEAN
      /\ UNCHANGED <<frames, dataVars, sizeVars, mRefBuf, streamVars>>
  <2>1. ASSUME mDownSampler' = (r # 44100) PROVE mDownSampler' \in BOOLEAN
    BY <2>1, SMT
  <2>2. ASSUME UNCHANGED mDownSampler PROVE mDownSampler' \in BOOLEAN
    BY <2>2 DEF IInv, TypeOK
  <2>3. mDownSampler' \in BOOLEAN
    BY <2>1, <2>2 DEF OpenInputStream
  <2> QED BY <2>3 DEF OpenInputStream
<1>2. EchoInOrder' /\ InParts' /\ NoJunk' /\ FillAt' = FillAt
  BY <1>1, FramesStay DEF sizeVars, streamVars
<1>3. TypeOK'
  BY <1>1 DEF IInv, TypeOK, dataVars, sizeVars, streamVars
<1>4. BuffersFit'
  BY <1>1 DEF IInv, BuffersFit, dataVars, sizeVars, streamVars
<1>5. Phases'
  BY <1>1, <1>2 DEF IInv, Phases, dataVars, sizeVars, streamVars
<1> QED BY <1>2, <1>3, <1>4, <1>5 DEF IInv

\* closeInputStream() throws it away.
LEMMA CloseInputStreamKeeps ==
  ASSUME IInv, CloseInputStream
  PROVE  IInv'
<1> USE DEF CloseInputStream
<1>0. {out', fill', mInputBuf', held', mProcBuf', fx', mRefBuf'} \subseteq Seq(Int)
  BY Nothing
<1>1. TypeOK'
  <2>1. Len(held') <= Capacity /\ Len(fx') <= Capacity
    BY Nothing, CaptureAssumption
  <2>2. ctl' \in {"idle", "need", "add", "standby"} /\ mPreprocessors' \subseteq Effects
    BY DEF IInv, TypeOK
  <2> QED BY <1>0, <2>1, <2>2 DEF TypeOK
<1>2. InParts' /\ FillAt' <= 0
  BY <1>1, Nothing, NothingCaptured
<1>3. BuffersFit'
  BY Nothing, CaptureAssumption DEF BuffersFit
<1>4. EchoInOrder' /\ NoJunk'
  BY Nothing DEF EchoInOrder, NoJunk
<1>5. Phases'
  BY <1>2 DEF Phases
<1> QED BY <1>1, <1>2, <1>3, <1>4, <1>5 DEF IInv

\* readFrames() is asked for what mProcBuf lacks.
LEMMA FillProcBufKeeps ==
  ASSUME IInv, FillProcBuf
  PROVE  IInv'
<1> USE DEF FillProcBuf
<1>1. /\ pc = "fill" /\ fill = <<>> /\ active /\ mPreprocessors # {}
      /\ UNCHANGED <<frames, dataVars, mRefBufSize, mRefBuf, streamVars, rateVars>>
  BY DEF IInv, Phases
<1>2. EchoInOrder' /\ InParts' /\ NoJunk' /\ FillAt' = FillAt
  BY <1>1 DEF IInv, EchoInOrder, InParts, NoJunk, OutAt, FxAt, ProcAt, FillAt, HeldAt,
              InputAt, dataVars, streamVars
<1>3. CASE /\ Len(mProcBuf) < frames /\ mProcBufSize' = Larger(mProcBufSize, frames)
           /\ pc' = "frames"
  <2>0. /\ frames \in Nat /\ mProcBufSize \in Nat /\ Len(mProcBuf) \in Nat
    BY Types DEF IInv
  <2>1. mProcBufSize' \in Nat /\ mProcBufSize' >= mProcBufSize /\ mProcBufSize' >= frames
    BY <1>3, <2>0 DEF Larger
  <2>2. TypeOK'
    BY <1>1, <1>3, <2>1 DEF IInv, TypeOK, dataVars, streamVars, rateVars
  <2>3. BuffersFit'
    BY <1>1, <1>3, <2>0, <2>1, Nothing DEF IInv, BuffersFit, dataVars, streamVars
  <2>4. Phases'
    BY <1>1, <1>2, <1>3, <2>0, <2>1, Nothing
    DEF IInv, Phases, Wanted, dataVars, streamVars, rateVars
  <2> QED BY <1>2, <2>2, <2>3, <2>4 DEF IInv
<1>4. CASE pc' \in {"push", "process"} /\ UNCHANGED mProcBufSize
  <2>1. TypeOK'
    BY <1>1, <1>4 DEF IInv, TypeOK, dataVars, streamVars, rateVars
  <2>2. BuffersFit'
    BY <1>1, <1>4 DEF IInv, BuffersFit, dataVars, streamVars
  <2>3. Phases'
    BY <1>1, <1>2, <1>4 DEF IInv, Phases, dataVars, streamVars, rateVars
  <2> QED BY <1>2, <2>1, <2>2, <2>3 DEF IInv
<1> QED BY <1>3, <1>4 DEF Reloads, GrownProcBuf

-----------------------------------------------------------------------------
(* The echo reference.                                                       *)

\* When c of n frames are handed over, the other n - c are counted from zero.
LEMMA RenumberedFrames ==
  ASSUME NEW n \in Nat, NEW c \in 0..n
  PROVE  Renumbered(Beyond(Frames(0, n), c), c) = Frames(0, n - c)
<1> DEFINE s == Frames(0, n)
           b == Beyond(s, c)
<1>1. s \in Seq(Int) /\ Len(s) = n /\ \A i \in 1..n : s[i] = 0 + i - 1
  BY FramesFacts
<1> HIDE DEF s
<1>2. b \in Seq(Int) /\ Len(b) = n - c /\ \A i \in 1..(n - c) : b[i] = s[c + i]
  BY <1>1, BeyondFacts
<1> HIDE DEF b
<1>3. \A i \in 1..(n - c) : b[i] = c + i - 1
  BY <1>1, <1>2
<1>4. DOMAIN b = 1..(n - c)
  BY <1>2
<1>5. Renumbered(b, c) = [i \in 1..(n - c) |-> i - 1]
  BY <1>3, <1>4 DEF Renumbered
<1> QED BY <1>5 DEF Frames, s, b

\* Frames captured in two lots are frames captured in one.
LEMMA FramesJoin ==
  ASSUME NEW a \in Nat, NEW k \in Nat
  PROVE  /\ Frames(0, a) \o Frames(a, k) = Frames(0, a + k)
         /\ Len(Frames(0, a) \o Frames(a, k)) = a + k
<1> DEFINE s == Frames(0, a)
           t == Frames(a, k)
           st == s \o t
<1>1. s \in Seq(Int) /\ Len(s) = a /\ \A i \in 1..a : s[i] = 0 + i - 1
  BY FramesFacts
<1>2. t \in Seq(Int) /\ Len(t) = k /\ \A i \in 1..k : t[i] = a + i - 1
  BY FramesFacts
<1> HIDE DEF s, t
<1>3. /\ st \in Seq(Int) /\ Len(st) = a + k
      /\ \A i \in 1..a : st[i] = s[i]
      /\ \A i \in 1..k : st[a + i] = t[i]
  BY <1>1, <1>2, ConcatFacts
<1> HIDE DEF st
<1>4. ASSUME NEW i \in 1..(a + k) PROVE st[i] = i - 1
  <2>1. CASE i <= a
    BY <1>1, <1>3, <2>1
  <2>2. CASE i > a
    <3>1. PICK j \in 1..k : i = a + j
      BY <2>2
    <3>2. st[a + j] = t[j]
      BY <1>3
    <3>3. t[j] = a + j - 1
      BY <1>2
    <3> QED BY <3>1, <3>2, <3>3
  <2> QED BY <2>1, <2>2
<1>5. st = [i \in 1..(a + k) |-> i - 1]
  BY <1>3, <1>4
<1> QED BY <1>3, <1>5 DEF Frames, st, s, t

\* pushEchoReference() fills mRefBuf up to mProcBuf.
LEMMA PushEchoReferenceKeeps ==
  ASSUME IInv, PushEchoReference
  PROVE  IInv'
<1>1. /\ pc = "push" /\ pc' = "process" /\ active /\ fill = <<>>
      /\ UNCHANGED <<frames, dataVars, mProcBufSize, streamVars, rateVars>>
  BY DEF IInv, Phases, PushEchoReference
<1>0. Len(mProcBuf) \in Nat /\ Len(mRefBuf) \in Nat /\ mRefBufSize \in Nat
  BY Types DEF IInv
<1> DEFINE n == Len(mProcBuf)
           missing == Larger(n - Len(mRefBuf), 0)
<1>2. PICK k \in 0..missing :
        LET buf == mRefBuf \o Frames(Len(mRefBuf), k)
        IN  \E c \in 0..Smaller(n, Len(buf)) :
              mRefBuf' = Renumbered(Remaining(buf, c), c)
  BY DEF PushEchoReference
<1> DEFINE buf == mRefBuf \o Frames(Len(mRefBuf), k)
           m == Len(mRefBuf) + k
<1>3. missing \in Nat /\ k \in Nat /\ m \in Nat /\ Len(mRefBuf) + missing <= Larger(n, Len(mRefBuf))
  BY <1>0 DEF Larger
<1>4. mRefBuf = Frames(0, Len(mRefBuf)) /\ Len(mRefBuf) <= mRefBufSize
  BY <1>1 DEF IInv, EchoInOrder, BuffersFit
<1>5. buf = Frames(0, m) /\ Len(buf) = m
  BY <1>0, <1>3, <1>4, FramesJoin
<1>6. PICK c \in 0..Smaller(n, m) : mRefBuf' = Renumbered(Remaining(buf, c), c)
  BY <1>2, <1>5
<1>7. c \in 0..m /\ mRefBuf' = Frames(0, m - c)
  BY <1>0, <1>3, <1>5, <1>6, RenumberedFrames DEF Smaller, Remaining
<1>8. mRefBuf' \in Seq(Int) /\ Len(mRefBuf') = m - c
  <2>1. 0 \in Int /\ m - c \in Nat
    BY <1>3, <1>7
  <2> QED BY <1>7, <2>1, FramesFacts
<1>9. mRefBufSize' \in Nat /\ m - c <= mRefBufSize'
  BY <1>0, <1>3, <1>4, <1>7 DEF PushEchoReference, Larger
<1>10. \A i \in DOMAIN mRefBuf' : mRefBuf'[i] # Junk
  BY <1>3, <1>7 DEF Frames, Junk
<1>11. TypeOK'
  BY <1>1, <1>8, <1>9 DEF IInv, TypeOK, dataVars, streamVars, rateVars
<1>12. BuffersFit'
  BY <1>1, <1>8, <1>9, <1>10 DEF IInv, BuffersFit, dataVars, streamVars
<1>13. EchoInOrder' /\ InParts' /\ NoJunk' /\ FillAt' = FillAt
  BY <1>1, <1>7, <1>8 DEF IInv, EchoInOrder, InParts, NoJunk, OutAt, FxAt, ProcAt, FillAt,
                       HeldAt, InputAt, dataVars, streamVars
<1>14. Phases'
  BY <1>1, <1>13 DEF IInv, Phases, dataVars, streamVars, rateVars
<1> QED BY <1>11, <1>12, <1>13, <1>14 DEF IInv

-----------------------------------------------------------------------------
(* Steps that move frames within a read.                                     *)

\* Where everything is, as numbers.
LEMMA Places ==
  ASSUME TypeOK
  PROVE  /\ OutAt \in Int /\ FxAt \in Int /\ ProcAt \in Int
         /\ FillAt \in Int /\ HeldAt \in Int /\ InputAt \in Int
         /\ FxAt = OutAt + Len(out) /\ ProcAt = FxAt + Len(fx)
         /\ FillAt = ProcAt + Len(mProcBuf) /\ HeldAt = FillAt + Len(fill)
         /\ InputAt = HeldAt + Len(held) /\ captured = InputAt + Len(mInputBuf)
<1>1. /\ Len(out) \in Nat /\ Len(fx) \in Nat /\ Len(mProcBuf) \in Nat
      /\ Len(fill) \in Nat /\ Len(held) \in Nat /\ Len(mInputBuf) \in Nat
      /\ captured \in Nat
  BY Types
<1>2. /\ InputAt \in Int /\ captured = InputAt + Len(mInputBuf)
      /\ HeldAt \in Int /\ InputAt = HeldAt + Len(held)
      /\ FillAt \in Int /\ HeldAt = FillAt + Len(fill)
  BY <1>1 DEF FillAt, HeldAt, InputAt
<1>3. /\ ProcAt \in Int /\ FillAt = ProcAt + Len(mProcBuf)
      /\ FxAt \in Int /\ ProcAt = FxAt + Len(fx)
      /\ OutAt \in Int /\ FxAt = OutAt + Len(out)
  BY <1>1, <1>2 DEF OutAt, FxAt, ProcAt
<1> QED BY <1>2, <1>3

\* A clean buffer has no junk.
LEMMA CleanNoJunk ==
  ASSUME NEW s \in Seq(Int), Clean(s)
  PROVE  \A i \in DOMAIN s : s[i] # Junk
<1> SUFFICES ASSUME NEW i \in 1..Len(s) PROVE s[i] # Junk
  OBVIOUS
<1>1. s[i] \in Int /\ s[i] >= Lost
  BY DEF Clean
<1> QED BY <1>1 DEF Lost, Junk

\* Both parts of a clean buffer are clean.
LEMMA CleanPieces ==
  ASSUME NEW s \in Seq(Int), NEW n \in 0..Len(s), Clean(s)
  PROVE  Clean(Upto(s, n)) /\ Clean(Beyond(s, n))
<1> DEFINE u == Upto(s, n)
           b == Beyond(s, n)
<1>1. Len(u) = n /\ \A i \in 1..n : u[i] = s[i]
  BY UptoFacts
<1>2. Len(b) = Len(s) - n /\ \A i \in 1..(Len(s) - n) : b[i] = s[n + i]
  BY BeyondFacts
<1> HIDE DEF u, b
<1>3. PICK a \in Nat : a = Len(s)
  OBVIOUS
<1>4. (\A i \in 1..n : i \in 1..a) /\ (\A i \in 1..(a - n) : n + i \in 1..a)
  BY <1>3
<1>5. Clean(u) /\ Clean(b)
  BY <1>1, <1>2, <1>3, <1>4 DEF Clean
<1> QED BY <1>5 DEF u, b

\* Clean buffers make a clean buffer.
LEMMA CleanConcat ==
  ASSUME NEW s \in Seq(Int), NEW t \in Seq(Int), Clean(s), Clean(t)
  PROVE  Clean(s \o t)
<1> DEFINE st == s \o t
<1>1. PICK a \in Nat : a = Len(s)
  OBVIOUS
<1>2. PICK b \in Nat : b = Len(t)
  OBVIOUS
<1>3. /\ Len(st) = a + b
      /\ \A i \in 1..a : st[i] = s[i]
      /\ \A i \in 1..b : st[a + i] = t[i]
  BY <1>1, <1>2, ConcatFacts
<1> HIDE DEF st
<1>4. ASSUME NEW i \in 1..(a + b) PROVE st[i] >= Lost
  <2>1. CASE i <= a
    BY <1>1, <1>3, <2>1 DEF Clean
  <2>2. CASE i > a
    <3>1. PICK j \in 1..b : i = a + j
      BY <2>2
    <3>2. st[a + j] = t[j] /\ t[j] >= Lost
      BY <1>2, <1>3 DEF Clean
    <3> QED BY <3>1, <3>2
  <2> QED BY <2>1, <2>2
<1>5. Clean(st)
  BY <1>3, <1>4 DEF Clean
<1> QED BY <1>5 DEF st

\* Frames as captured are clean.
LEMMA CleanFrames ==
  ASSUME NEW first \in Nat, NEW n \in Nat
  PROVE  Clean(Frames(first, n))
<1>1. /\ Len(Frames(first, n)) = n
      /\ \A i \in 1..n : Frames(first, n)[i] = first + i - 1
  BY FramesFacts
<1> QED BY <1>1 DEF Clean, Lost

\* Renumbering a clean buffer makes no junk.
LEMMA CleanRenumbered ==
  ASSUME NEW s \in Seq(Int), NEW k \in Nat, Clean(s)
  PROVE  Clean(Renumbered(s, k))
<1>1. /\ Len(Renumbered(s, k)) = Len(s)
      /\ \A i \in 1..Len(s) :
           Renumbered(s, k)[i] = IF s[i] >= k THEN s[i] - k ELSE Smaller(s[i], Lost)
  BY RenumberedFacts
<1> SUFFICES ASSUME NEW i \in 1..Len(s) PROVE Renumbered(s, k)[i] >= Lost
  BY <1>1 DEF Clean
<1>2. s[i] \in Int /\ s[i] >= Lost
  BY DEF Clean
<1> QED BY <1>1, <1>2 DEF Smaller, Lost

\* Reading is where frames reach mInputBuf, the down sampler and the buffer of
\* readFrames(); the other buffers stay.
LEMMA ReadingKeeps ==
  ASSUME IInv, pc = "frames", pc' = "frames",
         UNCHANGED <<frames, out, mProcBuf, fx, sizeVars, mRefBuf, streamVars, rateVars>>,
         mInputBuf' \in Seq(Int), held' \in Seq(Int), fill' \in Seq(Int), captured' \in Nat,
         Clean(fill'), Clean(held'), Clean(mInputBuf'),
         Len(mInputBuf') <= AUDIO_HW_IN_PERIOD_SZ, Len(held') <= Capacity,
         Len(fill') <= Wanted, ~mDownSampler => held' = <<>>,
         FillAt' = FillAt, Follow(fill', FillAt'), Follow(held', HeldAt'),
         Follow(mInputBuf', InputAt')
  PROVE  IInv'
<1>0. Len(mProcBuf) \in Nat /\ Len(fill') \in Nat /\ frames \in Nat /\ mProcBufSize \in Nat
  BY Types DEF IInv
<1>1. TypeOK'
  BY DEF IInv, TypeOK, sizeVars, streamVars, rateVars
<1>2. BuffersFit'
  <2>1. CASE mPreprocessors = {}
    BY <2>1 DEF IInv, BuffersFit, sizeVars, streamVars
  <2>2. CASE mPreprocessors # {}
    <3>1. Len(mProcBuf) + Len(fill') <= mProcBufSize
      BY <1>0, <2>2 DEF IInv, Phases, Wanted
    <3> QED BY <2>2, <3>1 DEF IInv, BuffersFit, sizeVars, streamVars
  <2> QED BY <2>1, <2>2
<1>3. EchoInOrder'
  BY DEF IInv, EchoInOrder, streamVars
<1>4. ProcAt' = ProcAt /\ FxAt' = FxAt /\ OutAt' = OutAt
  BY DEF ProcAt, FxAt, OutAt
<1>5. InParts'
  BY <1>4 DEF IInv, InParts
<1>6. NoJunk'
  BY DEF IInv, NoJunk, streamVars
<1>7. Phases'
  BY DEF IInv, Phases, Wanted, sizeVars, streamVars, rateVars
<1> QED BY <1>1, <1>2, <1>3, <1>5, <1>6, <1>7 DEF IInv

\* pcm_read() fills the empty mInputBuf.
LEMMA PcmReadKeeps ==
  ASSUME IInv, PcmRead
  PROVE  IInv'
<1> DEFINE period == Frames(captured, AUDIO_HW_IN_PERIOD_SZ)
<1>0. /\ captured \in Nat /\ AUDIO_HW_IN_PERIOD_SZ \in Nat /\ pc = "frames" /\ active
      /\ mInputBuf = <<>> /\ Len(fill) <= Wanted
      /\ UNCHANGED <<frames, sizeVars, mRefBuf, streamVars, rateVars>>
  BY Types, CaptureAssumption DEF IInv, Phases, PcmRead, Reading, NeedsPeriod
<1>1. CASE /\ mInputBuf' = mInputBuf \o period
           /\ captured' = captured + AUDIO_HW_IN_PERIOD_SZ
           /\ UNCHANGED <<pc, out, fill, held, mProcBuf, fx>>
  <2>1. /\ mInputBuf' = period /\ period \in Seq(Int)
        /\ Len(period) = AUDIO_HW_IN_PERIOD_SZ
    BY <1>0, <1>1, FramesFacts
  <2>2. InputAt = captured /\ InputAt' = captured
    BY <1>0, <1>1, <2>1, Nothing DEF InputAt
  <2>3. HeldAt' = HeldAt /\ FillAt' = FillAt
    BY <1>1, <2>2 DEF HeldAt, FillAt
  <2>4. Follow(mInputBuf', InputAt') /\ Clean(mInputBuf')
    BY <1>0, <2>1, <2>2, FollowFrames, CleanFrames
  <2>5. /\ held' \in Seq(Int) /\ fill' \in Seq(Int) /\ captured' \in Nat
        /\ mInputBuf' \in Seq(Int) /\ Len(mInputBuf') <= AUDIO_HW_IN_PERIOD_SZ
    BY <1>0, <1>1, <2>1, Types DEF IInv
  <2>6. /\ Clean(fill') /\ Clean(held') /\ Len(held') <= Capacity /\ Len(fill') <= Wanted
        /\ (~mDownSampler => held' = <<>>)
        /\ Follow(fill', FillAt') /\ Follow(held', HeldAt')
    BY <1>0, <1>1, <2>3 DEF IInv, NoJunk, TypeOK, Phases, InParts
  <2> QED BY <1>0, <1>1, <2>3, <2>4, <2>5, <2>6, ReadingKeeps
<1>2. CASE pc' = "failed" /\ out' = <<>> /\ fill' = <<>> /\ LosesAll
  <2>0. Lost \in Int /\ Lost < 0 /\ 0 \in Nat
    BY DEF Lost
  <2>1. /\ fx' \in Seq(Int) /\ Len(fx') = Len(fx) /\ Numberless(fx')
        /\ held' \in Seq(Int) /\ Len(held') = Len(held) /\ Numberless(held')
        /\ mInputBuf' \in Seq(Int) /\ Len(mInputBuf') = Len(mInputBuf)
        /\ Numberless(mInputBuf')
        /\ mProcBuf' \in Seq(Int) /\ Len(mProcBuf') = Len(mProcBuf) /\ Numberless(mProcBuf')
        /\ captured' = 0
    BY <1>2, <2>0, Types, CopiesFacts, CopiesNumberless DEF IInv, LosesAll
  <2>2. TypeOK'
    BY <1>0, <1>2, <2>1, Nothing DEF IInv, TypeOK, sizeVars, streamVars, rateVars
  <2>3. InParts' /\ FillAt' <= 0
    BY <1>2, <2>1, <2>2, Nothing, NothingCaptured
  <2>4. Clean(held') /\ Clean(mInputBuf') /\ Clean(mProcBuf') /\ Clean(fill')
    BY <1>2, Types, CopiesClean, Nothing DEF IInv, LosesAll
  <2>5. \A i \in DOMAIN mProcBuf' : mProcBuf'[i] # Junk
    BY <2>1, <2>4, CleanNoJunk
  <2>6. Len(mProcBuf') <= mProcBufSize'
    <3>1. Len(mProcBuf) \in Nat /\ Len(fill) \in Nat /\ mProcBufSize \in Nat
      BY Types DEF IInv
    <3>2. Len(mProcBuf) <= mProcBufSize
      BY <1>0, <3>1 DEF IInv, BuffersFit
    <3> QED BY <1>0, <2>1, <3>2 DEF sizeVars
  <2>7. BuffersFit'
    <3>1. frames' \in Nat /\ Len(mProcBuf') \in Nat
      BY <1>0, <2>1, Types DEF IInv
    <3>2. Len(out') <= frames' /\ Len(mInputBuf') <= AUDIO_HW_IN_PERIOD_SZ
      BY <1>2, <2>1, <3>1, Nothing DEF IInv, BuffersFit
    <3>3. Len(mRefBuf') <= mRefBufSize' /\ \A i \in DOMAIN mRefBuf' : mRefBuf'[i] # Junk
      BY <1>0 DEF IInv, BuffersFit, sizeVars
    <3>4. Len(fill') = 0
      BY <1>2, Nothing
    <3> QED BY <2>5, <2>6, <3>1, <3>2, <3>3, <3>4 DEF BuffersFit
  <2>8. EchoInOrder'
    BY <1>0 DEF IInv, EchoInOrder, streamVars
  <2>9. NoJunk'
    BY <2>4 DEF NoJunk
  <2>10. Phases'
    BY <1>0, <1>2, <2>3, CopiesNothing DEF IInv, Phases, LosesAll, rateVars
  <2> QED BY <2>2, <2>3, <2>7, <2>8, <2>9, <2>10 DEF IInv
<1> QED BY <1>1, <1>2 DEF PcmRead

\* Without the down-sampler the frames go to the read as they are.
LEMMA TakeFramesKeeps ==
  ASSUME IInv, TakeFrames
  PROVE  IInv'
<1> DEFINE n == Smaller(Wanted - Len(fill), Len(mInputBuf))
<1>0. /\ fill \in Seq(Int) /\ mInputBuf \in Seq(Int) /\ held = <<>>
      /\ Len(fill) \in Nat /\ Len(mInputBuf) \in Nat
      /\ pc = "frames" /\ Clean(fill) /\ Clean(mInputBuf)
      /\ Follow(fill, FillAt) /\ Follow(mInputBuf, InputAt)
      /\ UNCHANGED <<ReadUnchanged, pc, out, held, captured>>
  BY Types DEF IInv, Phases, InParts, NoJunk, TakeFrames, Reading
<1>1. /\ FillAt \in Int /\ HeldAt \in Int /\ InputAt \in Int /\ captured \in Nat
      /\ HeldAt = FillAt + Len(fill) /\ InputAt = HeldAt + Len(held)
      /\ captured = InputAt + Len(mInputBuf)
  BY Types, Places DEF IInv
<1>2. Wanted \in Int /\ Len(fill) < Wanted
  <2>1. frames \in Nat /\ Len(mProcBuf) \in Nat
    BY Types DEF IInv
  <2> QED BY <2>1 DEF TakeFrames, Reading, Wanted
<1>3. n \in 0..Len(mInputBuf) /\ Len(fill) + n <= Wanted
  BY <1>0, <1>2 DEF Smaller
<1> HIDE DEF n
<1>4. /\ Upto(mInputBuf, n) \in Seq(Int) /\ Len(Upto(mInputBuf, n)) = n
      /\ Beyond(mInputBuf, n) \in Seq(Int)
      /\ Len(Beyond(mInputBuf, n)) = Len(mInputBuf) - n
      /\ Follow(Upto(mInputBuf, n), InputAt) /\ Follow(Beyond(mInputBuf, n), InputAt + n)
      /\ Clean(Upto(mInputBuf, n)) /\ Clean(Beyond(mInputBuf, n))
  BY <1>0, <1>1, <1>3, UptoFacts, BeyondFacts, FollowUpto, FollowBeyond, CleanPieces
<1>5. fill' = fill \o Upto(mInputBuf, n) /\ mInputBuf' = Beyond(mInputBuf, n)
  BY DEF TakeFrames, n
<1>6. /\ fill' \in Seq(Int) /\ Len(fill') = Len(fill) + n /\ Clean(fill')
      /\ Len(fill') <= Wanted
  BY <1>0, <1>3, <1>4, <1>5, ConcatFacts, CleanConcat
<1>7. Len(held) = 0 /\ n \in Nat
  BY <1>0, <1>3, Nothing
<1>8. InputAt' = InputAt + n /\ HeldAt' = HeldAt + n /\ FillAt' = FillAt
  <2>1. InputAt' = InputAt + n
    <3>1. captured' = captured /\ Len(mInputBuf') = Len(mInputBuf) - n
      BY <1>0, <1>4, <1>5
    <3>2. InputAt' = captured' - Len(mInputBuf')
      BY DEF InputAt
    <3> QED BY <1>0, <1>1, <1>7, <3>1, <3>2
  <2>2. HeldAt' = HeldAt + n
    BY <1>0, <1>1, <2>1, <1>7 DEF HeldAt
  <2>3. FillAt' = HeldAt' - Len(fill')
    BY DEF FillAt
  <2>4. Len(fill') = Len(fill) + n
    BY <1>6
  <2> QED BY <1>0, <1>1, <1>7, <2>1, <2>2, <2>3, <2>4
<1>9. Follow(fill', FillAt')
  <2>1. InputAt = FillAt + Len(fill)
    BY <1>0, <1>1, <1>7
  <2> QED BY <1>0, <1>1, <1>4, <1>5, <1>8, <2>1, FollowNext
<1>10. Follow(held', HeldAt')
  BY <1>0 DEF Follow
<1>11. Follow(mInputBuf', InputAt')
  BY <1>4, <1>5, <1>8
<1>12. Len(mInputBuf') <= AUDIO_HW_IN_PERIOD_SZ
  <2>1. Len(mInputBuf) <= AUDIO_HW_IN_PERIOD_SZ /\ AUDIO_HW_IN_PERIOD_SZ \in Nat
    BY CaptureAssumption DEF IInv, BuffersFit
  <2> QED BY <1>0, <1>4, <1>5, <1>7, <2>1
<1>13. /\ Clean(held') /\ held' \in Seq(Int) /\ Len(held') <= Capacity
       /\ captured' \in Nat /\ mInputBuf' \in Seq(Int) /\ Clean(mInputBuf')
       /\ held' = <<>> /\ pc' = "frames"
       /\ UNCHANGED <<frames, out, mProcBuf, fx, sizeVars, mRefBuf, streamVars, rateVars>>
  BY <1>0, <1>1, <1>4, <1>5, Nothing DEF IInv, TypeOK, ReadUnchanged
<1> QED BY <1>0, <1>6, <1>8, <1>9, <1>10, <1>11, <1>12, <1>13, ReadingKeeps

\* The first frame of a buffer, and the rest.
LEMMA OneFrame ==
  ASSUME NEW s \in Seq(Int), s # <<>>, NEW n \in Int, Follow(s, n), Clean(s)
  PROVE  /\ Tail(s) \in Seq(Int) /\ Len(Tail(s)) = Len(s) - 1
         /\ Follow(Tail(s), n + 1) /\ Clean(Tail(s))
         /\ <<Head(s)>> \in Seq(Int) /\ Len(<<Head(s)>>) = 1
         /\ Follow(<<Head(s)>>, n) /\ Clean(<<Head(s)>>)
<1>1. Len(s) \in Nat /\ Len(s) > 0 /\ Head(s) = s[1] /\ s[1] \in Int
  OBVIOUS
<1>2. Tail(s) = Beyond(s, 1) /\ 1 \in 0..Len(s)
  BY <1>1 DEF Beyond
<1>3. /\ Tail(s) \in Seq(Int) /\ Len(Tail(s)) = Len(s) - 1
      /\ Follow(Tail(s), n + 1) /\ Clean(Tail(s))
  BY <1>2, BeyondFacts, FollowBeyond, CleanPieces
<1>4. <<Head(s)>> \in Seq(Int) /\ Len(<<Head(s)>>) = 1 /\ <<Head(s)>>[1] = s[1]
  BY <1>1
<1>5. IF n + 1 > 0 THEN s[1] = n + 1 - 1 ELSE s[1] < 0
  BY <1>1, FollowIs
<1>6. s[1] >= Lost
  BY <1>1 DEF Clean
<1>7. Follow(<<Head(s)>>, n)
  <2> DEFINE f == <<Head(s)>>
  <2>1. f \in Seq(Int) /\ Len(f) = 1 /\ f[1] = s[1]
    BY <1>4
  <2> HIDE DEF f
  <2>2. Follow(f, n)
    BY <1>5, <2>1, FollowIs
  <2> QED BY <2>2 DEF f
<1>8. Clean(<<Head(s)>>)
  BY <1>4, <1>6 DEF Clean
<1> QED BY <1>3, <1>4, <1>7, <1>8

\* A buffer and what follows on it.
LEMMA Join ==
  ASSUME NEW s \in Seq(Int), NEW t \in Seq(Int), NEW n \in Int, NEW k \in Int,
         k = n + Len(s), Follow(s, n), Follow(t, k), Clean(s), Clean(t)
  PROVE  /\ s \o t \in Seq(Int) /\ Len(s \o t) = Len(s) + Len(t)
         /\ Follow(s \o t, n) /\ Clean(s \o t)
<1>1. s \o t \in Seq(Int) /\ Len(s \o t) = Len(s) + Len(t)
  BY ConcatFacts
<1>2. Follow(s \o t, n)
  BY FollowNext
<1>3. Clean(s \o t)
  BY CleanConcat
<1> QED BY <1>1, <1>2, <1>3

\* Append is concatenation.
LEMMA AppendOne ==
  ASSUME NEW s \in Seq(Int), NEW f \in Int
  PROVE  Append(s, f) = s \o <<f>>
OBVIOUS

\* The down-sampler takes a frame in ...
LEMMA SamplerTakesKeeps ==
  ASSUME IInv, SamplerTakes
  PROVE  IInv'
<1> DEFINE f == <<Head(mInputBuf)>>
<1>0. /\ held \in Seq(Int) /\ mInputBuf \in Seq(Int) /\ mInputBuf # <<>>
      /\ Len(held) \in Nat /\ Len(mInputBuf) \in Nat /\ Capacity \in Nat
      /\ Len(held) < Capacity
      /\ pc = "frames" /\ Clean(held) /\ Clean(mInputBuf) /\ mDownSampler
      /\ Follow(held, HeldAt) /\ Follow(mInputBuf, InputAt)
      /\ UNCHANGED <<ReadUnchanged, pc, out, fill, captured>>
  BY Types, CaptureAssumption DEF IInv, InParts, NoJunk, SamplerTakes, Reading
<1>1. /\ FillAt \in Int /\ HeldAt \in Int /\ InputAt \in Int /\ captured \in Nat
      /\ HeldAt = FillAt + Len(fill) /\ InputAt = HeldAt + Len(held)
      /\ captured = InputAt + Len(mInputBuf)
  BY Types, Places DEF IInv
<1>2. /\ mInputBuf' \in Seq(Int) /\ Len(mInputBuf') = Len(mInputBuf) - 1
      /\ Follow(mInputBuf', InputAt + 1) /\ Clean(mInputBuf')
      /\ f \in Seq(Int) /\ Len(f) = 1 /\ Follow(f, InputAt) /\ Clean(f)
  BY <1>0, <1>1, OneFrame DEF SamplerTakes
<1>3. held' = held \o f
  <2>1. Head(mInputBuf) \in Int
    BY <1>0
  <2> QED BY <1>0, <2>1, AppendOne DEF SamplerTakes
<1> HIDE DEF f
<1>4. /\ held' \in Seq(Int) /\ Len(held') = Len(held) + 1 /\ Clean(held')
      /\ Follow(held', HeldAt)
  BY <1>0, <1>1, <1>2, <1>3, Join
<1>5. InputAt' = InputAt + 1 /\ HeldAt' = HeldAt /\ FillAt' = FillAt
  <2>1. /\ captured' = captured /\ Len(mInputBuf') = Len(mInputBuf) - 1
        /\ Len(held') = Len(held) + 1 /\ fill' = fill
    BY <1>0, <1>2, <1>4
  <2>2. InputAt' = InputAt + 1
    BY <1>0, <1>1, <2>1 DEF InputAt
  <2>3. HeldAt' = HeldAt
    BY <1>0, <1>1, <2>1, <2>2 DEF HeldAt
  <2> QED BY <2>1, <2>2, <2>3 DEF FillAt
<1>6. Len(mInputBuf') <= AUDIO_HW_IN_PERIOD_SZ /\ Len(held') <= Capacity
  <2>1. Len(mInputBuf) <= AUDIO_HW_IN_PERIOD_SZ /\ AUDIO_HW_IN_PERIOD_SZ \in Nat
    BY CaptureAssumption DEF IInv, BuffersFit
  <2>2. Len(mInputBuf') = Len(mInputBuf) - 1 /\ Len(held') = Len(held) + 1
    BY <1>2, <1>4
  <2>3. Len(held) \in Nat /\ Len(mInputBuf) \in Nat /\ Capacity \in Nat /\ Len(held) < Capacity
    BY <1>0
  <2> QED BY <2>1, <2>2, <2>3
<1>7. /\ fill' \in Seq(Int) /\ captured' \in Nat /\ Clean(fill') /\ Len(fill') <= Wanted
      /\ Follow(fill', FillAt') /\ Follow(held', HeldAt') /\ Follow(mInputBuf', InputAt')
      /\ pc' = "frames"
      /\ UNCHANGED <<frames, out, mProcBuf, fx, sizeVars, mRefBuf, streamVars, rateVars>>
  BY <1>0, <1>1, <1>2, <1>4, <1>5, Types
  DEF IInv, Phases, InParts, NoJunk, ReadUnchanged
<1> QED BY <1>0, <1>2, <1>4, <1>5, <1>6, <1>7, ReadingKeeps

\* ... and gives one out.
LEMMA SamplerGivesKeeps ==
  ASSUME IInv, SamplerGives
  PROVE  IInv'
<1> DEFINE f == <<Head(held)>>
<1>0. /\ held \in Seq(Int) /\ fill \in Seq(Int) /\ held # <<>>
      /\ Len(held) \in Nat /\ Len(fill) \in Nat
      /\ pc = "frames" /\ Clean(held) /\ Clean(fill) /\ mDownSampler
      /\ Follow(held, HeldAt) /\ Follow(fill, FillAt)
      /\ UNCHANGED <<ReadUnchanged, pc, out, mInputBuf, captured>>
  BY Types DEF IInv, InParts, NoJunk, SamplerGives, Reading
<1>1. /\ FillAt \in Int /\ HeldAt \in Int /\ InputAt \in Int /\ captured \in Nat
      /\ HeldAt = FillAt + Len(fill) /\ InputAt = HeldAt + Len(held)
  BY Types, Places DEF IInv
<1>2. /\ held' \in Seq(Int) /\ Len(held') = Len(held) - 1
      /\ Follow(held', HeldAt + 1) /\ Clean(held')
      /\ f \in Seq(Int) /\ Len(f) = 1 /\ Follow(f, HeldAt) /\ Clean(f)
  BY <1>0, <1>1, OneFrame DEF SamplerGives
<1>3. fill' = fill \o f
  <2>1. Head(held) \in Int
    BY <1>0
  <2> QED BY <1>0, <2>1, AppendOne DEF SamplerGives
<1> HIDE DEF f
<1>4. /\ fill' \in Seq(Int) /\ Len(fill') = Len(fill) + 1 /\ Clean(fill')
      /\ Follow(fill', FillAt)
  BY <1>0, <1>1, <1>2, <1>3, Join
<1>5. InputAt' = InputAt /\ HeldAt' = HeldAt + 1 /\ FillAt' = FillAt
  <2>1. /\ captured' = captured /\ mInputBuf' = mInputBuf
        /\ Len(held') = Len(held) - 1 /\ Len(fill') = Len(fill) + 1
    BY <1>0, <1>2, <1>4
  <2>2. InputAt' = InputAt
    BY <2>1 DEF InputAt
  <2>3. HeldAt' = HeldAt + 1
    BY <1>0, <1>1, <2>1, <2>2 DEF HeldAt
  <2>4. FillAt' = HeldAt' - Len(fill')
    BY DEF FillAt
  <2>5. Len(fill) \in Nat /\ HeldAt \in Int /\ FillAt \in Int /\ HeldAt = FillAt + Len(fill)
    BY <1>0, <1>1
  <2>6. FillAt' = FillAt
    BY <2>1, <2>3, <2>4, <2>5
  <2> QED BY <2>2, <2>3, <2>6
<1>6. Len(fill') <= Wanted /\ Len(held') <= Capacity
  <2>1. frames \in Nat /\ Len(mProcBuf) \in Nat /\ Capacity \in Nat /\ Len(held) <= Capacity
    BY Types, CaptureAssumption DEF IInv, TypeOK
  <2>2. Wanted \in Int /\ Len(fill) < Wanted
    BY <2>1 DEF SamplerGives, Reading, Wanted
  <2>3. Len(fill') = Len(fill) + 1 /\ Len(held') = Len(held) - 1
    BY <1>2, <1>4
  <2>4. Len(fill) \in Nat /\ Len(held) \in Nat
    BY <1>0
  <2> QED BY <2>1, <2>2, <2>3, <2>4
<1>7. /\ mInputBuf' \in Seq(Int) /\ captured' \in Nat /\ Clean(mInputBuf')
      /\ Len(mInputBuf') <= AUDIO_HW_IN_PERIOD_SZ
      /\ Follow(fill', FillAt') /\ Follow(held', HeldAt') /\ Follow(mInputBuf', InputAt')
      /\ pc' = "frames"
      /\ UNCHANGED <<frames, out, mProcBuf, fx, sizeVars, mRefBuf, streamVars, rateVars>>
  BY <1>0, <1>1, <1>2, <1>4, <1>5, Types
  DEF IInv, BuffersFit, InParts, NoJunk, ReadUnchanged
<1> QED BY <1>0, <1>2, <1>4, <1>5, <1>6, <1>7, ReadingKeeps

-----------------------------------------------------------------------------
(* Steps that give numbers out or take frames out of the way.                *)

\* Nothing follows on from anywhere.
LEMMA FollowNothing ==
  ASSUME NEW n
  PROVE  Follow(<<>>, n)
BY DEF Follow

\* Renumbering gives out no numbers.
LEMMA RenumberedNumberless ==
  ASSUME NEW s \in Seq(Int), NEW k \in Nat, Numberless(s)
  PROVE  Numberless(Renumbered(s, k))
<1>1. /\ Len(Renumbered(s, k)) = Len(s)
      /\ \A i \in 1..Len(s) :
           Renumbered(s, k)[i] = IF s[i] >= k THEN s[i] - k ELSE Smaller(s[i], Lost)
  BY RenumberedFacts
<1> SUFFICES ASSUME NEW i \in 1..Len(s) PROVE Renumbered(s, k)[i] < 0
  BY <1>1 DEF Numberless
<1>2. s[i] \in Int /\ s[i] < 0
  BY DEF Numberless
<1> QED BY <1>1, <1>2 DEF Smaller, Lost

\* After k numbers were given out: what every place further on does.
LEMMA Shifted ==
  ASSUME IInv, NEW k \in Nat, k <= captured,
         held' = Renumbered(held, k), mInputBuf' = Renumbered(mInputBuf, k),
         captured' = captured - k
  PROVE  /\ held' \in Seq(Int) /\ Len(held') = Len(held)
         /\ mInputBuf' \in Seq(Int) /\ Len(mInputBuf') = Len(mInputBuf)
         /\ captured' \in Nat
         /\ InputAt' = InputAt - k /\ HeldAt' = HeldAt - k
         /\ Follow(held', HeldAt') /\ Follow(mInputBuf', InputAt')
         /\ Clean(held') /\ Clean(mInputBuf')
         /\ (held = <<>> => held' = <<>>)
<1>0. /\ held \in Seq(Int) /\ mInputBuf \in Seq(Int) /\ captured \in Nat
      /\ Len(held) \in Nat /\ Len(mInputBuf) \in Nat
      /\ HeldAt \in Int /\ InputAt \in Int
      /\ Follow(held, HeldAt) /\ Follow(mInputBuf, InputAt)
      /\ Clean(held) /\ Clean(mInputBuf)
  BY Types, Places DEF IInv, InParts, NoJunk
<1>1. /\ held' \in Seq(Int) /\ Len(held') = Len(held)
      /\ mInputBuf' \in Seq(Int) /\ Len(mInputBuf') = Len(mInputBuf)
  BY <1>0, RenumberedFacts
<1>2. captured' \in Nat
  BY <1>0
<1>3. InputAt = captured - Len(mInputBuf) /\ HeldAt = InputAt - Len(held)
  BY DEF InputAt, HeldAt
<1>4. InputAt' = captured' - Len(mInputBuf') /\ HeldAt' = InputAt' - Len(held')
  BY DEF InputAt, HeldAt
<1>5. InputAt' = InputAt - k /\ HeldAt' = HeldAt - k
  BY <1>0, <1>1, <1>3, <1>4
<1>6. Follow(held', HeldAt') /\ Follow(mInputBuf', InputAt')
  BY <1>0, <1>5, FollowRenumbered
<1>7. Clean(held') /\ Clean(mInputBuf')
  BY <1>0, CleanRenumbered
<1>8. held = <<>> => held' = <<>>
  BY DEF Renumbered
<1> QED BY <1>1, <1>2, <1>5, <1>6, <1>7, <1>8

\* What is in front of the down sampler and has no number follows, wherever it starts.
LEMMA NumberlessAhead ==
  ASSUME out' \in Seq(Int), fx' \in Seq(Int), mProcBuf' \in Seq(Int),
         Numberless(out'), Numberless(fx'), Numberless(mProcBuf'), fill' = <<>>,
         HeldAt' \in Int, HeldAt' <= 0
  PROVE  /\ OutAt' <= 0 /\ FillAt' <= 0
         /\ Follow(out', OutAt') /\ Follow(fx', FxAt') /\ Follow(mProcBuf', ProcAt')
         /\ Follow(fill', FillAt')
<1>0. Len(out') \in Nat /\ Len(fx') \in Nat /\ Len(mProcBuf') \in Nat /\ Len(fill') = 0
  BY Nothing
<1>1. FillAt' = HeldAt'
  <2>1. FillAt' = HeldAt' - Len(fill')
    BY DEF FillAt
  <2>2. Len(fill') = 0 /\ \A h \in Int : h - 0 = h
    BY <1>0
  <2> QED BY <2>1, <2>2
<1>2. ProcAt' \in Int /\ ProcAt' + Len(mProcBuf') <= 0 /\ ProcAt' <= 0
  BY <1>0, <1>1 DEF ProcAt
<1>3. FxAt' \in Int /\ FxAt' + Len(fx') <= 0 /\ FxAt' <= 0
  BY <1>0, <1>2 DEF FxAt
<1>4. OutAt' \in Int /\ OutAt' + Len(out') <= 0 /\ OutAt' <= 0
  BY <1>0, <1>3 DEF OutAt
<1>5. Follow(mProcBuf', ProcAt')
  BY <1>2, FollowNegative DEF Numberless
<1>6. Follow(fx', FxAt')
  BY <1>3, FollowNegative DEF Numberless
<1>7. Follow(out', OutAt')
  BY <1>4, FollowNegative DEF Numberless
<1> QED BY <1>1, <1>4, <1>5, <1>6, <1>7, FollowNothing

\* readFrames() returns to a read without effects: what it got is handed over.
LEMMA FramesReadKeeps ==
  ASSUME IInv, FramesRead
  PROVE  IInv'
<1>0. /\ out \in Seq(Int) /\ fx \in Seq(Int) /\ mProcBuf \in Seq(Int) /\ fill \in Seq(Int)
      /\ Len(out) \in Nat /\ Len(fx) \in Nat /\ Len(mProcBuf) \in Nat /\ Len(fill) \in Nat
      /\ Len(held) \in Nat /\ Len(mInputBuf) \in Nat /\ captured \in Nat
      /\ frames \in Nat /\ mProcBufSize \in Nat
      /\ FxAt \in Int /\ ProcAt \in Int /\ FillAt \in Int /\ HeldAt \in Int /\ InputAt \in Int
      /\ ProcAt = FxAt + Len(fx) /\ FillAt = ProcAt + Len(mProcBuf)
      /\ HeldAt = FillAt + Len(fill) /\ InputAt = HeldAt + Len(held)
      /\ captured = InputAt + Len(mInputBuf)
  BY Types, Places DEF IInv
<1>1. /\ pc = "frames" /\ active /\ frames > 0 /\ Len(fill) = Wanted
      /\ UNCHANGED <<frames, sizeVars, mRefBuf, streamVars, rateVars>>
      /\ Follow(fill, FillAt) /\ Follow(mProcBuf, ProcAt) /\ Follow(fx, FxAt)
      /\ Clean(fill) /\ Clean(mProcBuf)
  BY DEF IInv, Phases, InParts, NoJunk, FramesRead
<1>2. CASE mPreprocessors = {} /\ Returns(fill) /\ UNCHANGED mProcBuf
  <2> DEFINE k == NextAfter(fill)
  <2>1. FillAt <= 0 /\ k = Larger(HeldAt, 0)
    BY <1>0, <1>1, <1>2, NextAfterFollow DEF IInv, Phases
  <2>2. k \in Nat /\ HeldAt - k <= 0 /\ k <= captured
    <3>1. HeldAt \in Int /\ captured \in Nat /\ HeldAt <= captured
      BY <1>0
    <3> QED BY <2>1, <3>1 DEF Larger
  <2>3. /\ pc' = "idle" /\ out' = <<>> /\ fill' = <<>> /\ fx' = Renumbered(fx, k)
        /\ held' = Renumbered(held, k) /\ mInputBuf' = Renumbered(mInputBuf, k)
        /\ captured' = captured - k
    BY <1>2 DEF Returns
  <2> HIDE DEF k
  <2>4. /\ held' \in Seq(Int) /\ Len(held') = Len(held)
        /\ mInputBuf' \in Seq(Int) /\ Len(mInputBuf') = Len(mInputBuf)
        /\ captured' \in Nat /\ HeldAt' = HeldAt - k
        /\ Follow(held', HeldAt') /\ Follow(mInputBuf', InputAt')
        /\ Clean(held') /\ Clean(mInputBuf')
        /\ (held = <<>> => held' = <<>>)
    BY <2>2, <2>3, Shifted
  <2>5. fx' \in Seq(Int) /\ Len(fx') = Len(fx)
    BY <1>0, <2>2, <2>3, RenumberedFacts
  <2>6. Numberless(mProcBuf) /\ Numberless(fx)
    <3>1. ProcAt + Len(mProcBuf) <= 0 /\ FxAt + Len(fx) <= 0
      BY <1>0, <2>1
    <3> QED BY <1>0, <1>1, <3>1, FollowNegative DEF Numberless
  <2>7. Numberless(fx') /\ Numberless(mProcBuf') /\ mProcBuf' \in Seq(Int)
    BY <1>0, <1>2, <2>2, <2>3, <2>6, RenumberedNumberless
  <2>8. /\ OutAt' <= 0 /\ FillAt' <= 0
        /\ Follow(out', OutAt') /\ Follow(fx', FxAt') /\ Follow(mProcBuf', ProcAt')
        /\ Follow(fill', FillAt')
    BY <1>0, <2>2, <2>3, <2>4, <2>5, <2>7, Nothing, NumberlessAhead
  <2>9. TypeOK'
    BY <1>1, <1>2, <2>3, <2>4, <2>5, <2>7, Nothing
    DEF IInv, TypeOK, sizeVars, streamVars, rateVars
  <2>10. BuffersFit'
    BY <1>0, <1>1, <1>2, <2>3, <2>4, Nothing DEF IInv, BuffersFit, sizeVars, streamVars
  <2>11. EchoInOrder' /\ NoJunk'
    BY <1>1, <1>2, <2>3, <2>4, Nothing DEF IInv, EchoInOrder, NoJunk, streamVars
  <2>12. Phases'
    BY <1>1, <1>2, <2>3, <2>4, <2>8 DEF IInv, Phases, streamVars, rateVars
  <2> QED BY <2>4, <2>8, <2>9, <2>10, <2>11, <2>12 DEF IInv, InParts
<1>3. CASE /\ mPreprocessors # {}
           /\ mProcBuf' = mProcBuf \o fill
           /\ fill' = <<>>
           /\ pc' = IF echo THEN "push" ELSE "process"
           /\ UNCHANGED <<out, fx, held, mInputBuf, captured>>
  <2>1. /\ mProcBuf' \in Seq(Int) /\ Len(mProcBuf') = Len(mProcBuf) + Len(fill)
        /\ Follow(mProcBuf', ProcAt) /\ Clean(mProcBuf')
    BY <1>0, <1>1, <1>3, Join
  <2>2. InputAt' = InputAt /\ HeldAt' = HeldAt
    BY <1>3 DEF InputAt, HeldAt
  <2>3. FillAt' = HeldAt
    BY <1>0, <1>3, <2>2, Nothing DEF FillAt
  <2>4. ProcAt' = ProcAt
    BY <1>0, <2>1, <2>3 DEF ProcAt
  <2>5. FxAt' = FxAt /\ OutAt' = OutAt
    BY <1>3, <2>4 DEF FxAt, OutAt
  <2>6. InParts'
    BY <1>3, <2>1, <2>2, <2>4, <2>5, FollowNothing DEF IInv, InParts
  <2>7. TypeOK'
    BY <1>1, <1>3, <2>1, Nothing DEF IInv, TypeOK, sizeVars, streamVars, rateVars
  <2>8. BuffersFit'
    <3>1. Len(mProcBuf') + Len(fill') <= mProcBufSize
      <4>1. Len(mProcBuf) + Len(fill) <= mProcBufSize
        BY <1>1, <1>3 DEF IInv, BuffersFit
      <4>2. Len(fill') = 0
        BY <1>3, Nothing
      <4> QED BY <1>0, <2>1, <4>1, <4>2
    <3>2. \A i \in DOMAIN mProcBuf' : mProcBuf'[i] # Junk
      BY <2>1, CleanNoJunk
    <3> QED BY <1>1, <1>3, <3>1, <3>2 DEF IInv, BuffersFit, sizeVars, streamVars
  <2>9. EchoInOrder' /\ NoJunk'
    BY <1>1, <1>3, <2>1, Nothing DEF IInv, EchoInOrder, NoJunk, streamVars
  <2>10. Phases'
    BY <1>1, <1>3 DEF IInv, Phases, streamVars, rateVars
  <2> QED BY <2>6, <2>7, <2>8, <2>9, <2>10 DEF IInv
<1> QED BY <1>2, <1>3 DEF FramesRead

\* A read with effects hands over what came out of them.
LEMMA FramesProcessedKeeps ==
  ASSUME IInv, FramesProcessed
  PROVE  IInv'
<1> DEFINE k == NextAfter(out)
<1>0. /\ out \in Seq(Int) /\ fx \in Seq(Int) /\ mProcBuf \in Seq(Int)
      /\ Len(out) \in Nat /\ Len(fx) \in Nat /\ Len(mProcBuf) \in Nat /\ Len(fill) \in Nat
      /\ Len(held) \in Nat /\ Len(mInputBuf) \in Nat /\ captured \in Nat /\ frames \in Nat
      /\ OutAt \in Int /\ FxAt \in Int /\ ProcAt \in Int /\ FillAt \in Int /\ HeldAt \in Int
      /\ InputAt \in Int
      /\ FxAt = OutAt + Len(out) /\ ProcAt = FxAt + Len(fx)
      /\ FillAt = ProcAt + Len(mProcBuf) /\ HeldAt = FillAt + Len(fill)
      /\ InputAt = HeldAt + Len(held) /\ captured = InputAt + Len(mInputBuf)
  BY Types, Places DEF IInv
<1>1. /\ pc = "fill" /\ active /\ fill = <<>> /\ mPreprocessors # {} /\ OutAt <= 0
      /\ UNCHANGED <<frames, sizeVars, mRefBuf, streamVars, rateVars>>
      /\ Follow(out, OutAt) /\ Follow(mProcBuf, ProcAt) /\ Follow(fx, FxAt)
      /\ Clean(mProcBuf)
  BY DEF IInv, Phases, InParts, NoJunk, FramesProcessed
<1>2. k = Larger(FxAt, 0)
  BY <1>0, <1>1, NextAfterFollow
<1>3. k \in Nat /\ FxAt - k <= 0 /\ k <= captured
  <2>1. FxAt \in Int /\ captured \in Nat /\ FxAt <= captured
    BY <1>0
  <2> QED BY <1>2, <2>1 DEF Larger
<1>4. /\ pc' = "idle" /\ out' = <<>> /\ fill' = <<>> /\ fx' = Renumbered(fx, k)
      /\ held' = Renumbered(held, k) /\ mInputBuf' = Renumbered(mInputBuf, k)
      /\ mProcBuf' = Renumbered(mProcBuf, k) /\ captured' = captured - k
  BY DEF FramesProcessed, Returns
<1> HIDE DEF k
<1>5. /\ held' \in Seq(Int) /\ Len(held') = Len(held)
      /\ mInputBuf' \in Seq(Int) /\ Len(mInputBuf') = Len(mInputBuf)
      /\ captured' \in Nat /\ HeldAt' = HeldAt - k
      /\ Follow(held', HeldAt') /\ Follow(mInputBuf', InputAt')
      /\ Clean(held') /\ Clean(mInputBuf')
      /\ (held = <<>> => held' = <<>>)
  BY <1>3, <1>4, Shifted
<1>6. /\ fx' \in Seq(Int) /\ Len(fx') = Len(fx)
      /\ mProcBuf' \in Seq(Int) /\ Len(mProcBuf') = Len(mProcBuf) /\ Clean(mProcBuf')
  BY <1>0, <1>1, <1>3, <1>4, RenumberedFacts, CleanRenumbered
<1>7. Len(fill) = 0 /\ Len(fill') = 0 /\ Len(out') = 0
  BY <1>1, <1>4, Nothing
<1>8. FillAt' = FillAt - k
  <2>1. FillAt' = HeldAt' - Len(fill')
    BY DEF FillAt
  <2> QED BY <1>0, <1>3, <1>5, <1>7, <2>1
<1>9. ProcAt' = ProcAt - k
  <2>1. ProcAt' = FillAt' - Len(mProcBuf')
    BY DEF ProcAt
  <2> QED BY <1>0, <1>3, <1>6, <1>8, <2>1
<1>10. FxAt' = FxAt - k
  <2>1. FxAt' = ProcAt' - Len(fx')
    BY DEF FxAt
  <2> QED BY <1>0, <1>3, <1>6, <1>9, <2>1
<1>11. OutAt' <= 0
  <2>1. OutAt' = FxAt' - Len(out')
    BY DEF OutAt
  <2> QED BY <1>0, <1>3, <1>7, <1>10, <2>1
<1>12. Follow(fx', FxAt') /\ Follow(mProcBuf', ProcAt')
  BY <1>0, <1>1, <1>3, <1>4, <1>9, <1>10, FollowRenumbered
<1>13. InParts'
  BY <1>4, <1>5, <1>11, <1>12, FollowNothing DEF InParts
<1>14. TypeOK'
  BY <1>1, <1>4, <1>5, <1>6, Nothing DEF IInv, TypeOK, sizeVars, streamVars, rateVars
<1>15. BuffersFit'
  <2>1. \A i \in DOMAIN mProcBuf' : mProcBuf'[i] # Junk
    BY <1>6, CleanNoJunk
  <2>2. Len(mProcBuf') + Len(fill') <= mProcBufSize'
    BY <1>1, <1>6, <1>7 DEF IInv, BuffersFit, sizeVars
  <2> QED BY <1>0, <1>1, <1>5, <1>7, <2>1, <2>2 DEF IInv, BuffersFit, sizeVars, streamVars
<1>16. EchoInOrder' /\ NoJunk'
  BY <1>1, <1>4, <1>5, <1>6, Nothing DEF IInv, EchoInOrder, NoJunk, streamVars
<1>17. Phases'
  BY <1>1, <1>4, <1>5 DEF IInv, Phases, streamVars, rateVars
<1> QED BY <1>13, <1>14, <1>15, <1>16, <1>17 DEF IInv

\* The effects take what mProcBuf has ...
LEMMA ProcessKeeps ==
  ASSUME IInv, Process
  PROVE  IInv'
<1>0. /\ out \in Seq(Int) /\ fx \in Seq(Int) /\ mProcBuf \in Seq(Int)
      /\ Len(out) \in Nat /\ Len(fx) \in Nat /\ Len(mProcBuf) \in Nat
      /\ frames \in Nat /\ mProcBufSize \in Nat
      /\ OutAt \in Int /\ FxAt \in Int /\ ProcAt \in Int /\ FillAt \in Int
      /\ FxAt = OutAt + Len(out) /\ ProcAt = FxAt + Len(fx)
      /\ FillAt = ProcAt + Len(mProcBuf)
  BY Types, Places DEF IInv
<1>1. /\ pc = "process" /\ pc' = "fill" /\ active /\ fill = <<>> /\ mPreprocessors # {}
      /\ frames > 0 /\ Len(out) <= frames
      /\ UNCHANGED <<frames, fill, mInputBuf, held, captured, sizeVars,
                     mRefBuf, streamVars, rateVars>>
      /\ Follow(out, OutAt) /\ Follow(mProcBuf, ProcAt) /\ Follow(fx, FxAt)
      /\ Clean(mProcBuf)
  BY DEF IInv, Phases, BuffersFit, InParts, NoJunk, Process
<1>2. PICK c \in 0..Len(mProcBuf), p \in 0..ProcessRoom :
        LET inside == fx \o Upto(mProcBuf, c)
        IN  /\ p <= Len(inside) /\ Len(inside) - p <= Capacity
            /\ out' = out \o Upto(inside, p)
            /\ fx' = Beyond(inside, p)
            /\ mProcBuf' = Remaining(mProcBuf, c)
  BY DEF Process
<1> DEFINE inside == fx \o Upto(mProcBuf, c)
<1>3. c \in Nat /\ p \in Nat /\ Len(out) + p <= frames
  BY <1>0, <1>1 DEF ProcessRoom
<1>4. /\ Upto(mProcBuf, c) \in Seq(Int) /\ Len(Upto(mProcBuf, c)) = c
      /\ Follow(Upto(mProcBuf, c), ProcAt)
      /\ mProcBuf' \in Seq(Int) /\ Len(mProcBuf') = Len(mProcBuf) - c
      /\ Follow(mProcBuf', ProcAt + c) /\ Clean(mProcBuf')
  BY <1>0, <1>1, <1>2, UptoFacts, BeyondFacts, FollowUpto, FollowBeyond, CleanPieces
  DEF Remaining
<1>5. inside \in Seq(Int) /\ Len(inside) = Len(fx) + c /\ Follow(inside, FxAt)
  <2>1. /\ inside \in Seq(Int)
        /\ Len(inside) = Len(fx) + Len(Upto(mProcBuf, c))
    BY <1>0, <1>4, ConcatFacts
  <2>2. Follow(inside, FxAt)
    BY <1>0, <1>1, <1>4, FollowNext
  <2> QED BY <1>4, <2>1, <2>2
<1>6. /\ p \in 0..Len(inside) /\ Len(inside) - p <= Capacity
      /\ out' = out \o Upto(inside, p) /\ fx' = Beyond(inside, p)
  BY <1>2, <1>3, <1>5
<1> HIDE DEF inside
<1>7. /\ Upto(inside, p) \in Seq(Int) /\ Len(Upto(inside, p)) = p
      /\ Follow(Upto(inside, p), FxAt)
      /\ fx' \in Seq(Int) /\ Len(fx') = Len(inside) - p /\ Follow(fx', FxAt + p)
  BY <1>0, <1>5, <1>6, UptoFacts, BeyondFacts, FollowUpto, FollowBeyond
<1>8. out' \in Seq(Int) /\ Len(out') = Len(out) + p
  <2>1. out' \in Seq(Int) /\ Len(out') = Len(out) + Len(Upto(inside, p))
    BY <1>0, <1>6, <1>7, ConcatFacts
  <2> QED BY <1>7, <2>1
<1>9. Follow(out', OutAt)
  BY <1>0, <1>1, <1>6, <1>7, FollowNext
<1>10. InputAt' = InputAt /\ HeldAt' = HeldAt /\ FillAt' = FillAt
  BY <1>1 DEF InputAt, HeldAt, FillAt
<1>11. ProcAt' = ProcAt + c
  <2>1. ProcAt' = FillAt' - Len(mProcBuf') /\ Len(mProcBuf') = Len(mProcBuf) - c
    BY <1>4 DEF ProcAt
  <2> QED BY <1>0, <1>3, <1>10, <2>1
<1>12. FxAt' = FxAt + p
  <2>1. FxAt' = ProcAt' - Len(fx') /\ Len(fx') = Len(inside) - p /\ Len(inside) = Len(fx) + c
    BY <1>5, <1>7 DEF FxAt
  <2> QED BY <1>0, <1>3, <1>11, <2>1
<1>13. OutAt' = OutAt
  <2>1. OutAt' = FxAt' - Len(out') /\ Len(out') = Len(out) + p
    BY <1>8 DEF OutAt
  <2> QED BY <1>0, <1>3, <1>12, <2>1
<1>14. InParts'
  BY <1>1, <1>4, <1>7, <1>9, <1>10, <1>11, <1>12, <1>13 DEF IInv, InParts
<1>15. TypeOK'
  BY <1>1, <1>4, <1>6, <1>7, <1>8 DEF IInv, TypeOK, sizeVars, streamVars, rateVars
<1>16. BuffersFit'
  <2>1. \A i \in DOMAIN mProcBuf' : mProcBuf'[i] # Junk
    BY <1>4, CleanNoJunk
  <2>2. Len(mProcBuf') + Len(fill') <= mProcBufSize'
    <3>1. Len(mProcBuf) + Len(fill) <= mProcBufSize /\ fill' = fill
          /\ mProcBufSize' = mProcBufSize
      BY <1>1 DEF IInv, BuffersFit, sizeVars
    <3>2. Len(fill) = 0 /\ Len(mProcBuf') = Len(mProcBuf) - c
      BY <1>1, <1>4, Nothing
    <3> QED BY <1>0, <1>3, <3>1, <3>2
  <2>3. Len(out') <= frames'
    BY <1>1, <1>3, <1>8
  <2> QED BY <1>1, <2>1, <2>2, <2>3 DEF IInv, BuffersFit, sizeVars, streamVars
<1>17. EchoInOrder' /\ NoJunk'
  BY <1>1, <1>4 DEF IInv, EchoInOrder, NoJunk, streamVars
<1>18. Phases'
  BY <1>1, <1>10 DEF IInv, Phases, streamVars, rateVars
<1> QED BY <1>14, <1>15, <1>16, <1>17, <1>18 DEF IInv

\* ... or fail, and everything on the way to them is lost.
LEMMA ProcessFailsKeeps ==
  ASSUME IInv, ProcessFails
  PROVE  IInv'
<1> DEFINE k == NextAfter(out \o fx \o mProcBuf)
<1>0. /\ out \in Seq(Int) /\ fx \in Seq(Int) /\ mProcBuf \in Seq(Int)
      /\ Len(out) \in Nat /\ Len(fx) \in Nat /\ Len(mProcBuf) \in Nat /\ Len(fill) \in Nat
      /\ Len(held) \in Nat /\ Len(mInputBuf) \in Nat /\ captured \in Nat /\ frames \in Nat
      /\ mProcBufSize \in Nat
      /\ OutAt \in Int /\ FxAt \in Int /\ ProcAt \in Int /\ FillAt \in Int /\ HeldAt \in Int
      /\ InputAt \in Int
      /\ FxAt = OutAt + Len(out) /\ ProcAt = FxAt + Len(fx)
      /\ FillAt = ProcAt + Len(mProcBuf) /\ HeldAt = FillAt + Len(fill)
      /\ InputAt = HeldAt + Len(held) /\ captured = InputAt + Len(mInputBuf)
      /\ Lost \in Int /\ Lost < 0 /\ Junk \in Int /\ Junk < 0
  BY Types, Places DEF IInv, Lost, Junk
<1>1. /\ pc = "process" /\ pc' = "fill" /\ active /\ fill = <<>> /\ mPreprocessors # {}
      /\ frames > 0 /\ OutAt <= 0
      /\ UNCHANGED <<frames, fill, sizeVars, mRefBuf, streamVars, rateVars>>
      /\ Follow(out, OutAt) /\ Follow(mProcBuf, ProcAt) /\ Follow(fx, FxAt)
  BY DEF IInv, Phases, InParts, ProcessFails
<1>2. k = Larger(HeldAt, 0)
  <2>1. /\ out \o fx \in Seq(Int) /\ Len(out \o fx) = Len(out) + Len(fx)
        /\ Follow(out \o fx, OutAt)
    BY <1>0, <1>1, ConcatFacts, FollowNext
  <2> DEFINE two == out \o fx
  <2>2. two \in Seq(Int) /\ Len(two) = Len(out) + Len(fx) /\ Follow(two, OutAt)
    BY <2>1
  <2> HIDE DEF two
  <2>3. ProcAt = OutAt + Len(two)
    <3>1. Len(two) = Len(out) + Len(fx)
      BY <2>2
    <3> QED BY <1>0, <3>1
  <2>4. /\ two \o mProcBuf \in Seq(Int) /\ Len(two \o mProcBuf) = Len(two) + Len(mProcBuf)
        /\ Follow(two \o mProcBuf, OutAt)
    BY <1>0, <1>1, <2>2, <2>3, ConcatFacts, FollowNext
  <2>5. k = Larger(OutAt + Len(two \o mProcBuf), 0)
    BY <1>0, <1>1, <2>4, NextAfterFollow DEF two
  <2>6. OutAt + Len(two \o mProcBuf) = HeldAt
    <3>1. Len(fill) = 0
      BY <1>1, Nothing
    <3>2. Len(two \o mProcBuf) = Len(two) + Len(mProcBuf) /\ Len(two) \in Nat
      BY <2>2, <2>4
    <3>3. /\ Len(mProcBuf) \in Nat /\ OutAt \in Int /\ ProcAt \in Int /\ FillAt \in Int
          /\ FillAt = ProcAt + Len(mProcBuf) /\ HeldAt = FillAt + Len(fill)
      BY <1>0
    <3> QED BY <2>3, <3>1, <3>2, <3>3
  <2> QED BY <2>5, <2>6
<1>3. k \in Nat /\ HeldAt - k <= 0 /\ k <= captured
  <2>1. HeldAt \in Int /\ captured \in Nat /\ HeldAt <= captured
    BY <1>0
  <2> QED BY <1>2, <2>1 DEF Larger
<1>4. /\ out' = [i \in 1..frames |-> IF i > Len(out) THEN Junk ELSE Lost]
      /\ mProcBuf' = <<>> /\ fx' = Copies(Lost, fx) /\ held' = Renumbered(held, k)
      /\ mInputBuf' = Renumbered(mInputBuf, k) /\ captured' = captured - k
  BY DEF ProcessFails
<1> HIDE DEF k
<1>5. /\ held' \in Seq(Int) /\ Len(held') = Len(held)
      /\ mInputBuf' \in Seq(Int) /\ Len(mInputBuf') = Len(mInputBuf)
      /\ captured' \in Nat /\ HeldAt' = HeldAt - k
      /\ Follow(held', HeldAt') /\ Follow(mInputBuf', InputAt')
      /\ Clean(held') /\ Clean(mInputBuf')
      /\ (held = <<>> => held' = <<>>)
  BY <1>3, <1>4, Shifted
<1>6. out' \in Seq(Int) /\ Len(out') = frames /\ Numberless(out')
  BY <1>0, <1>4 DEF Numberless
<1>7. fx' \in Seq(Int) /\ Len(fx') = Len(fx) /\ Numberless(fx')
  BY <1>0, <1>4, CopiesFacts, CopiesNumberless
<1>8. /\ OutAt' <= 0 /\ FillAt' <= 0
      /\ Follow(out', OutAt') /\ Follow(fx', FxAt') /\ Follow(mProcBuf', ProcAt')
      /\ Follow(fill', FillAt')
  BY <1>0, <1>1, <1>3, <1>4, <1>5, <1>6, <1>7, Nothing, NumberlessAhead
<1>9. InParts'
  BY <1>5, <1>8 DEF InParts
<1>10. TypeOK'
  BY <1>1, <1>4, <1>5, <1>6, <1>7, Nothing
  DEF IInv, TypeOK, sizeVars, streamVars, rateVars
<1>11. BuffersFit'
  <2>1. Len(mProcBuf') = 0 /\ Len(fill') = 0
    BY <1>1, <1>4, Nothing
  <2> QED BY <1>0, <1>1, <1>4, <1>5, <1>6, <2>1, Nothing
      DEF IInv, BuffersFit, sizeVars, streamVars
<1>12. EchoInOrder' /\ NoJunk'
  BY <1>1, <1>4, <1>5, Nothing DEF IInv, EchoInOrder, NoJunk, streamVars
<1>13. Phases'
  BY <1>1, <1>5, <1>8 DEF IInv, Phases, streamVars, rateVars
<1> QED BY <1>9, <1>10, <1>11, <1>12, <1>13 DEF IInv

\* removeAudioEffect(), with which the last effect takes its frames along.
LEMMA RemoveEffectKeeps ==
  ASSUME IInv, NEW e \in Effects, RemoveEffect(e)
  PROVE  IInv'
<1> DEFINE k == NextAfter(fx \o mProcBuf)
<1>0. /\ out \in Seq(Int) /\ fx \in Seq(Int) /\ mProcBuf \in Seq(Int)
      /\ Len(out) \in Nat /\ Len(fx) \in Nat /\ Len(mProcBuf) \in Nat /\ Len(fill) \in Nat
      /\ Len(held) \in Nat /\ Len(mInputBuf) \in Nat /\ captured \in Nat
      /\ FxAt \in Int /\ ProcAt \in Int /\ FillAt \in Int /\ HeldAt \in Int
      /\ InputAt \in Int /\ OutAt \in Int
      /\ FxAt = OutAt + Len(out) /\ ProcAt = FxAt + Len(fx)
      /\ FillAt = ProcAt + Len(mProcBuf) /\ HeldAt = FillAt + Len(fill)
      /\ InputAt = HeldAt + Len(held) /\ captured = InputAt + Len(mInputBuf)
      /\ Lost \in Int /\ Lost < 0
  BY Types, Places DEF IInv, Lost
<1>1. /\ pc \in {"idle", "failed"} /\ out = <<>> /\ fill = <<>> /\ OutAt <= 0
      /\ e \in mPreprocessors /\ mPreprocessors' = mPreprocessors \ {e}
      /\ mPreprocessors' \subseteq Effects
      /\ ctl' \in {"idle", "need", "add", "standby"}
      /\ UNCHANGED <<pc, frames, out, fill, sizeVars, mRefBuf, active, echo, rateVars>>
      /\ Follow(mProcBuf, ProcAt) /\ Follow(fx, FxAt)
  BY DEF IInv, TypeOK, Phases, InParts, RemoveEffect, Unlocked
<1>2. Len(out) = 0 /\ Len(fill) = 0
  BY <1>1, Nothing
<1>3. k = Larger(HeldAt, 0)
  <2>1. FxAt <= 0 /\ FxAt + (Len(fx) + Len(mProcBuf)) = HeldAt
    BY <1>0, <1>1, <1>2
  <2>2. /\ fx \o mProcBuf \in Seq(Int) /\ Len(fx \o mProcBuf) = Len(fx) + Len(mProcBuf)
        /\ Follow(fx \o mProcBuf, FxAt)
    BY <1>0, <1>1, ConcatFacts, FollowNext
  <2> QED BY <1>0, <2>1, <2>2, NextAfterFollow
<1>4. k \in Nat /\ HeldAt - k <= 0 /\ k <= captured
  <2>1. HeldAt \in Int /\ captured \in Nat /\ HeldAt <= captured
    BY <1>0
  <2> QED BY <1>3, <2>1 DEF Larger
<1> HIDE DEF k
<1>5. CASE /\ fx' = Copies(Lost, fx) /\ mProcBuf' = Copies(Lost, mProcBuf)
           /\ held' = Renumbered(held, k) /\ mInputBuf' = Renumbered(mInputBuf, k)
           /\ captured' = captured - k
  <2>1. /\ held' \in Seq(Int) /\ Len(held') = Len(held)
        /\ mInputBuf' \in Seq(Int) /\ Len(mInputBuf') = Len(mInputBuf)
        /\ captured' \in Nat /\ HeldAt' = HeldAt - k
        /\ Follow(held', HeldAt') /\ Follow(mInputBuf', InputAt')
        /\ Clean(held') /\ Clean(mInputBuf')
        /\ (held = <<>> => held' = <<>>)
    BY <1>4, <1>5, Shifted
  <2>2. /\ fx' \in Seq(Int) /\ Len(fx') = Len(fx) /\ Numberless(fx')
        /\ mProcBuf' \in Seq(Int) /\ Len(mProcBuf') = Len(mProcBuf)
        /\ Numberless(mProcBuf') /\ Clean(mProcBuf')
    BY <1>0, <1>5, CopiesFacts, CopiesNumberless, CopiesClean
  <2>3. /\ OutAt' <= 0 /\ FillAt' <= 0
        /\ Follow(out', OutAt') /\ Follow(fx', FxAt') /\ Follow(mProcBuf', ProcAt')
        /\ Follow(fill', FillAt')
    BY <1>0, <1>1, <1>4, <2>1, <2>2, Nothing, NumberlessAhead
  <2>4. InParts'
    BY <2>1, <2>3 DEF InParts
  <2>5. TypeOK'
    BY <1>1, <2>1, <2>2 DEF IInv, TypeOK, sizeVars, rateVars
  <2>6. BuffersFit'
    <3>1. \A i \in DOMAIN mProcBuf' : mProcBuf'[i] # Junk
      BY <2>2, CleanNoJunk
    <3> QED BY <1>0, <1>1, <1>2, <2>1, <2>2, <3>1 DEF IInv, BuffersFit, sizeVars
  <2>7. EchoInOrder' /\ NoJunk'
    BY <1>1, <2>1, <2>2 DEF IInv, EchoInOrder, NoJunk
  <2>8. Phases'
    BY <1>1, <2>1, <2>3 DEF IInv, Phases, rateVars
  <2> QED BY <2>4, <2>5, <2>6, <2>7, <2>8 DEF IInv
<1>6. CASE /\ UNCHANGED <<fx, mProcBuf, held, mInputBuf, captured>>
           /\ mPreprocessors = {e} => k = 0
  <2>1. EchoInOrder' /\ InParts' /\ NoJunk' /\ FillAt' = FillAt
    BY <1>1, <1>6, FramesStay DEF sizeVars, dataVars
  <2>2. TypeOK'
    BY <1>1, <1>6 DEF IInv, TypeOK, sizeVars, rateVars
  <2>3. BuffersFit'
    BY <1>0, <1>1, <1>2, <1>6 DEF IInv, BuffersFit, sizeVars
  <2>4. mPreprocessors' = {} => FillAt <= 0
    <3>1. mPreprocessors' = {} => mPreprocessors = {e}
      BY <1>1
    <3>2. FillAt = HeldAt
      BY <1>0, <1>2
    <3>3. HeldAt - k <= 0 /\ HeldAt \in Int
      BY <1>0, <1>4
    <3>4. ASSUME mPreprocessors' = {} PROVE FillAt <= 0
      <4>1. k = 0
        BY <1>6, <3>1, <3>4
      <4> QED BY <3>2, <3>3, <4>1
    <3> QED BY <3>4
  <2>5. Phases'
    BY <1>1, <1>6, <2>1, <2>4 DEF IInv, Phases, rateVars
  <2> QED BY <2>1, <2>2, <2>3, <2>5 DEF IInv
<1>7. \/ /\ fx' = Copies(Lost, fx) /\ mProcBuf' = Copies(Lost, mProcBuf)
         /\ held' = Renumbered(held, k) /\ mInputBuf' = Renumbered(mInputBuf, k)
         /\ captured' = captured - k
      \/ /\ UNCHANGED <<fx, mProcBuf, held, mInputBuf, captured>>
         /\ mPreprocessors = {e} => k = 0
  BY <1>4 DEF RemoveEffect, k
<1> QED BY <1>5, <1>6, <1>7

-----------------------------------------------------------------------------
(* The invariant holds.                                                      *)

\* With empty buffers every place is at zero.
LEMMA PlacesAtFirst ==
  ASSUME Len(out) = 0, Len(fx) = 0, Len(mProcBuf) = 0, Len(fill) = 0,
         Len(held) = 0, Len(mInputBuf) = 0, captured = 0
  PROVE  /\ InputAt = 0 /\ HeldAt = 0 /\ FillAt = 0 /\ ProcAt = 0 /\ FxAt = 0 /\ OutAt = 0
BY DEF InputAt, HeldAt, FillAt, ProcAt, FxAt, OutAt

\* The invariant holds of a stream that was never opened.
LEMMA InitInv == ASSUME Init PROVE IInv
<1> USE DEF Init
<1>1. TypeOK
  <2>1. {out, fill, mInputBuf, held, mProcBuf, fx, mRefBuf} \subseteq Seq(Int)
    BY Nothing
  <2>2. Len(held) <= Capacity /\ Len(fx) <= Capacity
    BY CaptureAssumption, Nothing
  <2> QED BY <2>1, <2>2 DEF TypeOK
<1>2. /\ InputAt = 0 /\ HeldAt = 0 /\ FillAt = 0 /\ ProcAt = 0 /\ FxAt = 0 /\ OutAt = 0
  <2>1. /\ Len(out) = 0 /\ Len(fx) = 0 /\ Len(mProcBuf) = 0 /\ Len(fill) = 0
        /\ Len(held) = 0 /\ Len(mInputBuf) = 0 /\ captured = 0
    BY Nothing
  <2> QED BY <2>1, PlacesAtFirst
<1>3. InParts
  BY <1>2, FollowNothing DEF InParts
<1>4. BuffersFit
  BY CaptureAssumption, Nothing DEF BuffersFit
<1>5. EchoInOrder /\ NoJunk
  BY Nothing DEF EchoInOrder, NoJunk
<1>6. Phases
  BY <1>2 DEF Phases
<1> QED BY <1>1, <1>3, <1>4, <1>5, <1>6 DEF IInv

\* Every step keeps it.
LEMMA StepInv == ASSUME IInv, [Next]_vars PROVE IInv'
<1>1. CASE UNCHANGED vars
  <2>1. /\ UNCHANGED <<frames, dataVars, sizeVars, mRefBuf, active, mDownSampler, pc>>
        /\ mPreprocessors' = mPreprocessors /\ mPreprocessors' \subseteq Effects
        /\ echo' \in BOOLEAN /\ ctl' \in {"idle", "need", "add", "standby"}
    BY <1>1 DEF IInv, TypeOK, vars, streamVars, rateVars
  <2> QED BY <2>1, StillKeeps
<1>2. ASSUME NEW r \in AskedRates, OpenInputStream(r) PROVE IInv'
  BY <1>2, OpenInputStreamKeeps
<1>3. ASSUME NEW n \in ReadSizes, CallRead(n) PROVE IInv'
  BY <1>3, CallReadKeeps
<1>4. CASE ReadFailed
  BY <1>4, ReadFailedKeeps
<1>5. CASE PcmRead
  BY <1>5, PcmReadKeeps
<1>6. CASE TakeFrames
  BY <1>6, TakeFramesKeeps
<1>7. CASE SamplerTakes
  BY <1>7, SamplerTakesKeeps
<1>8. CASE SamplerGives
  BY <1>8, SamplerGivesKeeps
<1>9. CASE FramesRead
  BY <1>9, FramesReadKeeps
<1>10. CASE FillProcBuf
  BY <1>10, FillProcBufKeeps
<1>11. CASE PushEchoReference
  BY <1>11, PushEchoReferenceKeeps
<1>12. CASE Process
  BY <1>12, ProcessKeeps
<1>13. CASE ProcessFails
  BY <1>13, ProcessFailsKeeps
<1>14. CASE FramesProcessed
  BY <1>14, FramesProcessedKeeps
<1>15. CASE Standby \/ AddStandby \/ RemoveStandby
  BY <1>15, StandbyAlone
<1>16. CASE Restart
  BY <1>16, RestartKeeps
<1>17. CASE NeedEchoReference \/ AddEffect
  BY <1>17, EffectsKeep
<1>18. ASSUME NEW e \in Effects, RemoveEffect(e) PROVE IInv'
  BY <1>18, RemoveEffectKeeps
<1>19. CASE CloseInputStream
  BY <1>19, CloseInputStreamKeeps
<1> QED
  BY <1>1, <1>2, <1>3, <1>4, <1>5, <1>6, <1>7, <1>8, <1>9, <1>10, <1>11, <1>12, <1>13,
     <1>14, <1>15, <1>16, <1>17, <1>18, <1>19
  DEF Next, ReadStep

\* So it holds in every state the stream can reach.
LEMMA Invariant == Spec => []IInv
<1>1. Init => IInv
  BY InitInv
<1>2. IInv /\ [Next]_vars => IInv'
  BY StepInv
<1> QED BY <1>1, <1>2, PTL DEF Spec

-----------------------------------------------------------------------------
(* Theorems.                                                                 *)

\* The state of an input stream has the type it claims: what the code keeps in its
\* buffers are frames, and the down sampler and the effects hold back only so many.
THEOREM CaptureStreamTypeCorrect == Spec => []TypeOK
<1>1. IInv => TypeOK
  BY DEF IInv
<1> QED BY <1>1, Invariant, PTL

\* For every period and every size of read, mProcFramesIn and mRefFramesIn never
\* exceed the memory behind them, nor count frames of memory that standby has freed,
\* and processFrames() never puts more into the client's buffer than it has room for.
THEOREM BuffersFitHolds == Spec => []BuffersFit
<1>1. IInv => BuffersFit
  BY DEF IInv
<1> QED BY <1>1, Invariant, PTL

\* For every period and every size of read, whatever the effects consume at a time and
\* however they come and go, captured frames and those of the echo reference go on in
\* order, none twice and none left out but those a failing effect or the removal of
\* the last one costs.
THEOREM FramesInOrderHolds == Spec => []FramesInOrder
<1>1. IInv => FramesInOrder
  BY PartsInOrder DEF IInv, FramesInOrder
<1> QED BY <1>1, Invariant, PTL

-----------------------------------------------------------------------------
(* The sampling rate that is named when another is refused.                  *)

\* The distance to the rates falls and then grows: Turn(r, m) says that it grows for
\* the first time at m.
Turn(r, m) ==
  /\ m \in 2..7
  /\ m = 7 \/ GrowsAgain(r, m)
  /\ \A j \in 2..6 : j < m => ~GrowsAgain(r, j)

\* The six rates of the table.
LEMMA RatesAre ==
  /\ Len(SampleRates) = 6 /\ DOMAIN SampleRates = 1..6
  /\ SampleRates[1] = 8000 /\ SampleRates[2] = 11025 /\ SampleRates[3] = 16000
  /\ SampleRates[4] = 22050 /\ SampleRates[5] = 32000 /\ SampleRates[6] = 44100
BY DEF SampleRates

\* The loop of getInputSampleRate() ends at the turn.
LEMMA LoopEnds ==
  ASSUME NEW r \in Nat
  PROVE  \E m : Turn(r, m) /\ GetInputSampleRate(r) = SampleRates[m - 1]
<1> DEFINE S == {i \in 2..Len(SampleRates) : GrowsAgain(r, i)} \cup {Len(SampleRates) + 1}
<1>1. S = {i \in 2..6 : GrowsAgain(r, i)} \cup {7}
  BY RatesAre
<1>2. \E x \in S : \A y \in S : x <= y
  <2>1. \A i : i \in S <=> (i \in 2..6 /\ GrowsAgain(r, i)) \/ i = 7
    BY <1>1
  <2>2. 2 \in S \/ 3 \in S \/ 4 \in S \/ 5 \in S \/ 6 \in S \/ 7 \in S
    BY <2>1
  <2>3. S \subseteq {2, 3, 4, 5, 6, 7}
    BY <2>1
  <2> HIDE DEF S
  <2>4. CASE 2 \in S
    BY <2>3, <2>4
  <2>5. CASE 2 \notin S /\ 3 \in S
    BY <2>3, <2>5
  <2>6. CASE 2 \notin S /\ 3 \notin S /\ 4 \in S
    BY <2>3, <2>6
  <2>7. CASE 2 \notin S /\ 3 \notin S /\ 4 \notin S /\ 5 \in S
    BY <2>3, <2>7
  <2>8. CASE 2 \notin S /\ 3 \notin S /\ 4 \notin S /\ 5 \notin S /\ 6 \in S
    BY <2>3, <2>8
  <2>9. CASE 2 \notin S /\ 3 \notin S /\ 4 \notin S /\ 5 \notin S /\ 6 \notin S
    BY <2>2, <2>3, <2>9
  <2> QED
    BY <2>4, <2>5, <2>6, <2>7, <2>8, <2>9
<1>3. Min(S) \in S /\ \A y \in S : Min(S) <= y
  BY <1>2 DEF Min
<1>4. Turn(r, Min(S))
  BY <1>1, <1>3 DEF Turn
<1>5. GetInputSampleRate(r) = SampleRates[Min(S) - 1]
  BY DEF GetInputSampleRate
<1> QED
  BY <1>4, <1>5

\* For every rate, the one named is supported and is as near as any other.
LEMMA Nearest ==
  ASSUME NEW r \in Nat, NEW m, Turn(r, m)
  PROVE  /\ m - 1 \in DOMAIN SampleRates
         /\ \A i \in DOMAIN SampleRates :
              r - SampleRates[m - 1] \in -Delta(r, i)..Delta(r, i)
<1>1. \A j \in 2..6 : j < m => Delta(r, j) <= Delta(r, j - 1)
  BY RatesAre DEF Turn, GrowsAgain, Delta
<1>2. m # 7 => Delta(r, m) > Delta(r, m - 1)
  BY DEF Turn, GrowsAgain
<1>3. m \in {2, 3, 4, 5, 6, 7}
  BY DEF Turn
<1>4. CASE m = 2
  BY <1>1, <1>2, <1>4, RatesAre DEF Delta
<1>5. CASE m = 3
  BY <1>1, <1>2, <1>5, RatesAre DEF Delta
<1>6. CASE m = 4
  BY <1>1, <1>2, <1>6, RatesAre DEF Delta
<1>7. CASE m = 5
  BY <1>1, <1>2, <1>7, RatesAre DEF Delta
<1>8. CASE m = 6
  BY <1>1, <1>2, <1>8, RatesAre DEF Delta
<1>9. CASE m = 7
  BY <1>1, <1>9, RatesAre DEF Delta
<1> QED
  BY <1>3, <1>4, <1>5, <1>6, <1>7, <1>8, <1>9

\* A supported rate is its own nearest.
LEMMA SupportedStays ==
  ASSUME NEW i \in DOMAIN SampleRates
  PROVE  GetInputSampleRate(SampleRates[i]) = SampleRates[i]
<1>1. SampleRates[i] \in Nat
  BY RatesAre
<1>2. PICK m : Turn(SampleRates[i], m)
                 /\ GetInputSampleRate(SampleRates[i]) = SampleRates[m - 1]
  BY <1>1, LoopEnds
<1>3. Delta(SampleRates[i], i) = 0
  BY RatesAre DEF Delta
<1>4. m - 1 \in DOMAIN SampleRates /\ SampleRates[i] - SampleRates[m - 1] \in -0..0
  BY <1>1, <1>2, <1>3, Nearest
<1>5. SampleRates[m - 1] \in Nat
  BY <1>4, RatesAre
<1> QED
  BY <1>1, <1>2, <1>4, <1>5

LEMMA RateInit == Init => RateSettled
BY DEF Init, RateSettled

LEMMA RateStep == RateSettled /\ [Next]_vars => RateSettled'
<1> SUFFICES ASSUME RateSettled, [Next]_vars PROVE RateSettled'
  OBVIOUS
<1>1. ASSUME NEW r \in AskedRates, OpenInputStream(r) PROVE RateSettled'
  <2>1. r \in Nat
    BY CaptureAssumption
  <2>2. PICK m : Turn(r, m) /\ GetInputSampleRate(r) = SampleRates[m - 1]
    BY <2>1, LoopEnds
  <2>3. /\ m - 1 \in DOMAIN SampleRates
        /\ \A i \in DOMAIN SampleRates :
             r - SampleRates[m - 1] \in -Delta(r, i)..Delta(r, i)
    BY <2>1, <2>2, Nearest
  <2>4. GetInputSampleRate(SampleRates[m - 1]) = SampleRates[m - 1]
    BY <2>3, SupportedStays
  <2>5. CASE GetInputSampleRate(r) = r
    BY <1>1, <2>5 DEF OpenInputStream, RateSettled
  <2>6. CASE GetInputSampleRate(r) # r
    BY <1>1, <2>6, <2>2, <2>3, <2>4 DEF OpenInputStream, RateSettled
  <2> QED
    BY <2>5, <2>6
<1>2. CASE UNCHANGED <<asked, suggested>>
  BY <1>2 DEF RateSettled
<1>3. CASE ~\E r \in AskedRates : OpenInputStream(r)
  <2>1. UNCHANGED <<asked, suggested>>
    BY <1>3
    DEF Next, vars, rateVars, CallRead, ReadStep, Standby, Restart, NeedEchoReference,
        AddStandby, AddEffect, RemoveStandby, RemoveEffect, CloseInputStream, ReadFailed,
        PcmRead, TakeFrames, SamplerTakes, SamplerGives, FramesRead, FillProcBuf,
        PushEchoReference, Process, ProcessFails, FramesProcessed, ReadUnchanged
  <2> QED
    BY <1>2, <2>1
<1> QED
  BY <1>1, <1>3

\* For every rate a client may ask for: one that is refused comes with the name of a
\* rate that set() accepts, and no supported rate is nearer to the one asked for.
THEOREM RateSettledHolds == Spec => []RateSettled
BY RateInit, RateStep, PTL DEF Spec
=============================================================================
