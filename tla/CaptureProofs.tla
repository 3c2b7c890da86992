---------------------------- MODULE CaptureProofs ---------------------------
(***************************************************************************)
(* That the cap stops a recording cleanly, and that what stop hands over   *)
(* is what was asked for, for any cap, ring, chunk, frame and pre-roll,    *)
(* whatever portions the samples come in and whichever are loud.           *)
(*                                                                         *)
(* For the cap, what has to be known besides is that everything the        *)
(* samples go through is a sequence, and that the pre-roll a recording     *)
(* begins with is still in it.                                             *)
(*                                                                         *)
(* For the recording (FaithInv): Located, where each sample is, once in    *)
(* what is still to be taken and never in two places that exclude each     *)
(* other; Asked, how far the call has come; Timed, that the ring has       *)
(* nothing older than the call when the command is applied, for the worker *)
(* has just drained it; Begun and Handled, what of it is in the recording  *)
(* in flight and in the one on its way to the caller; Tracked, that the    *)
(* tracker has counted exactly the frames of the recording in flight.      *)
(* Tracked needs the detector in closed form (Counts): its three counters  *)
(* after n frames, told from which of the n are loud, and one step of      *)
(* each (CountingGoesOn).  What a call of Track does is by the smallest    *)
(* counterexample, for it is a recursive function.                         *)
(***************************************************************************)
EXTENDS Capture, SequenceTheorems, FiniteSetTheorems, WellFoundedInduction, TLAPS

Flight == [samples : Seq(Nat), before : Nat, live : BOOLEAN, cap_hit : BOOLEAN]

(* One recording in flight, under a cap of c samples. *)
Clean(f, c) ==
  /\ f.before <= Len(f.samples)
  /\ Len(f.samples) - f.before <= c
  /\ f.cap_hit <=> Len(f.samples) - f.before = c
  /\ f.live <=> ~f.cap_hit

Streams ==
  /\ clock \in Nat /\ cap \in Nat \ {0}
  /\ ring \in Seq(Nat) /\ pending \in Seq(Nat) /\ pre_roll \in Seq(Nat)

CapInv == Streams /\ (in_flight = <<>> \/ \E f \in Flight : in_flight = <<f>> /\ Clean(f, cap))

-----------------------------------------------------------------------------
(* The two ends of a sequence. *)
LEMMA FirstOfASequence ==
  ASSUME NEW s \in Seq(Nat), NEW n \in Nat
  PROVE  /\ First(n, s) \in Seq(Nat)
         /\ Len(First(n, s)) = IF n < Len(s) THEN n ELSE Len(s)
<1> DEFINE k == IF n < Len(s) THEN n ELSE Len(s)
<1>1. k \in 0..Len(s) /\ First(n, s) = SubSeq(s, 1, k)
  BY LenProperties DEF First
<1>2. SubSeq(s, 1, k) \in Seq(Nat) /\ Len(SubSeq(s, 1, k)) = k
  BY <1>1, SubSeqProperties, LenProperties
<1> QED
  BY <1>1, <1>2

LEMMA TheFirstAreASequence ==
  ASSUME NEW s \in Seq(Nat), NEW n \in Int
  PROVE  First(n, s) \in Seq(Nat)
<1>1. CASE n >= 0
  BY <1>1, FirstOfASequence
<1>2. CASE n < 0
  <2>1. First(n, s) = SubSeq(s, 1, n)
    BY <1>2, LenProperties DEF First
  <2> QED
    BY <1>2, <2>1, SubSeqProperties
<1> QED
  BY <1>1, <1>2

LEMMA RestOfASequence ==
  ASSUME NEW s \in Seq(Nat), NEW n \in Nat
  PROVE  Rest(n, s) \in Seq(Nat)
BY SubSeqProperties, LenProperties DEF Rest

LEMMA LastOfASequence ==
  ASSUME NEW s \in Seq(Nat), NEW n \in Nat
  PROVE  LastOf(n, s) \in Seq(Nat)
BY SubSeqProperties, LenProperties DEF LastOf

LEMMA PreRollStaysASequence ==
  ASSUME pre_roll \in Seq(Nat), NEW s \in Seq(Nat), PreRollPush(s)
  PROVE  pre_roll' \in Seq(Nat)
<1>1. pre_roll \o s \in Seq(Nat)
  BY ConcatProperties
<1> QED
  BY <1>1, LastOfASequence, CaptureAssumption DEF PreRollPush

-----------------------------------------------------------------------------
(* The room the cap leaves a recording, the part of what comes that fits,  *)
(* and what the recording becomes with it.                                 *)
Room(f, c)       == c - (Len(f.samples) - f.before)
Mine(f, c, out)  == First(Room(f, c), out)
Fuller(f, c, out) ==
  LET full == Len(Mine(f, c, out)) = Room(f, c)
  IN [samples |-> f.samples \o Mine(f, c, out), before |-> f.before,
      live |-> ~full, cap_hit |-> full]

LEMMA RoomIsNeverOverrun ==
  ASSUME NEW f \in Flight, NEW c \in Nat, Clean(f, c), NEW out \in Seq(Nat)
  PROVE  /\ Fuller(f, c, out) \in Flight
         /\ Clean(Fuller(f, c, out), c)
         /\ Len(Mine(f, c, out)) \in Nat
<1> DEFINE b == f.before
           l == Len(f.samples)
           s == Mine(f, c, out)
           m == Len(s)
           r == Room(f, c)
           g == Fuller(f, c, out)
<1>1. f.samples \in Seq(Nat) /\ b \in Nat /\ l \in Nat /\ Len(out) \in Nat
  BY LenProperties DEF Flight
<1>2. b <= l /\ l - b <= c
  BY DEF Clean
<1>3. r = c - (l - b)
  BY DEF Room
<1>4. r \in Nat
  <2> HIDE DEF b, l, r
  <2> QED
    BY <1>1, <1>2, <1>3
<1>5. s \in Seq(Nat) /\ m = IF r < Len(out) THEN r ELSE Len(out)
  BY <1>4, FirstOfASequence DEF Mine
<1>6. m \in Nat /\ m <= r
  <2> HIDE DEF m, r
  <2> QED
    BY <1>1, <1>4, <1>5
<1>7. f.samples \o s \in Seq(Nat) /\ Len(f.samples \o s) = l + m
  <2> HIDE DEF s
  <2> QED
    BY <1>1, <1>5, ConcatProperties
<1>8. g = [samples |-> f.samples \o s, before |-> b, live |-> ~(m = r), cap_hit |-> (m = r)]
  BY DEF Fuller
<1>9. g \in Flight
  <2> HIDE DEF b, s, m, r, g
  <2> QED
    BY <1>1, <1>7, <1>8 DEF Flight
<1>10. b <= l + m /\ (l + m) - b <= c /\ (m = r <=> (l + m) - b = c)
  <2> HIDE DEF b, l, m, r
  <2> QED
    BY <1>1, <1>2, <1>3, <1>6
<1>11. Clean(g, c)
  <2> HIDE DEF b, s, l, m, r, g
  <2>1. g.live = ~(m = r) /\ g.cap_hit = (m = r)
    BY <1>8
  <2>2. g.before = b /\ Len(g.samples) = l + m
    BY <1>7, <1>8
  <2>3. Len(g.samples) - g.before = (l + m) - b
    BY <2>2
  <2>4. g.before <= Len(g.samples) /\ Len(g.samples) - g.before <= c
    BY <1>10, <2>2, <2>3
  <2>5. g.cap_hit <=> Len(g.samples) - g.before = c
    BY <1>10, <2>1, <2>3, Zenon
  <2>6. g.live <=> ~g.cap_hit
    BY <2>1, Zenon
  <2> QED
    BY <2>4, <2>5, <2>6, Zenon DEF Clean
<1> QED
  BY <1>6, <1>9, <1>11

LEMMA TakeStopsAtTheCap ==
  ASSUME CapInv, Recording, NEW out \in Seq(Nat), Take(out), cap' = cap
  PROVE  /\ \E f \in Flight : in_flight' = <<f>> /\ Clean(f, cap')
         /\ pre_roll' \in Seq(Nat)
<1>1. PICK f \in Flight : in_flight = <<f>> /\ Clean(f, cap)
  BY DEF CapInv, Recording
<1>2. in_flight[1] = f /\ f.live /\ cap \in Nat
  BY <1>1 DEF Recording, CapInv, Streams
<1>3. /\ Fuller(f, cap, out) \in Flight
      /\ Clean(Fuller(f, cap, out), cap)
      /\ Len(Mine(f, cap, out)) \in Nat
  BY <1>1, <1>2, RoomIsNeverOverrun
<1>4. /\ in_flight' = <<Fuller(f, cap, out)>>
      /\ pre_roll' = pre_roll \/ PreRollPush(Rest(Len(Mine(f, cap, out)), out))
  BY <1>2 DEF Take, Fuller, Mine, Room
<1>5. Rest(Len(Mine(f, cap, out)), out) \in Seq(Nat)
  BY <1>3, RestOfASequence
<1>6. pre_roll' \in Seq(Nat)
  BY <1>4, <1>5, PreRollStaysASequence DEF CapInv, Streams
<1> QED
  BY <1>3, <1>4, <1>6

LEMMA DrainSteps ==
  ASSUME CapInv, Drain
  PROVE  CapInv'
<1> DEFINE all == pending \o ring
           n   == (Len(all) \div Chunk) * Chunk
           out == First(n, all)
<1>1. all \in Seq(Nat) /\ Len(all) \in Nat
  BY ConcatProperties, LenProperties DEF CapInv, Streams
<1>2. n \in Nat
  <2>1. Chunk \in Nat /\ Chunk > 0
    BY CaptureAssumption
  <2>2. \A a, b \in Nat : b > 0 => a \div b \in Nat
    OBVIOUS
  <2>3. (Len(all) \div Chunk) \in Nat
    BY <1>1, <2>1, <2>2
  <2>4. \A a, b \in Nat : a * b \in Nat
    OBVIOUS
  <2> QED
    BY <2>1, <2>3, <2>4
<1>3. out \in Seq(Nat) /\ Len(out) \in Nat
  BY <1>1, <1>2, FirstOfASequence, LenProperties
<1>4. ring' = <<>> /\ pending' = Rest(Len(out), all) /\ UNCHANGED <<clock, cap>>
  BY DEF Drain, Feed
<1>5. ring' \in Seq(Nat) /\ pending' \in Seq(Nat)
  BY <1>1, <1>3, <1>4, RestOfASequence, EmptySeq
<1>6. CASE Recording /\ out # <<>>
  <2>1. Take(out)
    BY <1>6 DEF Drain, Feed
  <2> QED
    BY <1>3, <1>4, <1>5, <1>6, <2>1, TakeStopsAtTheCap DEF CapInv, Streams
<1>7. CASE ~(Recording /\ out # <<>>)
  <2>1. PreRollPush(out) /\ in_flight' = in_flight
    BY <1>7 DEF Drain, Feed
  <2>2. pre_roll' \in Seq(Nat)
    BY <1>3, <2>1, PreRollStaysASequence DEF CapInv, Streams
  <2> QED
    BY <1>4, <1>5, <2>1, <2>2 DEF CapInv, Streams, Clean
<1> QED
  BY <1>6, <1>7

LEMMA StartSteps ==
  ASSUME CapInv, ApplyStart
  PROVE  CapInv'
<1> DEFINE f == [samples |-> pre_roll, before |-> Len(pre_roll), live |-> TRUE, cap_hit |-> FALSE]
<1>1. in_flight' = <<f>> /\ UNCHANGED <<clock, cap, ring, pending, pre_roll>>
  BY DEF ApplyStart, Start, Answers, audio
<1>2. Len(pre_roll) \in Nat
  BY LenProperties DEF CapInv, Streams
<1>3. f \in Flight /\ Clean(f, cap)
  BY <1>1, <1>2 DEF CapInv, Streams, Flight, Clean
<1> QED
  BY <1>1, <1>3 DEF CapInv, Streams

(* A recording that is not touched, or let go of. *)
LEMMA OtherSteps ==
  ASSUME CapInv, UNCHANGED <<clock, ring, pending, pre_roll, cap>>, in_flight' \in {in_flight, <<>>}
  PROVE  CapInv'
BY DEF CapInv, Streams, Clean

LEMMA PushSteps ==
  ASSUME CapInv, NEW n \in Blocks, Push(n)
  PROVE  CapInv'
<1> DEFINE block == [i \in 1..n |-> clock + i]
           room  == RingCapacity - Len(ring)
           fits  == First(room, block)
<1>1. n \in Nat /\ clock \in Nat
  BY CaptureAssumption DEF CapInv, Streams
<1>2. block \in Seq(Nat)
  BY <1>1
<1>3. fits \in Seq(Nat)
  <2>1. Len(ring) \in Nat /\ RingCapacity \in Nat
    BY LenProperties, CaptureAssumption DEF CapInv, Streams
  <2>2. room \in Int
    BY <2>1
  <2> QED
    BY <1>2, <2>2, TheFirstAreASequence
<1>4. ring' = ring \o fits /\ clock' = clock + n
  BY DEF Push
<1>5. ring' \in Seq(Nat) /\ clock' \in Nat
  BY <1>1, <1>3, <1>4, ConcatProperties DEF CapInv, Streams
<1>6. UNCHANGED <<pending, pre_roll, in_flight, cap>>
  BY DEF Push, pipeline
<1> QED
  BY <1>5, <1>6 DEF CapInv, Streams

LEMMA CapInvHoldsAtFirst ==
  ASSUME Init
  PROVE  CapInv
<1>1. \A c \in CapWanted : Clamp(c) \in Nat \ {0}
  BY CaptureAssumption DEF Clamp
<1> QED
  BY <1>1, EmptySeq DEF Init, CapInv, Streams

LEMMA EveryStep ==
  ASSUME CapInv, [Next]_vars
  PROVE  CapInv'
<1>1. CASE UNCHANGED vars
  BY <1>1, OtherSteps DEF vars, audio, pipeline
<1>2. CASE Calls \/ Joined \/ Return
  BY <1>2, OtherSteps DEF Calls, Call, Drop, Joined, Return, audio, pipeline
<1>3. CASE ReadLevel \/ Receive \/ TimesOut \/ Shutdown
  BY <1>3, OtherSteps DEF ReadLevel, Receive, TimesOut, Shutdown, audio, pipeline
<1>4. CASE ApplyStop \/ ApplyDiscard
  BY <1>4, OtherSteps DEF ApplyStop, ApplyDiscard, LetGo, Answers, audio
<1> QED
  BY <1>1, <1>2, <1>3, <1>4, DrainSteps, StartSteps, PushSteps DEF Next, Worker

(* feed, Recording::cap_hit: a recording never has a sample more than the  *)
(* cap, stops being live with the sample that reaches it, and says so      *)
(* exactly then.                                                           *)
THEOREM TheCapStopsCleanly == Spec => []CapStopsCleanly
<1>1. Init => CapInv
  BY CapInvHoldsAtFirst
<1>2. CapInv /\ [Next]_vars => CapInv'
  BY EveryStep
<1>3. CapInv => CapStopsCleanly
  BY DEF CapInv, Clean, CapStopsCleanly, Flight
<1> QED
  BY <1>1, <1>2, <1>3, PTL DEF Spec

-----------------------------------------------------------------------------
(* The detector over numbered frames, of which L are loud: an onset ends at *)
(* frame j, the quiet frames between j and i, and what is speech.           *)
Onset(L, j)    == \A k \in (j - AttackFrames + 1)..j : k \in L
Quiet(L, j, i) == {k \in (j + 1)..i : k \notin L}
Hears(L, i) ==
  \E j \in AttackFrames..i : Onset(L, j) /\ Cardinality(Quiet(L, j, i)) <= HangoverFrames

(* Its counters after n frames. *)
Ran(run, n, L) ==
  /\ run \in 0..n
  /\ \A k \in (n - run + 1)..n : k \in L
  /\ run < n => n - run \notin L

Hangs(hang, speaking, q) ==
  /\ hang = IF q < HangoverFrames THEN HangoverFrames - q ELSE 0
  /\ speaking <=> q <= HangoverFrames

Never(n, L) == \A j \in AttackFrames..n : ~Onset(L, j)
Since(j, n, L) == Onset(L, j) /\ \A k \in (j + 1)..n : ~Onset(L, k)

Spoke(hang, speaking, n, L) ==
  \/ Never(n, L) /\ hang = 0 /\ ~speaking
  \/ \E j \in AttackFrames..n : Since(j, n, L) /\ Hangs(hang, speaking, Cardinality(Quiet(L, j, n)))

Counts(t, L) ==
  /\ t.frames \in Nat /\ t.run \in Nat /\ t.hang \in Nat /\ t.speaking \in BOOLEAN
  /\ Ran(t.run, t.frames, L)
  /\ Spoke(t.hang, t.speaking, t.frames, L)
  /\ t.speech = {i \in 1..t.frames : Hears(L, i)}

(* How many frames have been quiet, and that it falls with a later onset   *)
(* and grows with a quiet frame.                                           *)
LEMMA QuietIsCounted ==
  ASSUME NEW L, NEW j \in Nat, NEW i \in Nat
  PROVE  IsFiniteSet(Quiet(L, j, i)) /\ Cardinality(Quiet(L, j, i)) \in Nat
<1>1. IsFiniteSet((j + 1)..i)
  BY FS_Interval
<1>2. Quiet(L, j, i) \in SUBSET ((j + 1)..i)
  BY DEF Quiet
<1>3. IsFiniteSet(Quiet(L, j, i))
  BY <1>1, <1>2, FS_Subset
<1> QED
  BY <1>3, FS_CardinalityType

LEMMA LaterIsQuieter ==
  ASSUME NEW L, NEW j \in Nat, NEW k \in Nat, j <= k, NEW i \in Nat
  PROVE  Cardinality(Quiet(L, k, i)) <= Cardinality(Quiet(L, j, i))
<1>1. Quiet(L, k, i) \in SUBSET Quiet(L, j, i)
  BY DEF Quiet
<1> QED
  BY <1>1, QuietIsCounted, FS_Subset

(* One more frame, loud or not. *)
Longer(L, n, on) == IF on THEN L \union {n + 1} ELSE L

LEMMA QuietGrows ==
  ASSUME NEW n \in Nat, NEW L \in SUBSET (1..n), NEW on \in BOOLEAN, NEW j \in Nat, j <= n
  PROVE  Cardinality(Quiet(Longer(L, n, on), j, n + 1))
           = IF on THEN Cardinality(Quiet(L, j, n)) ELSE Cardinality(Quiet(L, j, n)) + 1
<1>1. \A k \in (j + 1)..n : k \in Longer(L, n, on) <=> k \in L
  BY DEF Longer
<1>2. n + 1 \in Longer(L, n, on) <=> on
  BY DEF Longer
<1>0. \A k : k \in (j + 1)..(n + 1) <=> k \in (j + 1)..n \/ k = n + 1
  OBVIOUS
<1>3. CASE on
  <2>1. Quiet(Longer(L, n, on), j, n + 1) = Quiet(L, j, n)
    BY <1>0, <1>1, <1>2, <1>3, Zenon DEF Quiet
  <2> QED
    BY <1>3, <2>1
<1>4. CASE ~on
  <2>1. Quiet(Longer(L, n, on), j, n + 1) = Quiet(L, j, n) \cup {n + 1}
    BY <1>1, <1>2, <1>4 DEF Quiet
  <2>2. n + 1 \notin Quiet(L, j, n)
    BY DEF Quiet
  <2> QED
    BY <1>4, <2>1, <2>2, QuietIsCounted, FS_AddElement
<1> QED
  BY <1>3, <1>4

(* A new frame changes nothing about those before it.                      *)
LEMMA EarlierFramesStay ==
  ASSUME NEW n \in Nat, NEW L \in SUBSET (1..n), NEW on \in BOOLEAN
  PROVE  /\ \A j \in AttackFrames..n : Onset(Longer(L, n, on), j) <=> Onset(L, j)
         /\ \A i \in 1..n : Hears(Longer(L, n, on), i) <=> Hears(L, i)
<1> DEFINE M == Longer(L, n, on)
<1>1. \A k \in 1..n : k \in M <=> k \in L
  BY DEF Longer
<1>2. AttackFrames \in Nat /\ AttackFrames >= 1
  BY CaptureAssumption
<1> HIDE DEF M
<1>3. \A j \in AttackFrames..n : Onset(M, j) <=> Onset(L, j)
  BY <1>1, <1>2 DEF Onset
<1>4. \A i \in 1..n : \A j \in AttackFrames..i : Quiet(M, j, i) = Quiet(L, j, i)
  BY <1>1, <1>2 DEF Quiet
<1>5. \A i \in 1..n : Hears(M, i) <=> Hears(L, i)
  BY <1>2, <1>3, <1>4 DEF Hears
<1> QED
  BY <1>3, <1>5 DEF M

(* The run of loud frames is as long as an onset exactly when there is one *)
(* at the frame it ends with.                                              *)
LEMMA RunGoesOn ==
  ASSUME NEW n \in Nat, NEW L \in SUBSET (1..n), NEW on \in BOOLEAN, NEW run \in Nat, Ran(run, n, L)
  PROVE  LET r == IF on THEN run + 1 ELSE 0 IN
         /\ Ran(r, n + 1, Longer(L, n, on))
         /\ n + 1 >= AttackFrames /\ Onset(Longer(L, n, on), n + 1) <=> r >= AttackFrames
<1> DEFINE M == Longer(L, n, on)
           r == IF on THEN run + 1 ELSE 0
<1>1. \A k \in 1..n : k \in M <=> k \in L
  BY DEF Longer
<1>2. n + 1 \in M <=> on
  BY DEF Longer
<1>3. AttackFrames \in Nat /\ AttackFrames >= 1
  BY CaptureAssumption
<1> HIDE DEF M
<1>4. Ran(r, n + 1, M)
  BY <1>1, <1>2 DEF Ran
<1>5. ASSUME r >= AttackFrames
      PROVE  n + 1 >= AttackFrames /\ Onset(M, n + 1)
  BY <1>3, <1>4, <1>5 DEF Ran, Onset
<1>6. ASSUME r < AttackFrames, n + 1 >= AttackFrames
      PROVE  ~Onset(M, n + 1)
  <2>1. r \in Nat /\ r < n + 1 /\ n + 1 - r \notin M
    BY <1>3, <1>4, <1>6 DEF Ran
  <2>2. n + 1 - r \in (n + 1 - AttackFrames + 1)..(n + 1)
    BY <1>3, <1>6, <2>1
  <2> QED
    BY <1>3, <2>1, <2>2 DEF Onset
<1>7. r \in Nat
  OBVIOUS
<1> QED
  BY <1>3, <1>4, <1>5, <1>6, <1>7 DEF M

(* What a frame does to the counters. *)
NextRun(t, on)  == IF on THEN t.run + 1 ELSE 0
NextOn(t, on)   == NextRun(t, on) >= AttackFrames
NextTalk(t, on) == NextOn(t, on) \/ (t.speaking /\ (NextRun(t, on) > 0 \/ t.hang > 0))
NextHang(t, on) == IF NextOn(t, on) THEN HangoverFrames
                   ELSE IF NextRun(t, on) = 0 /\ t.hang > 0 THEN t.hang - 1 ELSE t.hang

(* One frame more, and the counters are still those of the frames heard.   *)
LEMMA CountingGoesOn ==
  ASSUME NEW t, NEW on \in BOOLEAN, NEW L \in SUBSET (1..t.frames), Counts(t, L),
         NEW u, u.frames = t.frames + 1, u.run = NextRun(t, on), u.hang = NextHang(t, on),
         u.speaking = NextTalk(t, on),
         u.speech = IF NextTalk(t, on) THEN t.speech \union {t.frames + 1} ELSE t.speech
  PROVE  Counts(u, Longer(L, t.frames, on))
<1> DEFINE n == t.frames
           M == Longer(L, n, on)
           r == NextRun(t, on)
           H == HangoverFrames
<1>0. n \in Nat /\ t.run \in Nat /\ t.hang \in Nat /\ t.speaking \in BOOLEAN /\ Ran(t.run, n, L)
  BY DEF Counts
<1>1. /\ Ran(r, n + 1, M)
      /\ n + 1 >= AttackFrames /\ Onset(M, n + 1) <=> r >= AttackFrames
  BY <1>0, RunGoesOn DEF NextRun
<1>2. /\ \A j \in AttackFrames..n : Onset(M, j) <=> Onset(L, j)
      /\ \A i \in 1..n : Hears(M, i) <=> Hears(L, i)
  BY <1>0, EarlierFramesStay
<1>3. /\ AttackFrames \in Nat /\ AttackFrames >= 1 /\ H \in Nat
      /\ r \in Nat /\ (r > 0 <=> on)
  BY <1>0, CaptureAssumption DEF NextRun
<1>4. \A j \in AttackFrames..n : Cardinality(Quiet(M, j, n + 1))
           = IF on THEN Cardinality(Quiet(L, j, n)) ELSE Cardinality(Quiet(L, j, n)) + 1
  <2> TAKE j \in AttackFrames..n
  <2>1. j \in Nat /\ j <= n
    BY <1>0, <1>3
  <2> QED
    BY <1>0, <2>1, QuietGrows
<1>5. \A j \in AttackFrames..(n + 1) : Cardinality(Quiet(L, j, n)) \in Nat
        /\ Cardinality(Quiet(M, j, n + 1)) \in Nat
  BY <1>0, <1>3, QuietIsCounted
<1> HIDE DEF M
<1>6. u.hang \in Nat /\ u.speaking \in BOOLEAN /\ u.run \in Nat
  BY <1>0, <1>3 DEF NextHang, NextTalk, NextOn
<1>7. CASE NextOn(t, on)
  <2>1. n + 1 \in AttackFrames..(n + 1) /\ Onset(M, n + 1)
    BY <1>0, <1>1, <1>3, <1>7 DEF NextOn
  <2>2. Quiet(M, n + 1, n + 1) = {}
    BY <1>0 DEF Quiet
  <2>3. Cardinality(Quiet(M, n + 1, n + 1)) = 0
    BY <2>2, FS_EmptySet
  <2>4. u.hang = H /\ u.speaking
    BY <1>7 DEF NextHang, NextTalk
  <2>5. Since(n + 1, n + 1, M)
    BY <1>0, <2>1 DEF Since
  <2>6. Spoke(u.hang, u.speaking, n + 1, M)
    BY <1>3, <2>1, <2>3, <2>4, <2>5 DEF Spoke, Hangs
  <2>7. Hears(M, n + 1)
    BY <1>3, <2>1, <2>3 DEF Hears
  <2>8. u.speech = {i \in 1..(n + 1) : Hears(M, i)}
    BY <1>0, <1>2, <1>7, <2>7 DEF Counts, NextTalk
  <2> QED
    BY <1>0, <1>1, <1>6, <2>6, <2>8 DEF Counts, M
<1>8. CASE ~NextOn(t, on)
  <2>1. ~(n + 1 \in AttackFrames..(n + 1) /\ Onset(M, n + 1))
    BY <1>0, <1>1, <1>3, <1>8 DEF NextOn
  <2>2. \A j \in AttackFrames..(n + 1) : Onset(M, j) => j \in AttackFrames..n
    BY <1>0, <1>3, <2>1
  <2>3. CASE Never(n, L) /\ t.hang = 0 /\ ~t.speaking
    <3>1. Never(n + 1, M)
      BY <1>2, <2>2, <2>3 DEF Never
    <3>2. u.hang = 0 /\ ~u.speaking
      <4>1. ~u.speaking
        BY <1>8, <2>3, Zenon DEF NextTalk
      <4>2. NextHang(t, on) = 0
        BY <1>8, <2>3 DEF NextHang
      <4> QED
        BY <4>1, <4>2
    <3>3. ~Hears(M, n + 1)
      BY <3>1 DEF Hears, Never
    <3>4. u.speech = {i \in 1..(n + 1) : Hears(M, i)}
      BY <1>0, <1>2, <3>2, <3>3 DEF Counts
    <3> QED
      BY <1>0, <1>1, <1>6, <3>1, <3>2, <3>4 DEF Counts, Spoke, M
  <2>4. ASSUME NEW j \in AttackFrames..n, Since(j, n, L),
               Hangs(t.hang, t.speaking, Cardinality(Quiet(L, j, n)))
        PROVE  Counts(u, M)
    <3> DEFINE q == Cardinality(Quiet(L, j, n))
               p == Cardinality(Quiet(M, j, n + 1))
    <3>1. q \in Nat /\ p \in Nat /\ p = IF on THEN q ELSE q + 1
      BY <1>0, <1>3, <1>4, <1>5
    <3>2. j \in AttackFrames..(n + 1) /\ j \in Nat
      BY <1>0, <1>3
    <3>3. Since(j, n + 1, M)
      <4>1. Onset(M, j)
        BY <1>2, <2>4 DEF Since
      <4>2. \A k \in (j + 1)..(n + 1) : k \in AttackFrames..(n + 1)
              /\ (k \in AttackFrames..n => k \in (j + 1)..n)
        BY <1>0, <1>3
      <4>3. \A k \in (j + 1)..(n + 1) : ~Onset(M, k)
        BY <1>2, <2>2, <2>4, <4>2 DEF Since
      <4> QED
        BY <4>1, <4>3 DEF Since
    <3>4. t.hang = (IF q < H THEN H - q ELSE 0) /\ (t.speaking <=> q <= H)
      BY <2>4 DEF Hangs
    <3>5. u.speaking <=> t.speaking /\ (r > 0 \/ t.hang > 0)
      BY <1>8 DEF NextTalk
    <3>6. u.hang = IF r = 0 /\ t.hang > 0 THEN t.hang - 1 ELSE t.hang
      BY <1>8 DEF NextHang
    <3> HIDE DEF n, r, H, p, q
    <3>7. u.speaking <=> p <= H
      BY <1>3, <3>1, <3>4, <3>5
    <3>8. u.hang = IF p < H THEN H - p ELSE 0
      BY <1>3, <3>1, <3>4, <3>6
    <3>9. Hangs(u.hang, u.speaking, p)
      BY <3>7, <3>8 DEF Hangs, H
    <3>10. Hears(M, n + 1) <=> p <= H
      <4>1. ASSUME p <= H
            PROVE  Hears(M, n + 1)
        BY <3>2, <3>3, <4>1 DEF Hears, Since, p, H
      <4>2. ASSUME NEW k \in AttackFrames..(n + 1), Onset(M, k),
                   Cardinality(Quiet(M, k, n + 1)) <= H
            PROVE  p <= H
        <5>1. k <= j /\ k \in Nat /\ n + 1 \in Nat
          <6>1. ~(k \in (j + 1)..(n + 1))
            BY <3>3, <4>2 DEF Since
          <6> QED
            BY <1>0, <1>3, <3>2, <6>1 DEF n
        <5>2. p <= Cardinality(Quiet(M, k, n + 1))
          BY <3>2, <5>1, LaterIsQuieter DEF p
        <5>3. Cardinality(Quiet(M, k, n + 1)) \in Nat
          BY <1>5 DEF n
        <5> QED
          BY <1>3, <3>1, <4>2, <5>2, <5>3
      <4> QED
        BY <4>1, <4>2 DEF Hears, H
    <3>11. u.speech = {i \in 1..(n + 1) : Hears(M, i)}
      <4>1. u.speech = IF u.speaking THEN t.speech \union {n + 1} ELSE t.speech
        BY DEF n
      <4>2. t.speech = {i \in 1..n : Hears(L, i)}
        BY DEF Counts, n
      <4> QED
        BY <1>0, <1>2, <3>7, <3>10, <4>1, <4>2 DEF n
    <3>12. Spoke(u.hang, u.speaking, n + 1, M)
      BY <3>2, <3>3, <3>9 DEF Spoke, p
    <3> QED
      BY <1>0, <1>1, <1>6, <3>11, <3>12 DEF Counts, n, r
  <2> QED
    BY <2>3, <2>4 DEF Counts, Spoke, M
<1> QED
  BY <1>7, <1>8

-----------------------------------------------------------------------------
(* The tracker after a sequence of samples, of which those in X are loud:   *)
(* whole frames are counted, and the rest is in its frame.                  *)
Trackers == [frame : Seq(Nat), frames : Nat, run : Nat, hang : Nat, speaking : BOOLEAN,
             speech : SUBSET Nat]

(* The i-th sample of the k-th frame. *)
At(k, i) == (k - 1) * FrameLen + i

LoudOnes(s, n, X) == {k \in 1..n : \E i \in 1..FrameLen : s[At(k, i)] \in X}

Follows(t, s, X) ==
  /\ t \in Trackers
  /\ Len(t.frame) < FrameLen
  /\ Len(s) = t.frames * FrameLen + Len(t.frame)
  /\ \A i \in 1..Len(t.frame) : t.frame[i] = s[t.frames * FrameLen + i]
  /\ Counts(t, LoudOnes(s, t.frames, X))

HearOne(t, x) ==
  LET v == [t EXCEPT !.frame = Append(@, x)]
  IN IF Len(v.frame) = FrameLen THEN Record(v) ELSE v

LEMMA NextAt ==
  ASSUME NEW n \in Nat, NEW i
  PROVE  At(n + 1, i) = n * FrameLen + i
<1>1. n + 1 - 1 = n
  OBVIOUS
<1> QED
  BY <1>1, SMT DEF At

(* The samples of the first n frames are the first n * FrameLen.           *)
LEMMA FramesEnd ==
  ASSUME NEW n \in Nat, NEW k \in 1..n, NEW i \in 1..FrameLen
  PROVE  (k - 1) * FrameLen + i \in 1..(n * FrameLen)
<1>1. FrameLen \in Nat
  BY CaptureAssumption
<1>2. \A a, b, c \in Nat : a <= b => a * c <= b * c
  OBVIOUS
<1>3. k \in Nat /\ k - 1 \in Nat /\ k <= n /\ i \in Nat /\ 1 <= i /\ i <= FrameLen
  BY <1>1
<1>4. k * FrameLen <= n * FrameLen
  BY <1>1, <1>2, <1>3
<1>5. k * FrameLen = (k - 1) * FrameLen + FrameLen
  BY <1>1, <1>3
<1>6. (k - 1) * FrameLen \in Nat /\ n * FrameLen \in Nat
  BY <1>1, <1>3
<1> DEFINE a == (k - 1) * FrameLen
           b == n * FrameLen
           c == k * FrameLen
<1> HIDE DEF a, b, c
<1> QED
  BY <1>1, <1>3, <1>4, <1>5, <1>6 DEF a, b, c

(* One sample more, whether it fills a frame or not.                       *)
LEMMA OneMoreSample ==
  ASSUME NEW s \in Seq(Nat), NEW x \in Nat, NEW t, Follows(t, s, loud)
  PROVE  Follows(HearOne(t, x), Append(s, x), loud)
<1> DEFINE n == t.frames
           b == n * FrameLen
           m == Len(t.frame)
           r == Append(s, x)
           v == [t EXCEPT !.frame = Append(@, x)]
           L == LoudOnes(s, n, loud)
<1>1. /\ t \in Trackers /\ t.frame \in Seq(Nat) /\ n \in Nat /\ FrameLen \in Nat /\ FrameLen >= 1
      /\ m \in Nat /\ Len(s) \in Nat /\ b \in Nat
  <2>1. t \in Trackers
    BY DEF Follows
  <2>2. t.frame \in Seq(Nat) /\ n \in Nat
    BY <2>1 DEF Trackers
  <2>3. FrameLen \in Nat /\ FrameLen >= 1
    BY CaptureAssumption
  <2>4. b \in Nat
    BY <2>2, <2>3
  <2> QED
    BY <2>1, <2>2, <2>3, <2>4, LenProperties
<1>2. /\ m < FrameLen /\ Len(s) = b + m /\ \A i \in 1..m : t.frame[i] = s[b + i]
      /\ Counts(t, L)
  BY DEF Follows
<1>3. /\ r \in Seq(Nat) /\ Len(r) = b + m + 1
      /\ \A i \in 1..(b + m) : r[i] = s[i]
      /\ r[b + m + 1] = x
  <2> HIDE DEF b, m
  <2> QED
    BY <1>1, <1>2, AppendProperties
<1>4. /\ v.frame \in Seq(Nat) /\ Len(v.frame) = m + 1
      /\ \A i \in 1..m : v.frame[i] = t.frame[i]
      /\ v.frame[m + 1] = x
      /\ v \in Trackers /\ v.frames = n /\ v.run = t.run /\ v.hang = t.hang
      /\ v.speaking = t.speaking /\ v.speech = t.speech
  <2>1. v.frame = Append(t.frame, x)
    BY <1>1 DEF Trackers
  <2>2. /\ v.frame \in Seq(Nat) /\ Len(v.frame) = m + 1
        /\ \A i \in 1..m : v.frame[i] = t.frame[i]
        /\ v.frame[m + 1] = x
    BY <1>1, <2>1, AppendProperties
  <2> QED
    BY <1>1, <2>2 DEF Trackers
<1>5. \A i \in 1..(m + 1) : v.frame[i] = r[b + i]
  <2> HIDE DEF b, m, r, v
  <2> TAKE i \in 1..(m + 1)
  <2>1. CASE i = m + 1
    BY <1>1, <1>3, <1>4, <2>1
  <2>2. CASE i # m + 1
    <3>1. i \in 1..m /\ b + i \in 1..(b + m)
      BY <1>1, <2>2
    <3> QED
      BY <1>2, <1>3, <1>4, <3>1
  <2> QED
    BY <2>1, <2>2
<1>6. \A k \in 1..n : \A i \in 1..FrameLen : r[At(k, i)] = s[At(k, i)]
  <2> TAKE k \in 1..n
  <2> TAKE i \in 1..FrameLen
  <2>1. At(k, i) \in 1..b
    BY <1>1, FramesEnd DEF At
  <2> DEFINE p == At(k, i)
  <2>2. p \in 1..(b + m)
    <3> HIDE DEF b, m
    <3> QED
      BY <1>1, <2>1
  <2> HIDE DEF p, b, m, r
  <2>3. r[p] = s[p]
    BY <1>3, <2>2
  <2> QED
    BY <2>3 DEF p
<1>7. LoudOnes(r, n, loud) = L
  <2> HIDE DEF r, n
  <2> QED
    BY <1>6 DEF LoudOnes
<1>8. CASE Len(v.frame) # FrameLen
  <2>1. HearOne(t, x) = v
    BY <1>8 DEF HearOne
  <2>2. Counts(v, L)
    BY <1>2, <1>4 DEF Counts
  <2>3. Len(v.frame) < FrameLen /\ Len(r) = b + Len(v.frame)
    <3> HIDE DEF b, m, r, v
    <3> QED
      BY <1>1, <1>2, <1>3, <1>4, <1>8
  <2>4. Follows(v, r, loud)
    <3> HIDE DEF v, r, L
    <3> QED
      BY <1>4, <1>5, <1>7, <2>2, <2>3 DEF Follows
  <2> QED
    BY <2>1, <2>4
<1>9. CASE Len(v.frame) = FrameLen
  <2> DEFINE on == Loud(v.frame)
             u  == Record(v)
  <2>1. /\ u = [frame |-> <<>>, frames |-> n + 1, run |-> NextRun(t, on), hang |-> NextHang(t, on),
                speaking |-> NextTalk(t, on),
                speech |-> IF NextTalk(t, on) THEN t.speech \union {n + 1} ELSE t.speech]
    <3> HIDE DEF v, n
    <3> QED
      BY <1>4 DEF Record, NextRun, NextHang, NextTalk, NextOn
  <2>2. on \in BOOLEAN /\ L \in SUBSET (1..n)
    BY DEF Loud, LoudOnes
  <2>3. Counts(u, Longer(L, n, on))
    <3> HIDE DEF on, L, u
    <3> QED
      BY <1>2, <2>1, <2>2, CountingGoesOn
  <2>4. LoudOnes(r, n + 1, loud) = Longer(L, n, on)
    <3> DEFINE P(k) == \E i \in 1..FrameLen : r[At(k, i)] \in loud
    <3>1. on <=> P(n + 1)
      <4>1. n + 1 - 1 = n /\ m + 1 = FrameLen
        BY <1>1, <1>4, <1>9
      <4>2. \A i \in 1..FrameLen : v.frame[i] = r[At(n + 1, i)]
        <5>1. \A i \in 1..FrameLen : At(n + 1, i) = b + i
          BY <1>1, NextAt
        <5> HIDE DEF v, r, n, m, b
        <5> QED
          BY <1>5, <4>1, <5>1
      <4>3. on <=> \E i \in 1..FrameLen : v.frame[i] \in loud
        <5> HIDE DEF v
        <5> QED
          BY <1>9 DEF Loud
      <4>4. P(n + 1) <=> \E i \in 1..FrameLen : r[At(n + 1, i)] \in loud
        OBVIOUS
      <4> HIDE DEF v, r, n, m, on, P
      <4> QED
        BY <4>2, <4>3, <4>4
    <3>2. \A k : k \in 1..(n + 1) <=> k \in 1..n \/ k = n + 1
      BY <1>1
    <3>3. n + 1 \notin 1..n
      BY <1>1
    <3> HIDE DEF on, r, n
    <3>4. LoudOnes(r, n + 1, loud) = LoudOnes(r, n, loud) \union (IF on THEN {n + 1} ELSE {})
      <4>1. LoudOnes(r, n + 1, loud) = {k \in 1..(n + 1) : P(k)}
              /\ LoudOnes(r, n, loud) = {k \in 1..n : P(k)}
        BY DEF LoudOnes
      <4> HIDE DEF P
      <4> QED
        BY <3>1, <3>2, <4>1
    <3> QED
      BY <1>7, <3>4 DEF Longer
  <2>5. Len(r) = (n + 1) * FrameLen
    <3>1. m + 1 = FrameLen
      BY <1>4, <1>9
    <3>2. (n + 1) * FrameLen = b + FrameLen
      BY <1>1
    <3> HIDE DEF b, m, r, n
    <3> QED
      BY <1>1, <1>3, <3>1, <3>2
  <2>6. u \in Trackers
    <3>1. NextRun(t, on) \in Nat /\ NextHang(t, on) \in Nat
      <4>1. t.run \in Nat /\ t.hang \in Nat /\ HangoverFrames \in Nat
        BY <1>1, CaptureAssumption DEF Trackers
      <4> QED
        BY <4>1 DEF NextRun, NextHang
    <3>2. NextTalk(t, on) \in BOOLEAN
      BY <1>1 DEF NextTalk, NextOn, Trackers
    <3>3. t.speech \in SUBSET Nat
      BY <1>1 DEF Trackers
    <3>4. <<>> \in Seq(Nat)
      BY EmptySeq
    <3> HIDE DEF on, u, v
    <3> QED
      BY <1>1, <2>1, <3>1, <3>2, <3>3, <3>4 DEF Trackers
  <2>7. HearOne(t, x) = u
    BY <1>9 DEF HearOne
  <2>8. u.frame = <<>> /\ u.frames = n + 1 /\ Len(<<>>) = 0
    BY <2>1, EmptySeq
  <2>9. Len(u.frame) < FrameLen /\ Len(r) = u.frames * FrameLen + Len(u.frame)
    <3>1. (n + 1) * FrameLen \in Nat
      BY <1>1
    <3> HIDE DEF u, r, n
    <3> QED
      BY <1>1, <2>5, <2>8, <3>1
  <2>10. Counts(u, LoudOnes(r, u.frames, loud))
    <3> HIDE DEF u, r, n, L, on
    <3> QED
      BY <2>3, <2>4, <2>8
  <2>11. \A i \in 1..Len(u.frame) : u.frame[i] = r[u.frames * FrameLen + i]
    <3> HIDE DEF u, r
    <3> QED
      BY <2>8
  <2>12. Follows(u, r, loud)
    <3> HIDE DEF u, r
    <3> QED
      BY <2>6, <2>9, <2>10, <2>11 DEF Follows
  <2> QED
    BY <2>7, <2>12
<1> QED
  BY <1>8, <1>9

-----------------------------------------------------------------------------
(* A set of numbers has a least one, which stands for induction below.     *)
LEMMA Smallest ==
  ASSUME NEW N, N \subseteq Nat, N # {}
  PROVE  \E x \in N : \A y \in N : x <= y
<1>1. \E x \in N : \A y \in N : ~ (<<y, x>> \in OpToRel(<, Nat))
  BY NatLessThanWellFounded, WFMin
<1>2. PICK x \in N : \A y \in N : ~ (<<y, x>> \in OpToRel(<, Nat))
  BY <1>1
<1>3. \A y \in N : ~(y < x)
  <2> SUFFICES ASSUME NEW y \in N, y < x PROVE <<y, x>> \in OpToRel(<, Nat)
    BY <1>2
  <2> QED
    BY DEF OpToRel
<1>4. \A y \in N : x <= y
  BY <1>3
<1> QED BY <1>4

(* f is what Track computes over the first m samples of q. *)
Tracks(f, t, q, m) == f = [i \in 0..m |-> IF i = 0 THEN t ELSE HearOne(f[i - 1], q[i])]

(* The recursive function in Track exists for every length, and Track is   *)
(* its last value.                                                         *)
LEMMA TrackIsDefined ==
  ASSUME NEW t, NEW q \in Seq(Nat)
  PROVE  \A m \in 0..Len(q) : \E f : Tracks(f, t, q, m)
<1> DEFINE Missing == {m \in 0..Len(q) : ~\E f : Tracks(f, t, q, m)}
<1>1. SUFFICES ASSUME Missing # {} PROVE FALSE
  OBVIOUS
<1>2. PICK m \in Missing : \A y \in Missing : m <= y
  <2>1. Missing \subseteq Nat
    OBVIOUS
  <2> HIDE DEF Missing
  <2> QED
    BY <1>1, <2>1, Smallest
<1>3. m # 0
  <2>1. Tracks([i \in 0..0 |-> t], t, q, 0)
    BY DEF Tracks
  <2> QED
    BY <2>1
<1>4. m - 1 \in 0..Len(q) /\ m - 1 \notin Missing
  BY <1>2, <1>3
<1>5. PICK g : Tracks(g, t, q, m - 1)
  BY <1>4
<1> DEFINE f == [i \in 0..m |-> IF i < m THEN g[i] ELSE HearOne(g[m - 1], q[m])]
<1>6. Tracks(f, t, q, m)
  <2>1. m \in Nat /\ m - 1 \in Nat /\ m \in 0..m
    BY <1>3
  <2>2. \A i \in 0..m : i # m => f[i] = g[i]
    BY <2>1
  <2>3. \A i \in 0..m : f[i] = IF i = 0 THEN t ELSE HearOne(f[i - 1], q[i])
    <3> SUFFICES ASSUME NEW i \in 0..m
                 PROVE  f[i] = IF i = 0 THEN t ELSE HearOne(f[i - 1], q[i])
      OBVIOUS
    <3>1. CASE i = m
      BY <1>3, <2>1, <3>1
    <3>2. CASE i # m
      <4>1. i \in 0..(m - 1) /\ (i # 0 => i - 1 \in 0..(m - 1) /\ i - 1 # m)
        BY <3>2, <2>1
      <4>2. g[i] = IF i = 0 THEN t ELSE HearOne(g[i - 1], q[i])
        BY <1>5, <4>1 DEF Tracks
      <4> QED
        BY <2>2, <3>2, <4>1, <4>2
    <3> QED
      BY <3>1, <3>2
  <2>4. f = [i \in 0..m |-> f[i]]
    OBVIOUS
  <2> HIDE DEF f
  <2> QED
    BY <2>3, <2>4 DEF Tracks
<1> QED
  BY <1>6

LEMMA TrackUnfolds ==
  ASSUME NEW t, NEW q \in Seq(Nat)
  PROVE  \E f : Tracks(f, t, q, Len(q)) /\ Track(t, q) = f[Len(q)]
<1>1. \E f : Tracks(f, t, q, Len(q))
  <2>1. Len(q) \in 0..Len(q)
    BY LenProperties
  <2> QED
    BY <2>1, TrackIsDefined
<1> QED
  BY <1>1 DEF Track, Tracks, HearOne

LEMMA OneSampleLonger ==
  ASSUME NEW w \in Seq(Nat), NEW m \in 1..Len(w)
  PROVE  SubSeq(w, 1, m) = Append(SubSeq(w, 1, m - 1), w[m])
<1> DEFINE o == SubSeq(w, 1, m - 1)
<1>1. 1 \in 1..Len(w) /\ m \in 1..Len(w) /\ Len(w) \in Nat /\ w[m] \in Nat
  BY LenProperties, ElementOfSeq
<1>2. SubSeq(w, 1, m) = o \o <<w[m]>>
  BY <1>1, SubSeqRecursiveSecond
<1>3. o \in Seq(Nat)
  BY <1>1, SubSeqProperties
<1> HIDE DEF o
<1>4. Append(o, w[m]) = o \o <<w[m]>>
  BY <1>1, <1>3, AppendIsConcat
<1> QED
  BY <1>2, <1>4 DEF o

LEMMA TheFirstPart ==
  ASSUME NEW s \in Seq(Nat), NEW q \in Seq(Nat)
  PROVE  SubSeq(s \o q, 1, Len(s)) = s
<1>1. CASE s = <<>>
  BY <1>1, SubSeqEmpty
<1>2. CASE s # <<>>
  <2>1. Len(s) \in Nat /\ Len(s) # 0
    BY <1>2, LenProperties, EmptySeq
  <2>2. 1 \in 1..Len(s) /\ Len(s) \in 1..Len(s)
    BY <2>1
  <2>3. SubSeq(s \o q, 1, Len(s)) = SubSeq(s, 1, Len(s))
    BY <2>2, SubSeqOfConcat1
  <2> QED
    BY <2>3, SubSeqFull
<1> QED
  BY <1>1, <1>2

(* A portion of samples more, of any length.                               *)
LEMMA TrackGoesOn ==
  ASSUME NEW s \in Seq(Nat), NEW q \in Seq(Nat), NEW t, Follows(t, s, loud)
  PROVE  Follows(Track(t, q), s \o q, loud)
<1>1. PICK f : Tracks(f, t, q, Len(q)) /\ Track(t, q) = f[Len(q)]
  BY TrackUnfolds
<1> DEFINE w == s \o q
           part(i) == SubSeq(w, 1, Len(s) + i)
           Bad == {i \in 0..Len(q) : ~Follows(f[i], part(i), loud)}
<1>2. /\ Len(q) \in Nat /\ Len(s) \in Nat /\ w \in Seq(Nat) /\ Len(w) = Len(s) + Len(q)
      /\ \A i \in 1..Len(q) : w[Len(s) + i] = q[i]
  <2>1. /\ Len(q) \in Nat /\ Len(s) \in Nat /\ w \in Seq(Nat) /\ Len(w) = Len(s) + Len(q)
        /\ \A i \in 1..(Len(s) + Len(q)) : w[i] = IF i <= Len(s) THEN s[i] ELSE q[i - Len(s)]
    BY LenProperties, ConcatProperties
  <2> HIDE DEF w
  <2>2. \A i \in 1..Len(q) : w[Len(s) + i] = q[i]
    <3> TAKE i \in 1..Len(q)
    <3>1. Len(s) + i \in 1..(Len(s) + Len(q)) /\ ~(Len(s) + i <= Len(s)) /\ Len(s) + i - Len(s) = i
      BY <2>1
    <3> QED
      BY <2>1, <3>1
  <2> QED
    BY <2>1, <2>2
<1>3. part(0) = s /\ part(Len(q)) = w
  <2>1. SubSeq(w, 1, Len(s)) = s /\ SubSeq(w, 1, Len(w)) = w
    BY <1>2, TheFirstPart, SubSeqFull
  <2> HIDE DEF w
  <2> QED
    BY <1>2, <2>1
<1> HIDE DEF w
<1>4. SUFFICES ASSUME Bad # {} PROVE FALSE
  <2>1. Len(q) \in 0..Len(q)
    BY <1>2
  <2> HIDE DEF part
  <2>2. Bad = {} => Follows(f[Len(q)], part(Len(q)), loud)
    BY <2>1, Zenon
  <2> QED
    BY <1>1, <1>3, <2>2 DEF w
<1>5. PICK n \in Bad : \A m \in Bad : n <= m
  <2>1. Bad \subseteq Nat
    OBVIOUS
  <2> HIDE DEF Bad
  <2> QED
    BY <1>4, <2>1, Smallest
<1>6. f[n] = IF n = 0 THEN t ELSE HearOne(f[n - 1], q[n])
  BY <1>1 DEF Tracks
<1>7. n # 0
  BY <1>3, <1>5, <1>6
<1>8. n \in 1..Len(q) /\ n - 1 \in 0..Len(q) /\ ~(n <= n - 1)
  BY <1>2, <1>7
<1>9. n - 1 \notin Bad
  <2> HIDE DEF Bad
  <2> QED
    BY <1>5, <1>8
<1>10. Follows(f[n - 1], part(n - 1), loud)
  BY <1>8, <1>9
<1>11. part(n) = Append(part(n - 1), q[n])
  <2> DEFINE m == Len(s) + n
  <2>1. m \in 1..Len(w) /\ m - 1 = Len(s) + (n - 1) /\ w[m] = q[n]
    BY <1>2, <1>8
  <2> HIDE DEF m
  <2>2. SubSeq(w, 1, m) = Append(SubSeq(w, 1, m - 1), w[m])
    BY <1>2, <2>1, OneSampleLonger
  <2> QED
    BY <2>1, <2>2 DEF m
<1>12. part(n - 1) \in Seq(Nat) /\ q[n] \in Nat
  <2>1. \A i \in 1..(Len(s) + (n - 1)) : w[i] \in Nat
    BY <1>2, <1>8, ElementOfSeq
  <2> QED
    BY <1>2, <1>8, <2>1, SubSeqProperties, ElementOfSeq
<1>13. Follows(HearOne(f[n - 1], q[n]), Append(part(n - 1), q[n]), loud)
  <2> HIDE DEF part
  <2> QED
    BY <1>10, <1>12, OneMoreSample
<1> QED
  BY <1>5, <1>6, <1>7, <1>11, <1>13

(* A tracker that has just been reset follows an empty recording.          *)
LEMMA NothingHeard == Follows(Silent, <<>>, loud)
<1> DEFINE L == LoudOnes(<<>>, 0, loud)
<1>1. AttackFrames \in Nat /\ AttackFrames >= 1 /\ FrameLen \in Nat /\ FrameLen >= 1
  BY CaptureAssumption
<1>2. Silent \in Trackers /\ Len(<<>>) = 0
  BY EmptySeq DEF Silent, Trackers
<1>3. Counts(Silent, L)
  <2>1. Ran(0, 0, L)
    BY DEF Ran
  <2>2. Spoke(0, FALSE, 0, L)
    <3>1. Never(0, L)
      <4>1. AttackFrames..0 = {}
        BY <1>1
      <4> QED
        BY <4>1 DEF Never
    <3> QED
      BY <3>1 DEF Spoke
  <2>3. {} = {i \in 1..0 : Hears(L, i)}
    OBVIOUS
  <2> QED
    BY <2>1, <2>2, <2>3 DEF Silent, Counts
<1> QED
  BY <1>1, <1>2, <1>3 DEF Follows, Silent

(* The k-th frame, cut out of the recording.                               *)
LEMMA FrameOf ==
  ASSUME NEW s \in Seq(Nat), NEW n \in Nat, n * FrameLen <= Len(s), NEW k \in 1..n
  PROVE  Loud(SubSeq(s, (k - 1) * FrameLen + 1, k * FrameLen)) <=> k \in LoudOnes(s, n, loud)
<1> DEFINE a == (k - 1) * FrameLen
           e == k * FrameLen
           p == SubSeq(s, a + 1, e)
<1>1. /\ FrameLen \in Nat /\ FrameLen >= 1 /\ a \in Nat /\ e \in Nat /\ e = a + FrameLen
      /\ Len(s) \in Nat
  <2>1. FrameLen \in Nat /\ FrameLen >= 1 /\ Len(s) \in Nat
    BY CaptureAssumption, LenProperties
  <2>2. k \in Nat /\ k - 1 \in Nat
    OBVIOUS
  <2>3. \A x, y \in Nat : x * y \in Nat
    OBVIOUS
  <2>4. e = a + FrameLen
    BY <2>1, <2>2
  <2> QED
    BY <2>1, <2>2, <2>3, <2>4
<1>2. \A i \in 1..FrameLen : a + i \in 1..Len(s)
  <2>1. \A i \in 1..FrameLen : a + i \in 1..(n * FrameLen)
    BY FramesEnd
  <2> HIDE DEF a
  <2> QED
    BY <1>1, <2>1
<1>3. \A i \in (a + 1)..e : s[i] \in Nat
  <2> TAKE i \in (a + 1)..e
  <2> DEFINE j == i - a
  <2>1. j \in 1..FrameLen /\ i = a + j
    <3> HIDE DEF a, e
    <3> QED
      BY <1>1
  <2> HIDE DEF j, a, e
  <2>2. i \in 1..Len(s)
    BY <1>2, <2>1
  <2> QED
    BY <2>2, ElementOfSeq
<1>4. Len(p) = FrameLen /\ \A i \in 1..FrameLen : p[i] = s[At(k, i)]
  <2>1. \A i \in 1..FrameLen : At(k, i) = a + i
    BY DEF At
  <2> HIDE DEF a, e
  <2>2. Len(p) = FrameLen
    BY <1>1, <1>3, SubSeqProperties
  <2>3. \A i \in 1..FrameLen : p[i] = s[a + i]
    <3> TAKE i \in 1..FrameLen
    <3>1. i \in 1..(e - (a + 1) + 1) /\ a + 1 + i - 1 = a + i
      BY <1>1
    <3>2. p[i] = s[a + 1 + i - 1]
      BY <1>1, <1>3, <3>1, SubSeqProperties
    <3> QED
      BY <3>1, <3>2
  <2> QED
    BY <2>1, <2>2, <2>3
<1> HIDE DEF p
<1>5. Loud(p) <=> \E i \in 1..FrameLen : p[i] \in loud
  BY <1>4 DEF Loud
<1>6. (\E i \in 1..FrameLen : p[i] \in loud) <=> \E i \in 1..FrameLen : s[At(k, i)] \in loud
  BY <1>4
<1> QED
  BY <1>5, <1>6 DEF LoudOnes, p

(* What the tracker says is what the detector finds in the whole recording. *)
LEMMA TrackerIsRight ==
  ASSUME NEW s \in Seq(Nat), NEW t, Follows(t, s, loud)
  PROVE  t.speech = SpeechOf(s)
<1> DEFINE n == t.frames
           L == LoudOnes(s, n, loud)
           r == Len(t.frame)
           b == n * FrameLen
           LoudFrame(i) == Loud(SubSeq(s, (i - 1) * FrameLen + 1, i * FrameLen))
           Heard(i) == \E j \in AttackFrames..i :
                    /\ \A k \in (j - AttackFrames + 1)..j : LoudFrame(k)
                    /\ Cardinality({k \in (j + 1)..i : ~LoudFrame(k)}) <= HangoverFrames
<1>1. /\ n \in Nat /\ r \in Nat /\ r < FrameLen /\ Len(s) = b + r
      /\ FrameLen \in Nat /\ FrameLen >= 1 /\ AttackFrames \in Nat /\ AttackFrames >= 1
  <2>1. t.frame \in Seq(Nat) /\ n \in Nat
    BY DEF Follows, Trackers
  <2>2. r \in Nat
    BY <2>1, LenProperties
  <2>3. r < FrameLen /\ Len(s) = b + r
    BY DEF Follows
  <2>4. FrameLen \in Nat /\ FrameLen >= 1 /\ AttackFrames \in Nat /\ AttackFrames >= 1
    BY CaptureAssumption
  <2> QED
    BY <2>1, <2>2, <2>3, <2>4
<1>2. Len(s) \div FrameLen = n
  <2> HIDE DEF n, r
  <2> QED
    BY <1>1
<1>3. b \in Nat /\ b <= Len(s)
  <2>1. b \in Nat
    BY <1>1
  <2> HIDE DEF b, r
  <2> QED
    BY <1>1, <2>1
<1>4. \A k \in 1..n : LoudFrame(k) <=> k \in L
  BY <1>1, <1>3, FrameOf
<1>5. t.speech = {i \in 1..n : Hears(L, i)}
  BY DEF Follows, Counts
<1> HIDE DEF LoudFrame, n, L
<1>6. ASSUME NEW i \in 1..n, NEW j \in AttackFrames..i
      PROVE  /\ (\A k \in (j - AttackFrames + 1)..j : LoudFrame(k)) <=> Onset(L, j)
             /\ {k \in (j + 1)..i : ~LoudFrame(k)} = Quiet(L, j, i)
  <2>1. \A k \in (j - AttackFrames + 1)..j : k \in 1..n
    BY <1>1
  <2>2. \A k \in (j + 1)..i : k \in 1..n
    BY <1>1
  <2> QED
    BY <1>4, <2>1, <2>2 DEF Onset, Quiet
<1>7. \A i \in 1..n : Heard(i) <=> Hears(L, i)
  BY <1>6 DEF Hears
<1>8. SpeechOf(s) = {i \in 1..(Len(s) \div FrameLen) : Heard(i)}
  BY DEF SpeechOf, LoudFrame
<1> HIDE DEF Heard
<1> QED
  BY <1>2, <1>5, <1>7, <1>8

-----------------------------------------------------------------------------
Distinct(s) == \A i, j \in 1..Len(s) : s[i] = s[j] => i = j

(* The samples of a sequence, of two one after the other, and of the parts *)
(* of one.                                                                 *)
LEMMA SetOfASequence ==
  ASSUME NEW s \in Seq(Nat)
  PROVE  /\ \A x : x \in ToSet(s) <=> \E i \in 1..Len(s) : s[i] = x
         /\ ToSet(s) \in SUBSET Nat
<1>1. DOMAIN s = 1..Len(s) /\ Len(s) \in Nat
  BY LenProperties
<1>2. \A i \in 1..Len(s) : s[i] \in Nat
  BY ElementOfSeq
<1> QED
  BY <1>1, <1>2 DEF ToSet

LEMMA NothingInTheEmpty == ToSet(<<>>) = {} /\ Distinct(<<>>)
<1>1. DOMAIN <<>> = {} /\ Len(<<>>) = 0
  OBVIOUS
<1> QED
  BY <1>1 DEF ToSet, Distinct

LEMMA SetOfTwo ==
  ASSUME NEW s \in Seq(Nat), NEW t \in Seq(Nat)
  PROVE  /\ ToSet(s \o t) = ToSet(s) \union ToSet(t)
         /\ (Distinct(s) /\ Distinct(t) /\ ToSet(s) \intersect ToSet(t) = {}) => Distinct(s \o t)
<1> DEFINE w == s \o t
           a == Len(s)
           b == Len(t)
<1>1. /\ w \in Seq(Nat) /\ Len(w) = a + b /\ a \in Nat /\ b \in Nat
      /\ \A i \in 1..(a + b) : w[i] = IF i <= a THEN s[i] ELSE t[i - a]
  BY LenProperties, ConcatProperties
<1> HIDE DEF w, a, b
<1>2. \A i \in 1..(a + b) : (i <= a => w[i] = s[i]) /\ (~(i <= a) => w[i] = t[i - a])
  BY <1>1
<1>3. \A i \in 1..a : i \in 1..(a + b) /\ w[i] = s[i]
  BY <1>1
<1>4. \A i \in 1..b : a + i \in 1..(a + b) /\ w[a + i] = t[i]
  <2> TAKE i \in 1..b
  <2>1. a + i \in 1..(a + b) /\ ~(a + i <= a) /\ a + i - a = i
    BY <1>1
  <2> QED
    BY <1>1, <2>1
<1>5. \A i \in 1..(a + b) : i \in 1..a \/ (~(i <= a) /\ i - a \in 1..b /\ i = a + (i - a))
  BY <1>1
<1>6. \A x : x \in ToSet(w) <=> x \in ToSet(s) \/ x \in ToSet(t)
  <2> TAKE x
  <2>1. ASSUME x \in ToSet(w) PROVE x \in ToSet(s) \/ x \in ToSet(t)
    <3>1. PICK i \in 1..(a + b) : w[i] = x
      BY <1>1, <2>1, SetOfASequence
    <3>2. CASE i \in 1..a
      BY <1>3, <3>1, <3>2, SetOfASequence DEF a
    <3>3. CASE ~(i <= a) /\ i - a \in 1..b
      BY <1>2, <3>1, <3>3, SetOfASequence DEF b
    <3> QED
      BY <1>5, <3>2, <3>3
  <2>2. ASSUME x \in ToSet(s) PROVE x \in ToSet(w)
    <3>1. PICK i \in 1..a : s[i] = x
      BY <2>2, SetOfASequence DEF a
    <3> QED
      BY <1>1, <1>3, <3>1, SetOfASequence
  <2>3. ASSUME x \in ToSet(t) PROVE x \in ToSet(w)
    <3>1. PICK i \in 1..b : t[i] = x
      BY <2>3, SetOfASequence DEF b
    <3> QED
      BY <1>1, <1>4, <3>1, SetOfASequence
  <2> QED
    BY <2>1, <2>2, <2>3
<1>7. ASSUME Distinct(s), Distinct(t), ToSet(s) \intersect ToSet(t) = {}
      PROVE  Distinct(w)
  <2>1. \A i \in 1..a : s[i] \in ToSet(s)
    BY SetOfASequence DEF a
  <2>2. \A i \in 1..b : t[i] \in ToSet(t)
    BY SetOfASequence DEF b
  <2>3. \A i \in 1..a, j \in 1..b : s[i] # t[j]
    BY <1>7, <2>1, <2>2
  <2> SUFFICES ASSUME NEW i \in 1..(a + b), NEW j \in 1..(a + b), w[i] = w[j]
               PROVE  i = j
    BY <1>1 DEF Distinct
  <2>4. CASE i \in 1..a /\ j \in 1..a
    BY <1>3, <1>7, <2>4 DEF Distinct, a
  <2>5. CASE i \in 1..a /\ j - a \in 1..b /\ ~(j <= a)
    BY <1>2, <1>3, <2>3, <2>5
  <2>6. CASE j \in 1..a /\ i - a \in 1..b /\ ~(i <= a)
    BY <1>2, <1>3, <2>3, <2>6
  <2>7. CASE i - a \in 1..b /\ ~(i <= a) /\ j - a \in 1..b /\ ~(j <= a)
    <3>1. t[i - a] = t[j - a]
      BY <1>2, <2>7
    <3>2. i - a = j - a
      BY <1>7, <2>7, <3>1 DEF Distinct, b
    <3> QED
      BY <1>1, <3>2
  <2> QED
    BY <1>5, <2>4, <2>5, <2>6, <2>7
<1> QED
  BY <1>6, <1>7 DEF w

(* The two ends of a sequence have all of it, and nothing twice if it had  *)
(* nothing twice.                                                          *)
LEMMA TwoEnds ==
  ASSUME NEW s \in Seq(Nat), NEW k \in 0..Len(s)
  PROVE  /\ ToSet(s) = ToSet(SubSeq(s, 1, k)) \union ToSet(Rest(k, s))
         /\ Distinct(s) => /\ ToSet(SubSeq(s, 1, k)) \intersect ToSet(Rest(k, s)) = {}
                           /\ Distinct(SubSeq(s, 1, k)) /\ Distinct(Rest(k, s))
<1> DEFINE f == SubSeq(s, 1, k)
           r == Rest(k, s)
           n == Len(s)
<1>1. k \in Nat /\ n \in Nat /\ k <= n
  BY LenProperties
<1>2. \A i \in 1..n : s[i] \in Nat
  BY ElementOfSeq
<1>3. f \in Seq(Nat) /\ Len(f) = k /\ \A i \in 1..k : f[i] = s[i]
  BY <1>1, <1>2, SubSeqProperties
<1>4. r \in Seq(Nat) /\ Len(r) = n - k /\ \A i \in 1..(n - k) : r[i] = s[k + i]
  <2>1. /\ r \in Seq(Nat) /\ Len(r) = n - k
        /\ \A i \in 1..(n - (k + 1) + 1) : r[i] = s[k + 1 + i - 1]
    BY <1>1, <1>2, SubSeqProperties DEF Rest
  <2>2. \A i \in 1..(n - k) : i \in 1..(n - (k + 1) + 1) /\ k + 1 + i - 1 = k + i
    BY <1>1
  <2> HIDE DEF r, n
  <2> QED
    BY <2>1, <2>2
<1> HIDE DEF f, r, n
<1>5. \A i \in 1..n : i \in 1..k \/ (i - k \in 1..(n - k) /\ i = k + (i - k))
  BY <1>1
<1>6. \A i \in 1..(n - k) : k + i \in 1..n /\ k + i \notin 1..k
  BY <1>1
<1>7. \A i \in 1..k : i \in 1..n
  BY <1>1
<1>8. \A x : x \in ToSet(s) <=> x \in ToSet(f) \/ x \in ToSet(r)
  <2> TAKE x
  <2>1. ASSUME x \in ToSet(s) PROVE x \in ToSet(f) \/ x \in ToSet(r)
    <3>1. PICK i \in 1..n : s[i] = x
      BY <2>1, SetOfASequence DEF n
    <3>2. CASE i \in 1..k
      BY <1>3, <3>1, <3>2, SetOfASequence
    <3>3. CASE i - k \in 1..(n - k) /\ i = k + (i - k)
      <4>1. r[i - k] = x
        BY <1>4, <3>1, <3>3
      <4> QED
        BY <1>4, <3>3, <4>1, SetOfASequence
    <3> QED
      BY <1>5, <3>2, <3>3
  <2>2. ASSUME x \in ToSet(f) PROVE x \in ToSet(s)
    <3>1. PICK i \in 1..k : f[i] = x
      BY <1>3, <2>2, SetOfASequence
    <3> QED
      BY <1>3, <1>7, <3>1, SetOfASequence DEF n
  <2>3. ASSUME x \in ToSet(r) PROVE x \in ToSet(s)
    <3>1. PICK i \in 1..(n - k) : r[i] = x
      BY <1>4, <2>3, SetOfASequence
    <3> QED
      BY <1>4, <1>6, <3>1, SetOfASequence DEF n
  <2> QED
    BY <2>1, <2>2, <2>3
<1>9. ASSUME Distinct(s)
      PROVE  ToSet(f) \intersect ToSet(r) = {} /\ Distinct(f) /\ Distinct(r)
  <2>1. \A i, j \in 1..n : s[i] = s[j] => i = j
    BY <1>9 DEF Distinct, n
  <2>2. ASSUME NEW x \in ToSet(f), x \in ToSet(r) PROVE FALSE
    <3>1. PICK i \in 1..k : f[i] = x
      BY <1>3, <2>2, SetOfASequence
    <3>2. PICK j \in 1..(n - k) : r[j] = x
      BY <1>4, <2>2, SetOfASequence
    <3>3. s[i] = s[k + j]
      BY <1>3, <1>4, <3>1, <3>2
    <3> QED
      BY <1>6, <1>7, <2>1, <3>3
  <2>3. Distinct(f)
    BY <1>3, <1>7, <2>1 DEF Distinct
  <2>4. Distinct(r)
    <3> SUFFICES ASSUME NEW i \in 1..(n - k), NEW j \in 1..(n - k), r[i] = r[j]
                 PROVE  i = j
      BY <1>4 DEF Distinct
    <3>1. s[k + i] = s[k + j]
      BY <1>4
    <3>2. k + i = k + j
      BY <1>6, <2>1, <3>1
    <3> QED
      BY <1>1, <3>2
  <2> QED
    BY <2>2, <2>3, <2>4
<1> QED
  BY <1>8, <1>9 DEF f, r

LEMMA SetOfTheRest ==
  ASSUME NEW s \in Seq(Nat), NEW k \in 0..Len(s)
  PROVE  \A x : x \in ToSet(Rest(k, s)) <=> \E i \in (k + 1)..Len(s) : s[i] = x
<1> DEFINE r == Rest(k, s)
           n == Len(s)
<1>1. k \in Nat /\ n \in Nat /\ k <= n
  BY LenProperties
<1>2. \A i \in 1..n : s[i] \in Nat
  BY ElementOfSeq
<1>3. r \in Seq(Nat) /\ Len(r) = n - k /\ \A i \in 1..(n - k) : r[i] = s[k + i]
  <2>1. /\ r \in Seq(Nat) /\ Len(r) = n - k
        /\ \A i \in 1..(n - (k + 1) + 1) : r[i] = s[k + 1 + i - 1]
    BY <1>1, <1>2, SubSeqProperties DEF Rest
  <2>2. \A i \in 1..(n - k) : i \in 1..(n - (k + 1) + 1) /\ k + 1 + i - 1 = k + i
    BY <1>1
  <2> HIDE DEF r, n
  <2> QED
    BY <2>1, <2>2
<1> HIDE DEF r, n
<1>4. \A i \in (k + 1)..n : i - k \in 1..(n - k) /\ i = k + (i - k)
  BY <1>1
<1>5. \A i \in 1..(n - k) : k + i \in (k + 1)..n
  BY <1>1
<1> SUFFICES ASSUME NEW x PROVE x \in ToSet(r) <=> \E i \in (k + 1)..n : s[i] = x
  BY DEF r, n
<1>6. ASSUME x \in ToSet(r) PROVE \E i \in (k + 1)..n : s[i] = x
  <2>1. PICK i \in 1..(n - k) : r[i] = x
    BY <1>3, <1>6, SetOfASequence
  <2> QED
    BY <1>3, <1>5, <2>1
<1>7. ASSUME NEW i \in (k + 1)..n, s[i] = x PROVE x \in ToSet(r)
  <2>1. r[i - k] = x
    BY <1>3, <1>4, <1>7
  <2> QED
    BY <1>3, <1>4, <2>1, SetOfASequence
<1> QED
  BY <1>6, <1>7

LEMMA FirstAndRest ==
  ASSUME NEW s \in Seq(Nat), NEW n \in Nat
  PROVE  /\ First(n, s) \in Seq(Nat) /\ Rest(Len(First(n, s)), s) \in Seq(Nat)
         /\ Len(First(n, s)) \in Nat /\ Len(First(n, s)) <= n
         /\ ToSet(s) = ToSet(First(n, s)) \union ToSet(Rest(Len(First(n, s)), s))
         /\ Distinct(s) =>
              /\ ToSet(First(n, s)) \intersect ToSet(Rest(Len(First(n, s)), s)) = {}
              /\ Distinct(First(n, s)) /\ Distinct(Rest(Len(First(n, s)), s))
         /\ Len(First(n, s)) # n => ToSet(Rest(Len(First(n, s)), s)) = {}
<1> DEFINE k == IF n < Len(s) THEN n ELSE Len(s)
<1>1. k \in 0..Len(s) /\ k \in Nat /\ k <= n /\ (k # n => k = Len(s))
        /\ First(n, s) = SubSeq(s, 1, k)
  BY LenProperties DEF First
<1>2. First(n, s) \in Seq(Nat) /\ Len(First(n, s)) = k
  BY FirstOfASequence
<1>3. Rest(k, s) \in Seq(Nat)
  BY <1>1, RestOfASequence
<1>4. k = Len(s) => ToSet(Rest(k, s)) = {}
  <2> SUFFICES ASSUME k = Len(s) PROVE ToSet(Rest(k, s)) = {}
    OBVIOUS
  <2>1. (k + 1)..Len(s) = {}
    BY <1>1
  <2> QED
    BY <1>1, <2>1, SetOfTheRest
<1> HIDE DEF k
<1>5. /\ ToSet(s) = ToSet(SubSeq(s, 1, k)) \union ToSet(Rest(k, s))
      /\ Distinct(s) => /\ ToSet(SubSeq(s, 1, k)) \intersect ToSet(Rest(k, s)) = {}
                        /\ Distinct(SubSeq(s, 1, k)) /\ Distinct(Rest(k, s))
  BY <1>1, TwoEnds
<1> QED
  BY <1>1, <1>2, <1>3, <1>4, <1>5

LEMMA LastIsPart ==
  ASSUME NEW s \in Seq(Nat), NEW n \in Nat
  PROVE  ToSet(LastOf(n, s)) \subseteq ToSet(s)
<1> DEFINE k == IF Len(s) > n THEN Len(s) - n ELSE 0
<1>1. k \in 0..Len(s) /\ LastOf(n, s) = Rest(k, s)
  <2>1. Len(s) \in Nat
    BY LenProperties
  <2>2. (IF Len(s) > n THEN Len(s) - n + 1 ELSE 1) = k + 1
    BY <2>1
  <2> QED
    BY <2>1, <2>2 DEF LastOf, Rest
<1> HIDE DEF k
<1> QED
  BY <1>1, TwoEnds

LEMMA LiveGrows ==
  ASSUME NEW s \in Seq(Nat), NEW t \in Seq(Nat), NEW k \in 0..Len(s)
  PROVE  ToSet(Rest(k, s \o t)) = ToSet(Rest(k, s)) \union ToSet(t)
<1> DEFINE w == s \o t
           a == Len(s)
           b == Len(t)
<1>1. /\ w \in Seq(Nat) /\ Len(w) = a + b /\ a \in Nat /\ b \in Nat /\ k \in Nat /\ k <= a
      /\ \A i \in 1..(a + b) : w[i] = IF i <= a THEN s[i] ELSE t[i - a]
  BY LenProperties, ConcatProperties
<1> HIDE DEF w, a, b
<1>2. \A i \in (k + 1)..a : i \in (k + 1)..(a + b) /\ w[i] = s[i]
  BY <1>1
<1>3. \A i \in 1..b : a + i \in (k + 1)..(a + b) /\ w[a + i] = t[i]
  <2> TAKE i \in 1..b
  <2>1. a + i \in 1..(a + b) /\ a + i \in (k + 1)..(a + b) /\ ~(a + i <= a) /\ a + i - a = i
    BY <1>1
  <2> QED
    BY <1>1, <2>1
<1>4. \A i \in (k + 1)..(a + b) : i \in (k + 1)..a \/ (i - a \in 1..b /\ w[i] = t[i - a])
  BY <1>1
<1>5. k \in 0..Len(w) /\ k \in 0..Len(s)
  BY <1>1
<1> SUFFICES ASSUME NEW x
       PROVE x \in ToSet(Rest(k, w)) <=> x \in ToSet(Rest(k, s)) \/ x \in ToSet(t)
  BY DEF w
<1>6. x \in ToSet(Rest(k, w)) <=> \E i \in (k + 1)..(a + b) : w[i] = x
  <2>1. x \in ToSet(Rest(k, w)) <=> \E i \in (k + 1)..Len(w) : w[i] = x
    BY <1>1, <1>5, SetOfTheRest
  <2> QED
    BY <1>1, <2>1
<1>7. x \in ToSet(Rest(k, s)) <=> \E i \in (k + 1)..a : s[i] = x
  BY <1>5, SetOfTheRest DEF a
<1>8. x \in ToSet(t) <=> \E i \in 1..b : t[i] = x
  BY SetOfASequence DEF b
<1> QED
  BY <1>2, <1>3, <1>4, <1>6, <1>7, <1>8

(* A recording that has just begun has only its pre-roll. *)
LEMMA NothingLiveYet ==
  ASSUME NEW s \in Seq(Nat)
  PROVE  ToSet(Rest(Len(s), s)) = {}
<1>1. Len(s) \in 0..Len(s) /\ (Len(s) + 1)..Len(s) = {}
  BY LenProperties
<1> QED
  BY <1>1, SetOfTheRest

LEMMA PreRollHas ==
  ASSUME pre_roll \in Seq(Nat), NEW s \in Seq(Nat), PreRollPush(s)
  PROVE  ToSet(pre_roll') \subseteq ToSet(pre_roll) \union ToSet(s)
<1>1. pre_roll \o s \in Seq(Nat) /\ PreRollSize \in Nat
  BY ConcatProperties, CaptureAssumption
<1>2. ToSet(LastOf(PreRollSize, pre_roll \o s)) \subseteq ToSet(pre_roll \o s)
  BY <1>1, LastIsPart
<1> QED
  BY <1>2, SetOfTwo DEF PreRollPush

-----------------------------------------------------------------------------
Notes == [asked : Nat, from : Nat, left : SUBSET Nat, to : Nat, tail : SUBSET Nat,
          lost : SUBSET Nat, got : SUBSET Nat, thrown : SUBSET Nat]

(* Where the samples are: still to be taken, in the recording in flight,   *)
(* in the part of it that came after start, and handed over or on its way. *)
Unread   == ToSet(pending) \union ToSet(ring)
Held     == IF in_flight = <<>> THEN {} ELSE ToSet(in_flight[1].samples)
HeldLive == IF in_flight = <<>> THEN {} ELSE Live(in_flight[1])
Handing  == IF reply = <<>> THEN {} ELSE ToSet(reply[1].samples)
Given    == said.got \union Handing

Located ==
  /\ Distinct(pending) /\ Distinct(ring) /\ ToSet(pending) \intersect ToSet(ring) = {}
  /\ Len(ring) <= RingCapacity
  /\ Unread \union ToSet(pre_roll) \union Held \union Given \union said.thrown \subseteq 1..clock
  /\ Unread \intersect (ToSet(pre_roll) \union Held \union Given \union said.thrown) = {}
  /\ HeldLive \subseteq Held /\ HeldLive \intersect (ToSet(pre_roll) \union Given) = {}
  /\ said.thrown \intersect (ToSet(pre_roll) \union Held \union Given) = {}

Called == {"start", "stop", "discard"}

Asked ==
  /\ caller \in Called =>
       \/ channel = caller /\ command = "none" /\ reply = <<>> /\ worker \in {"drain", "wait"}
       \/ channel = "none" /\ command = caller /\ reply = <<>> /\ worker \in {"again", "apply"}
       \/ channel = "none" /\ command = "none" /\ reply # <<>> /\ worker \in {"drain", "wait"}
  /\ caller = "idle" =>
       channel = "none" /\ command = "none" /\ reply = <<>> /\ worker \in {"drain", "wait"}
  /\ caller \notin Called \union {"idle"} =>
       channel \notin Called /\ command \notin Called /\ reply = <<>>

Timed ==
  /\ said.asked <= clock /\ said.from <= clock /\ said.to <= clock
  /\ worker = "apply" /\ command = "start" => \A s \in ToSet(ring) : s > said.asked
  /\ worker = "apply" /\ command = "stop" => \A s \in ToSet(ring) : s > said.to

Begun ==
  /\ in_flight # <<>> /\ ~(caller = "start" /\ reply = <<>>) =>
       \A s \in HeldLive \union Unread : s > said.asked \/ s \in said.left
  /\ in_flight # <<>> /\ caller # "start" /\ in_flight[1].live =>
       ((said.from + 1)..clock) \ said.lost \subseteq HeldLive \union Unread

Handled ==
  Handed /\ reply[1].samples # <<>> =>
    LET live == Live(reply[1]) IN
    /\ \A s \in live : s > said.asked \/ s \in said.left
    /\ reply[1].cap_hit \/ ((said.from + 1)..said.to) \ said.lost \subseteq live \union said.tail

Tracked ==
  /\ in_flight # <<>> => Follows(tracker, in_flight[1].samples, loud)
  /\ reply # <<>> => reply[1].speech = SpeechOf(reply[1].samples)

FaithInv ==
  CapInv /\ said \in Notes /\ Located /\ Asked /\ Timed /\ Begun /\ Handled /\ Tracked

-----------------------------------------------------------------------------
(* What the detector finds depends on nothing but the samples and which of *)
(* them are loud.                                                          *)
Detected(samples, X) ==
  LET LoudFrame(i) == \E k \in 1..Len(SubSeq(samples, (i - 1) * FrameLen + 1, i * FrameLen)) :
                        SubSeq(samples, (i - 1) * FrameLen + 1, i * FrameLen)[k] \in X
      Heard(i) == \E j \in AttackFrames..i :
                    /\ \A k \in (j - AttackFrames + 1)..j : LoudFrame(k)
                    /\ Cardinality({k \in (j + 1)..i : ~LoudFrame(k)}) <= HangoverFrames
  IN {i \in 1..(Len(samples) \div FrameLen) : Heard(i)}

LEMMA SpeechIsDetected == \A s : SpeechOf(s) = Detected(s, loud)
BY DEF SpeechOf, Loud, Detected

LEMMA SpeechStays ==
  ASSUME loud' = loud, reply' = reply, Tracked
  PROVE  reply' # <<>> => (reply[1].speech = SpeechOf(reply[1].samples))'
<1>1. SpeechOf(reply[1].samples) = Detected(reply[1].samples, loud)
  BY SpeechIsDetected
<1>2. (SpeechOf(reply[1].samples) = Detected(reply[1].samples, loud))'
  BY DEF SpeechOf, Loud, Detected
<1> QED
  BY <1>1, <1>2 DEF Tracked

LEMMA FlightIs ==
  ASSUME CapInv, in_flight # <<>>
  PROVE  \E f \in Flight : in_flight = <<f>> /\ in_flight[1] = f /\ Clean(f, cap)
BY DEF CapInv

LEMMA OtherwiseStaysFaithful ==
  ASSUME FaithInv, UNCHANGED <<clock, loud, ring, pending, pre_roll, in_flight,
         tracker, reply, said>>,
         Asked', CapInv',
         worker' = "apply" => worker = "apply" /\ command' = command,
         caller' = "start" <=> caller = "start", caller' = "stop" <=> caller = "stop"
  PROVE  FaithInv'
<1>1. Located' /\ said' \in Notes
  BY DEF FaithInv, Located, Unread, Held, HeldLive, Handing, Given, Live, Distinct
<1>2. Timed'
  BY DEF FaithInv, Timed
<1>3. Begun'
  BY DEF FaithInv, Begun, Unread, HeldLive, Live
<1>4. Handled'
  BY DEF FaithInv, Handled, Handed, Live
<1>5. Tracked'
  BY SpeechStays DEF FaithInv, Tracked
<1> QED
  BY <1>1, <1>2, <1>3, <1>4, <1>5 DEF FaithInv

LEMMA QuietStepsStayFaithful ==
  ASSUME FaithInv, CapInv', Drop \/ Joined \/ ReadLevel \/ Receive \/ TimesOut \/ Shutdown
  PROVE  FaithInv'
<1>1. CASE Drop
  BY <1>1, OtherwiseStaysFaithful DEF Drop, FaithInv, Asked, Called, audio, pipeline
<1>2. CASE Joined
  BY <1>2, OtherwiseStaysFaithful DEF Joined, FaithInv, Asked, Called, audio, pipeline
<1>3. CASE ReadLevel
  BY <1>3, OtherwiseStaysFaithful DEF ReadLevel, FaithInv, Asked, Called, audio, threads
<1>4. CASE Receive
  <2>1. Asked'
    BY <1>4 DEF Receive, FaithInv, Asked, Called
  <2> QED
    BY <1>4, <2>1, OtherwiseStaysFaithful DEF Receive, audio, pipeline
<1>5. CASE TimesOut
  BY <1>5, OtherwiseStaysFaithful DEF TimesOut, FaithInv, Asked, Called, audio, pipeline
<1>6. CASE Shutdown
  <2>1. Asked'
    BY <1>6 DEF Shutdown, FaithInv, Asked, Called
  <2> QED
    BY <1>6, <2>1, OtherwiseStaysFaithful DEF Shutdown, audio, pipeline
<1> QED
  BY <1>1, <1>2, <1>3, <1>4, <1>5, <1>6

(* The caller asks.                                                        *)
LEMMA CallsStayFaithful ==
  ASSUME FaithInv, CapInv', NEW what \in Called, Call(what)
  PROVE  FaithInv'
<1>1. /\ caller = "idle" /\ caller' = what /\ channel' = what
      /\ UNCHANGED <<clock, loud, ring, pending, pre_roll, in_flight,
                tracker, worker, command, reply>>
      /\ said' = IF what = "start" THEN [said EXCEPT !.asked = clock]
                ELSE [said EXCEPT !.to = clock]
  BY DEF Call, audio, pipeline
<1>2. /\ said \in Notes /\ clock \in Nat
      /\ worker \in {"drain", "wait"} /\ reply = <<>> /\ command = "none"
  BY <1>1 DEF FaithInv, Asked, CapInv, Streams
<1>3. /\ said' \in Notes
      /\ UNCHANGED <<said.from, said.left, said.tail, said.lost, said.got, said.thrown>>
      /\ said'.asked = (IF what = "start" THEN clock ELSE said.asked)
      /\ said'.to = (IF what = "start" THEN said.to ELSE clock)
  BY <1>1, <1>2 DEF Notes
<1>4. Located'
  BY <1>1, <1>3 DEF FaithInv, Located, Unread, Held, HeldLive, Handing, Given, Live, Distinct
<1>5. Asked'
  BY <1>1, <1>2 DEF Asked, Called
<1>6. Timed'
  <2>1. said.asked \in Nat /\ said.to \in Nat /\ said.from \in Nat
    BY <1>2 DEF Notes
  <2> QED
    BY <1>1, <1>2, <1>3, <2>1 DEF FaithInv, Timed
<1>7. Begun'
  <2>1. ~(caller = "start" /\ reply = <<>>) /\ caller # "start"
    BY <1>1
  <2>2. what # "start" => said'.asked = said.asked
    BY <1>3
  <2>3. HeldLive' = HeldLive /\ Unread' = Unread
    BY <1>1 DEF HeldLive, Unread, Live
  <2> QED
    BY <1>1, <1>2, <1>3, <2>1, <2>2, <2>3 DEF FaithInv, Begun
<1>8. Handled'
  BY <1>1, <1>2 DEF Handled, Handed
<1>9. Tracked'
  BY <1>1, SpeechStays DEF FaithInv, Tracked
<1> QED
  BY <1>3, <1>4, <1>5, <1>6, <1>7, <1>8, <1>9 DEF FaithInv

(* The answer comes back.                                                  *)
LEMMA ReturnsStayFaithful ==
  ASSUME FaithInv, CapInv', Return
  PROVE  FaithInv'
<1>1. /\ reply # <<>> /\ reply' = <<>> /\ caller' = "idle"
      /\ UNCHANGED <<clock, loud, ring, pending, pre_roll, in_flight,
                tracker, worker, command, channel>>
      /\ said' = (IF caller = "start" THEN [said EXCEPT !.from = clock]
                  ELSE IF caller = "stop"
                  THEN [said EXCEPT !.got = @ \union ToSet(reply[1].samples)]
                  ELSE said)
  BY DEF Return, audio, pipeline
<1>2. /\ said \in Notes /\ clock \in Nat
      /\ caller \in Called /\ worker \in {"drain", "wait"} /\ channel = "none" /\ command = "none"
  BY <1>1 DEF FaithInv, Asked, CapInv, Streams, Called
<1>3. Handing = ToSet(reply[1].samples) /\ Handing \subseteq 1..clock /\ Handing' = {}
  BY <1>1 DEF Handing, FaithInv, Located, Given
<1>4. /\ said' \in Notes
      /\ UNCHANGED <<said.asked, said.left, said.to, said.tail, said.lost, said.thrown>>
      /\ said'.from = (IF caller = "start" THEN clock ELSE said.from)
      /\ said'.got = (IF caller = "stop" THEN said.got \union Handing ELSE said.got)
  <2> HIDE DEF Handing
  <2>1. CASE caller = "start"
    BY <1>1, <1>2, <2>1 DEF Notes
  <2>2. CASE caller = "stop"
    BY <1>1, <1>2, <1>3, <2>2 DEF Notes
  <2>3. CASE caller # "start" /\ caller # "stop"
    BY <1>1, <1>2, <2>3 DEF Notes
  <2> QED
    BY <2>1, <2>2, <2>3
<1>5. Given' \subseteq Given
  BY <1>3, <1>4 DEF Given
<1>6. UNCHANGED <<Unread, Held, HeldLive>>
  BY <1>1 DEF Unread, Held, HeldLive, Live
<1>7. Located'
  BY <1>1, <1>4, <1>5, <1>6 DEF FaithInv, Located, Distinct
<1>8. Asked'
  BY <1>1, <1>2 DEF Asked, Called
<1>9. Timed'
  <2>1. said.asked \in Nat /\ said.to \in Nat /\ said.from \in Nat
    BY <1>2 DEF Notes
  <2> QED
    BY <1>1, <1>2, <1>4, <2>1 DEF FaithInv, Timed
<1>10. Begun'
  <2>1. (clock + 1)..clock = {}
    BY <1>2
  <2>2. said.from \in Nat
    BY <1>2 DEF Notes
  <2>3. ~(caller = "start" /\ reply = <<>>)
    BY <1>1
  <2>4. CASE caller = "start"
    BY <1>1, <1>2, <1>4, <1>6, <2>1, <2>3, <2>4 DEF FaithInv, Begun
  <2>5. CASE caller # "start"
    BY <1>1, <1>2, <1>4, <1>6, <2>3, <2>5 DEF FaithInv, Begun
  <2> QED
    BY <2>4, <2>5
<1>11. Handled' /\ Tracked'
  BY <1>1 DEF Handled, Handed, FaithInv, Tracked
<1> QED
  BY <1>4, <1>7, <1>8, <1>9, <1>10, <1>11 DEF FaithInv

(* The audio callback's block: what fits and what is lost.                 *)
LEMMA PushesStayFaithful ==
  ASSUME FaithInv, CapInv', NEW n \in Blocks, Push(n)
  PROVE  FaithInv'
<1> DEFINE block == [i \in 1..n |-> clock + i]
           room  == RingCapacity - Len(ring)
           fits  == First(room, block)
           left  == Rest(Len(fits), block)
           new   == (clock + 1)..(clock + n)
<1>1. /\ n \in Nat /\ clock \in Nat /\ Len(ring) \in Nat /\ room \in Nat
      /\ ring \in Seq(Nat) /\ pending \in Seq(Nat) /\ said \in Notes
  <2>1. /\ n \in Nat /\ clock \in Nat /\ ring \in Seq(Nat) /\ pending \in Seq(Nat) /\ said \in Notes
        /\ Len(ring) <= RingCapacity /\ RingCapacity \in Nat
    BY CaptureAssumption DEF FaithInv, CapInv, Streams, Located
  <2> QED
    BY <2>1, LenProperties
<1>2. /\ ring' = ring \o fits /\ clock' = clock + n
      /\ said' = [said EXCEPT !.lost = @ \union ToSet(left)]
      /\ UNCHANGED <<loud, pending, pre_roll, in_flight,
                tracker, worker, command, channel, reply, caller>>
  BY DEF Push, pipeline, threads
<1>3. block \in Seq(Nat) /\ Len(block) = n /\ \A i \in 1..n : block[i] = clock + i
  BY <1>1
<1>4. Distinct(block) /\ ToSet(block) = new
  <2> HIDE DEF block
  <2>1. Distinct(block)
    BY <1>1, <1>3 DEF Distinct
  <2>2. \A x : x \in ToSet(block) <=> \E i \in 1..n : clock + i = x
    BY <1>3, SetOfASequence
  <2>3. \A x \in new : x - clock \in 1..n /\ clock + (x - clock) = x
    BY <1>1
  <2>4. \A i \in 1..n : clock + i \in new
    BY <1>1
  <2> QED
    BY <2>1, <2>2, <2>3, <2>4
<1> HIDE DEF block, room, fits, left
<1>5. /\ fits \in Seq(Nat) /\ Len(fits) \in Nat /\ Len(fits) <= room
      /\ new = ToSet(fits) \union ToSet(left) /\ Distinct(fits)
  BY <1>1, <1>3, <1>4, FirstAndRest DEF fits, left
<1>6. /\ \A x \in new : x \notin 1..clock /\ x \in 1..clock' /\ x > clock
      /\ 1..clock \subseteq 1..clock'
      /\ \A x \in 1..clock' : x \in 1..clock \/ x \in new
  BY <1>1, <1>2
<1>7. /\ said' \in Notes /\ said'.lost = said.lost \union ToSet(left)
      /\ UNCHANGED <<said.asked, said.from, said.left, said.to, said.tail, said.got, said.thrown>>
  <2>1. ToSet(left) \subseteq Nat
    BY <1>1, <1>5
  <2> QED
    BY <1>1, <1>2, <2>1 DEF Notes
<1> HIDE DEF new
<1>8. ToSet(ring') = ToSet(ring) \union ToSet(fits) /\ Unread' = Unread \union ToSet(fits)
  BY <1>1, <1>2, <1>5, SetOfTwo DEF Unread
<1>9. UNCHANGED <<Held, HeldLive, Handing, Given, ToSet(pre_roll)>>
  BY <1>2, <1>7 DEF Held, HeldLive, Handing, Given, Live
<1>10. Located'
  <2>1. Distinct(ring') /\ Distinct(pending') /\ ToSet(pending') \intersect ToSet(ring') = {}
    <3>1. Distinct(ring) /\ ToSet(ring) \subseteq 1..clock /\ ToSet(pending) \subseteq 1..clock
          /\ Distinct(pending) /\ ToSet(pending) \intersect ToSet(ring) = {}
      BY DEF FaithInv, Located, Unread
    <3>2. ToSet(ring) \intersect ToSet(fits) = {} /\ ToSet(pending) \intersect ToSet(fits) = {}
      BY <1>5, <1>6, <3>1
    <3>3. Distinct(ring')
      BY <1>1, <1>2, <1>5, <3>1, <3>2, SetOfTwo
    <3> QED
      BY <1>2, <1>8, <3>1, <3>2, <3>3 DEF Distinct
  <2>2. Len(ring') <= RingCapacity
    <3>1. Len(ring') = Len(ring) + Len(fits) /\ RingCapacity \in Nat
      BY <1>1, <1>2, <1>5, ConcatProperties, CaptureAssumption
    <3> QED
      BY <1>1, <1>5, <3>1 DEF room
  <2>3. /\ Unread \union ToSet(pre_roll) \union Held \union Given \union said.thrown
                  \subseteq 1..clock
        /\ Unread \intersect (ToSet(pre_roll) \union Held \union Given \union said.thrown) = {}
        /\ HeldLive \subseteq Held /\ HeldLive \intersect (ToSet(pre_roll) \union Given) = {}
        /\ said.thrown \intersect (ToSet(pre_roll) \union Held \union Given) = {}
    BY DEF FaithInv, Located
  <2>4. Unread' \union ToSet(pre_roll)' \union Held' \union Given' \union said'.thrown
               \subseteq 1..clock'
    BY <1>5, <1>6, <1>7, <1>8, <1>9, <2>3
  <2>5. Unread' \intersect (ToSet(pre_roll)' \union Held' \union Given' \union said'.thrown) = {}
    BY <1>5, <1>6, <1>7, <1>8, <1>9, <2>3
  <2>6. /\ HeldLive' \subseteq Held' /\ HeldLive' \intersect (ToSet(pre_roll)' \union Given') = {}
        /\ said'.thrown \intersect (ToSet(pre_roll)' \union Held' \union Given') = {}
    BY <1>7, <1>9, <2>3
  <2> QED
    BY <2>1, <2>2, <2>4, <2>5, <2>6 DEF Located
<1>11. Asked'
  BY <1>2 DEF FaithInv, Asked
<1>12. \A x \in ToSet(fits) : x \in Nat /\ x > clock
  BY <1>5, <1>6, SetOfASequence
<1>13. Timed'
  <2>1. said.asked \in Nat /\ said.to \in Nat /\ said.from \in Nat
    BY <1>1 DEF Notes
  <2>2. said.asked <= clock /\ said.from <= clock /\ said.to <= clock
    BY DEF FaithInv, Timed
  <2>3. \A x \in ToSet(fits) : x > said.asked /\ x > said.to
    BY <1>1, <1>12, <2>1, <2>2
  <2>4. said'.asked <= clock' /\ said'.from <= clock' /\ said'.to <= clock'
    BY <1>1, <1>2, <1>7, <2>1, <2>2
  <2> QED
    BY <1>2, <1>7, <1>8, <2>3, <2>4 DEF FaithInv, Timed
<1>14. Begun'
  <2>1. said.asked \in Nat /\ said.from \in Nat /\ said.asked <= clock /\ said.from <= clock
    BY <1>1 DEF Notes, FaithInv, Timed
  <2>2. \A x \in ToSet(fits) : x > said.asked
    BY <1>1, <1>12, <2>1
  <2>3. \A x \in (said.from + 1)..clock' : x \in (said.from + 1)..clock \/ x \in new
    BY <1>1, <1>2, <2>1 DEF new
  <2>4. (((said.from + 1)..clock) \ said.lost \subseteq HeldLive \union Unread)
          => ((said.from + 1)..clock') \ said'.lost \subseteq HeldLive' \union Unread'
    BY <1>5, <1>7, <1>8, <1>9, <2>3
  <2> QED
    BY <1>2, <1>7, <1>8, <1>9, <2>2, <2>4 DEF FaithInv, Begun
<1>15. Handled'
  BY <1>2, <1>7 DEF FaithInv, Handled, Handed, Live
<1>16. Tracked'
  BY <1>2, SpeechStays DEF FaithInv, Tracked
<1> QED
  BY <1>7, <1>10, <1>11, <1>13, <1>14, <1>15, <1>16 DEF FaithInv

LEMMA NothingIsSilent == \A X : Detected(<<>>, X) = {}
<1>1. FrameLen \in Nat /\ FrameLen >= 1
  BY CaptureAssumption
<1>2. 0 \div FrameLen = 0
  BY <1>1
<1>3. 1..(Len(<<>>) \div FrameLen) = {}
  BY <1>2
<1> QED
  BY <1>3 DEF Detected

(* start: the pre-roll goes in front, and what follows is newer than the   *)
(* call or was left in the converter.                                      *)
LEMMA StartStaysFaithful ==
  ASSUME FaithInv, CapInv', ApplyStart
  PROVE  FaithInv'
<1> DEFINE f == [samples |-> pre_roll, before |-> Len(pre_roll), live |-> TRUE, cap_hit |-> FALSE]
<1>1. /\ worker = "apply" /\ command = "start" /\ worker' = "drain" /\ command' = "none"
      /\ in_flight' = <<f>> /\ tracker' = Track(Silent, pre_roll) /\ reply' = <<Nothing>>
      /\ said' = [said EXCEPT !.left = ToSet(pending)]
      /\ UNCHANGED <<clock, loud, ring, pending, pre_roll, channel, caller>>
  BY DEF ApplyStart, Start, Answers, audio
<1>2. /\ said \in Notes /\ caller = "start" /\ channel = "none" /\ reply = <<>>
      /\ pending \in Seq(Nat) /\ pre_roll \in Seq(Nat)
  BY <1>1 DEF FaithInv, Asked, CapInv, Streams, Called
<1>3. /\ said' \in Notes /\ said'.left = ToSet(pending)
      /\ UNCHANGED <<said.asked, said.from, said.to, said.tail, said.lost, said.got, said.thrown>>
  <2>1. ToSet(pending) \in SUBSET Nat
    BY <1>2, SetOfASequence
  <2> QED
    BY <1>1, <1>2, <2>1 DEF Notes
<1>4. Held' = ToSet(pre_roll) /\ HeldLive' = {} /\ Unread' = Unread /\ Given' \subseteq Given
  <2>1. Held' = ToSet(pre_roll)
    BY <1>1 DEF Held
  <2>2. HeldLive' = {}
    BY <1>1, <1>2, NothingLiveYet DEF HeldLive, Live
  <2>3. Handing' = {}
    BY <1>1, NothingInTheEmpty DEF Handing, Nothing
  <2> QED
    BY <1>1, <1>3, <2>1, <2>2, <2>3 DEF Unread, Given
<1>5. Located'
  <2>1. /\ Unread \union ToSet(pre_roll) \union Held \union Given \union said.thrown
                  \subseteq 1..clock
        /\ Unread \intersect (ToSet(pre_roll) \union Held \union Given \union said.thrown) = {}
        /\ said.thrown \intersect (ToSet(pre_roll) \union Held \union Given) = {}
    BY DEF FaithInv, Located
  <2>2. ToSet(pre_roll') = ToSet(pre_roll) /\ clock' = clock
    BY <1>1
  <2>3. /\ Unread' \union ToSet(pre_roll)' \union Held' \union Given' \union said'.thrown
                  \subseteq 1..clock'
        /\ Unread' \intersect (ToSet(pre_roll)' \union Held' \union Given' \union said'.thrown) = {}
        /\ HeldLive' \subseteq Held' /\ HeldLive' \intersect (ToSet(pre_roll)' \union Given') = {}
        /\ said'.thrown \intersect (ToSet(pre_roll)' \union Held' \union Given') = {}
    BY <1>3, <1>4, <2>1, <2>2
  <2> QED
    BY <1>1, <2>3 DEF FaithInv, Located, Distinct
<1>6. Asked'
  BY <1>1, <1>2 DEF Asked, Called
<1>7. Timed'
  BY <1>1, <1>3 DEF FaithInv, Timed
<1>8. Begun'
  <2>1. \A s \in Unread : s > said.asked \/ s \in ToSet(pending)
    BY <1>1 DEF FaithInv, Timed, Unread
  <2> QED
    BY <1>1, <1>2, <1>3, <1>4, <2>1 DEF Begun
<1>9. Handled'
  BY <1>1, <1>2 DEF Handled, Handed
<1>10. Tracked'
  <2>1. Follows(Track(Silent, pre_roll), <<>> \o pre_roll, loud)
    BY <1>2, NothingHeard, TrackGoesOn, EmptySeq
  <2>2. Follows(Track(Silent, pre_roll), pre_roll, loud)
    BY <1>2, <2>1, ConcatEmptySeq
  <2>3. Follows(tracker', in_flight'[1].samples, loud')
    BY <1>1, <2>2
  <2>4. (SpeechOf(reply[1].samples) = Detected(reply[1].samples, loud))'
    BY DEF SpeechOf, Loud, Detected
  <2>5. reply'[1].samples = <<>> /\ reply'[1].speech = {}
    BY <1>1 DEF Nothing
  <2> QED
    BY <2>3, <2>4, <2>5, NothingIsSilent DEF Tracked
<1> QED
  BY <1>3, <1>5, <1>6, <1>7, <1>8, <1>9, <1>10 DEF FaithInv

(* stop: what was live goes to the caller, and what is still in the ring   *)
(* is newer than the call.                                                 *)
LEMMA StopStaysFaithful ==
  ASSUME FaithInv, CapInv', ApplyStop
  PROVE  FaithInv'
<1>1. /\ worker = "apply" /\ command = "stop" /\ worker' = "drain" /\ command' = "none"
      /\ in_flight' = <<>> /\ reply' = <<Taken>>
      /\ said' = [said EXCEPT !.tail = ToSet(pending)]
      /\ UNCHANGED <<clock, loud, ring, pending, pre_roll, tracker, channel, caller>>
  BY DEF ApplyStop, LetGo, Answers, audio
<1>2. /\ said \in Notes /\ caller = "stop" /\ channel = "none" /\ reply = <<>>
      /\ pending \in Seq(Nat) /\ clock \in Nat
  BY <1>1 DEF FaithInv, Asked, CapInv, Streams, Called
<1>3. /\ said' \in Notes /\ said'.tail = ToSet(pending)
      /\ UNCHANGED <<said.asked, said.from, said.left, said.to, said.lost, said.got, said.thrown>>
  <2>1. ToSet(pending) \in SUBSET Nat
    BY <1>2, SetOfASequence
  <2> QED
    BY <1>1, <1>2, <2>1 DEF Notes
<1>4. Taken.samples = (IF in_flight = <<>> THEN <<>> ELSE in_flight[1].samples)
  BY DEF Taken, Nothing
<1>5. Held' = {} /\ HeldLive' = {} /\ Unread' = Unread /\ Given' = said.got \union Held
  <2>1. Handing' = Held
    BY <1>1, <1>4, NothingInTheEmpty DEF Handing, Held
  <2> QED
    BY <1>1, <1>3, <2>1 DEF Unread, Given, Held, HeldLive
<1>6. Located'
  <2>1. /\ Unread \union ToSet(pre_roll) \union Held \union Given \union said.thrown
                  \subseteq 1..clock
        /\ Unread \intersect (ToSet(pre_roll) \union Held \union Given \union said.thrown) = {}
        /\ said.thrown \intersect (ToSet(pre_roll) \union Held \union Given) = {}
        /\ said.got \subseteq Given
    BY DEF FaithInv, Located, Given
  <2>2. ToSet(pre_roll') = ToSet(pre_roll) /\ clock' = clock
    BY <1>1
  <2>3. /\ Unread' \union ToSet(pre_roll)' \union Held' \union Given' \union said'.thrown
                  \subseteq 1..clock'
        /\ Unread' \intersect (ToSet(pre_roll)' \union Held' \union Given' \union said'.thrown) = {}
        /\ HeldLive' \subseteq Held' /\ HeldLive' \intersect (ToSet(pre_roll)' \union Given') = {}
        /\ said'.thrown \intersect (ToSet(pre_roll)' \union Held' \union Given') = {}
    BY <1>3, <1>5, <2>1, <2>2
  <2> QED
    BY <1>1, <2>3 DEF FaithInv, Located, Distinct
<1>7. Asked'
  BY <1>1, <1>2 DEF Asked, Called
<1>8. Timed'
  BY <1>1, <1>3 DEF FaithInv, Timed
<1>9. Begun'
  BY <1>1 DEF Begun
<1>10. Handled'
  <2>1. CASE in_flight = <<>>
    <3>1. Taken.samples = <<>>
      BY <1>4, <2>1
    <3> QED
      BY <1>1, <3>1 DEF Handled, Handed
  <2>2. CASE in_flight # <<>>
    <3>1. PICK f \in Flight : in_flight = <<f>> /\ in_flight[1] = f /\ Clean(f, cap)
      BY <2>2, FlightIs DEF FaithInv
    <3>2. /\ Taken.samples = f.samples /\ Taken.before = f.before /\ Taken.cap_hit = f.cap_hit
      BY <2>2, <3>1 DEF Taken
    <3>3. Live(reply[1])' = HeldLive /\ HeldLive = Live(f) /\ Live(Taken) = Live(f)
      BY <1>1, <2>2, <3>1, <3>2 DEF Live, HeldLive
    <3>4. \A s \in HeldLive : s > said.asked \/ s \in said.left
      BY <1>2, <2>2 DEF FaithInv, Begun
    <3>5. f.cap_hit \/ ((said.from + 1)..clock) \ said.lost \subseteq HeldLive \union Unread
      <4>1. f.live <=> ~f.cap_hit
        BY <3>1 DEF Clean
      <4>2. f.live => ((said.from + 1)..clock) \ said.lost \subseteq HeldLive \union Unread
        BY <1>2, <2>2, <3>1 DEF FaithInv, Begun
      <4> QED
        BY <4>1, <4>2, Zenon
    <3>6. \A x \in (said.from + 1)..said.to : x \in (said.from + 1)..clock /\ ~(x > said.to)
      <4>1. said.from \in Nat /\ said.to \in Nat /\ said.to <= clock
        BY <1>2 DEF Notes, FaithInv, Timed
      <4> QED
        BY <1>2, <4>1
    <3>7. \A x \in ToSet(ring) : x > said.to
      BY <1>1 DEF FaithInv, Timed
    <3>8. f.cap_hit \/ ((said.from + 1)..said.to) \ said.lost
                 \subseteq HeldLive \union ToSet(pending)
      <4>1. ASSUME ((said.from + 1)..clock) \ said.lost \subseteq HeldLive \union Unread,
                   NEW x \in ((said.from + 1)..said.to) \ said.lost
            PROVE  x \in HeldLive \union ToSet(pending)
        <5>1. x \in HeldLive \union Unread /\ x \notin ToSet(ring)
          BY <3>6, <3>7, <4>1
        <5> QED
          BY <5>1 DEF Unread
      <4> QED
        BY <3>5, <4>1
    <3>9. reply'[1].cap_hit = f.cap_hit
      BY <1>1, <3>2
    <3> QED
      BY <1>3, <3>3, <3>4, <3>8, <3>9 DEF Handled
  <2> QED
    BY <2>1, <2>2
<1>11. Tracked'
  <2>1. (SpeechOf(reply[1].samples) = Detected(reply[1].samples, loud))'
    BY DEF SpeechOf, Loud, Detected
  <2>2. reply'[1] = Taken /\ loud' = loud
    BY <1>1
  <2>3. Taken.speech = Detected(Taken.samples, loud)
    <3>1. CASE in_flight = <<>>
      BY <3>1, NothingIsSilent DEF Taken, Nothing
    <3>2. CASE in_flight # <<>>
      <4>1. PICK f \in Flight : in_flight = <<f>> /\ in_flight[1] = f
        BY <3>2, FlightIs DEF FaithInv
      <4>2. f.samples \in Seq(Nat) /\ Follows(tracker, f.samples, loud)
        BY <3>2, <4>1 DEF FaithInv, Tracked, Flight
      <4>3. tracker.speech = Detected(f.samples, loud)
        BY <4>2, TrackerIsRight, SpeechIsDetected
      <4>4. Taken.samples = f.samples
            /\ Taken.speech = IF f.samples = <<>> THEN {} ELSE tracker.speech
        BY <3>2, <4>1 DEF Taken
      <4> QED
        BY <4>3, <4>4, NothingIsSilent
    <3> QED
      BY <3>1, <3>2
  <2> QED
    BY <1>1, <2>1, <2>2, <2>3 DEF Tracked
<1> QED
  BY <1>3, <1>6, <1>7, <1>8, <1>9, <1>10, <1>11 DEF FaithInv

(* discard: what was live is thrown away.                                  *)
LEMMA DiscardStaysFaithful ==
  ASSUME FaithInv, CapInv', ApplyDiscard
  PROVE  FaithInv'
<1>1. /\ worker = "apply" /\ command = "discard" /\ worker' = "drain" /\ command' = "none"
      /\ in_flight' = <<>> /\ reply' = <<Nothing>>
      /\ said' = (IF in_flight = <<>> THEN said
                  ELSE [said EXCEPT !.thrown = @ \union Live(in_flight[1])])
      /\ UNCHANGED <<clock, loud, ring, pending, pre_roll, tracker, channel, caller>>
  BY DEF ApplyDiscard, LetGo, Answers, audio
<1>2. /\ said \in Notes /\ caller = "discard" /\ channel = "none" /\ reply = <<>>
  BY <1>1 DEF FaithInv, Asked, Called
<1>3. /\ Unread \union ToSet(pre_roll) \union Held \union Given \union said.thrown
                \subseteq 1..clock
      /\ Unread \intersect (ToSet(pre_roll) \union Held \union Given \union said.thrown) = {}
      /\ HeldLive \subseteq Held /\ HeldLive \intersect (ToSet(pre_roll) \union Given) = {}
      /\ said.thrown \intersect (ToSet(pre_roll) \union Held \union Given) = {}
  BY DEF FaithInv, Located
<1>4. /\ said' \in Notes /\ said'.thrown = said.thrown \union HeldLive
      /\ UNCHANGED <<said.asked, said.from, said.left, said.to, said.lost, said.got, said.tail>>
  <2>1. HeldLive \in SUBSET Nat
    BY <1>3
  <2>2. CASE in_flight = <<>>
    BY <1>1, <1>2, <2>2 DEF HeldLive
  <2>3. CASE in_flight # <<>>
    <3>1. HeldLive = Live(in_flight[1])
      BY <2>3 DEF HeldLive
    <3> QED
      BY <1>1, <1>2, <2>1, <2>3, <3>1 DEF Notes
  <2> QED
    BY <2>2, <2>3
<1>5. Held' = {} /\ HeldLive' = {} /\ Unread' = Unread /\ Given' \subseteq Given
  <2>1. Handing' = {}
    BY <1>1, NothingInTheEmpty DEF Handing, Nothing
  <2> QED
    BY <1>1, <1>4, <2>1 DEF Unread, Given, Held, HeldLive
<1>6. Located'
  <2>1. ToSet(pre_roll') = ToSet(pre_roll) /\ clock' = clock
    BY <1>1
  <2>2. /\ Unread' \union ToSet(pre_roll)' \union Held' \union Given' \union said'.thrown
                  \subseteq 1..clock'
        /\ Unread' \intersect (ToSet(pre_roll)' \union Held' \union Given' \union said'.thrown) = {}
        /\ HeldLive' \subseteq Held' /\ HeldLive' \intersect (ToSet(pre_roll)' \union Given') = {}
        /\ said'.thrown \intersect (ToSet(pre_roll)' \union Held' \union Given') = {}
    BY <1>3, <1>4, <1>5, <2>1
  <2> QED
    BY <1>1, <2>2 DEF FaithInv, Located, Distinct
<1>7. Asked'
  BY <1>1, <1>2 DEF Asked, Called
<1>8. Timed'
  BY <1>1, <1>4 DEF FaithInv, Timed
<1>9. Begun' /\ Handled'
  BY <1>1, <1>2 DEF Begun, Handled, Handed
<1>10. Tracked'
  <2>1. (SpeechOf(reply[1].samples) = Detected(reply[1].samples, loud))'
    BY DEF SpeechOf, Loud, Detected
  <2>2. reply'[1].samples = <<>> /\ reply'[1].speech = {}
    BY <1>1 DEF Nothing
  <2> QED
    BY <1>1, <2>1, <2>2, NothingIsSilent DEF Tracked
<1> QED
  BY <1>4, <1>6, <1>7, <1>8, <1>9, <1>10 DEF FaithInv

(* What a drain has to show, whichever way the samples go: rest is what    *)
(* stays in the converter, mine what goes into the recording and over what *)
(* goes by it.                                                             *)
LEMMA DrainedSets ==
  ASSUME FaithInv, CapInv', Drain, NEW mine, NEW over,
         mine \union over \union ToSet(pending') = Unread,
         mine \intersect over = {}, mine \intersect ToSet(pending') = {},
                over \intersect ToSet(pending') = {},
         Distinct(pending'),
         Held' = Held \union mine, HeldLive' = HeldLive \union mine,
         ToSet(pre_roll') \subseteq ToSet(pre_roll) \union over,
         Tracked',
         in_flight' # <<>> <=> in_flight # <<>>,
         in_flight # <<>> /\ in_flight'[1].live => in_flight[1].live /\ over \intersect mine = {}
                                                   /\ Unread \subseteq mine \union ToSet(pending')
  PROVE  FaithInv'
<1>1. /\ ring' = <<>> /\ worker \in {"drain", "again"}
      /\ worker' = (IF worker = "drain" THEN "wait" ELSE "apply")
      /\ UNCHANGED <<clock, loud, command, channel, reply, caller, said>>
  BY DEF Drain
<1>2. ToSet(ring') = {} /\ Distinct(ring') /\ Len(ring') <= RingCapacity
  <2>1. RingCapacity \in Nat /\ Len(<<>>) = 0
    BY CaptureAssumption
  <2> QED
    BY <1>1, <2>1, NothingInTheEmpty
<1>3. Unread' = ToSet(pending') /\ Given' = Given
  BY <1>1, <1>2 DEF Unread, Given, Handing
<1>4. Located'
  <2>1. /\ Unread \union ToSet(pre_roll) \union Held \union Given \union said.thrown
                  \subseteq 1..clock
        /\ Unread \intersect (ToSet(pre_roll) \union Held \union Given \union said.thrown) = {}
        /\ HeldLive \subseteq Held /\ HeldLive \intersect (ToSet(pre_roll) \union Given) = {}
        /\ said.thrown \intersect (ToSet(pre_roll) \union Held \union Given) = {}
    BY DEF FaithInv, Located
  <2>2. said'.thrown = said.thrown /\ clock' = clock
    BY <1>1
  <2>3. Unread' \union ToSet(pre_roll)' \union Held' \union Given' \union said'.thrown
               \subseteq 1..clock'
    BY <1>3, <2>1, <2>2
  <2>4. Unread' \intersect (ToSet(pre_roll)' \union Held' \union Given' \union said'.thrown) = {}
    BY <1>3, <2>1, <2>2
  <2>5. HeldLive' \subseteq Held' /\ HeldLive' \intersect (ToSet(pre_roll)' \union Given') = {}
    BY <1>3, <2>1, <2>2
  <2>6. said'.thrown \intersect (ToSet(pre_roll)' \union Held' \union Given') = {}
    BY <1>3, <2>1, <2>2
  <2> QED
    BY <1>2, <2>3, <2>4, <2>5, <2>6 DEF Located
<1>5. Asked'
  BY <1>1 DEF FaithInv, Asked, Called
<1>6. Timed'
  BY <1>1, <1>2 DEF FaithInv, Timed
<1>7. Begun'
  <2>1. HeldLive' \union Unread' \subseteq HeldLive \union Unread
    BY <1>3
  <2>2. in_flight' # <<>> /\ ~(caller' = "start" /\ reply' = <<>>) =>
           \A s \in HeldLive' \union Unread' : s > said'.asked \/ s \in said'.left
    BY <1>1, <2>1 DEF FaithInv, Begun
  <2>3. in_flight' # <<>> /\ caller' # "start" /\ in_flight'[1].live =>
           ((said'.from + 1)..clock') \ said'.lost \subseteq HeldLive' \union Unread'
    <3> SUFFICES ASSUME in_flight' # <<>>, caller' # "start", in_flight'[1].live
                 PROVE  ((said'.from + 1)..clock') \ said'.lost \subseteq HeldLive' \union Unread'
      OBVIOUS
    <3>1. ((said.from + 1)..clock) \ said.lost \subseteq HeldLive \union Unread
      BY <1>1 DEF FaithInv, Begun
    <3>2. HeldLive \union Unread \subseteq HeldLive' \union Unread'
      BY <1>3
    <3> QED
      BY <1>1, <3>1, <3>2
  <2> QED
    BY <2>2, <2>3 DEF Begun
<1>8. Handled'
  BY <1>1 DEF FaithInv, Handled, Handed, Live
<1> QED
  BY <1>1, <1>4, <1>5, <1>6, <1>7, <1>8 DEF FaithInv

(* A drain: what fills no chunk stays, what the cap leaves room for goes   *)
(* into a live recording, the rest into the pre-roll.                      *)
LEMMA DrainsStayFaithful ==
  ASSUME FaithInv, CapInv', Drain
  PROVE  FaithInv'
<1> DEFINE all == pending \o ring
           n   == (Len(all) \div Chunk) * Chunk
           out == First(n, all)
<1>1. all \in Seq(Nat) /\ Len(all) \in Nat /\ ToSet(all) = Unread /\ Distinct(all)
      /\ pre_roll \in Seq(Nat)
  <2>1. pending \in Seq(Nat) /\ ring \in Seq(Nat) /\ pre_roll \in Seq(Nat)
    BY DEF FaithInv, CapInv, Streams
  <2>2. Distinct(pending) /\ Distinct(ring) /\ ToSet(pending) \intersect ToSet(ring) = {}
    BY DEF FaithInv, Located
  <2> QED
    BY <2>1, <2>2, SetOfTwo, ConcatProperties, LenProperties DEF Unread
<1>2. n \in Nat
  <2>1. Chunk \in Nat /\ Chunk > 0
    BY CaptureAssumption
  <2>2. \A a, b \in Nat : b > 0 => a \div b \in Nat
    OBVIOUS
  <2>3. (Len(all) \div Chunk) \in Nat
    BY <1>1, <2>1, <2>2
  <2>4. \A a, b \in Nat : a * b \in Nat
    OBVIOUS
  <2> QED
    BY <2>1, <2>3, <2>4
<1> HIDE DEF all, n
<1>3. /\ out \in Seq(Nat) /\ Len(out) \in Nat
      /\ Unread = ToSet(out) \union ToSet(Rest(Len(out), all))
      /\ ToSet(out) \intersect ToSet(Rest(Len(out), all)) = {}
      /\ Distinct(out) /\ Distinct(Rest(Len(out), all))
  BY <1>1, <1>2, FirstAndRest
<1>4. pending' = Rest(Len(out), all) /\ loud' = loud /\ reply' = reply
  BY DEF Drain, Feed, all, n
<1>5. CASE Recording /\ out # <<>>
  <2> HIDE DEF out
  <2>1. Take(out)
    BY <1>5 DEF Drain, Feed, out, all, n
  <2>2. PICK f \in Flight : in_flight = <<f>> /\ in_flight[1] = f /\ Clean(f, cap) /\ f.live
    <3>1. in_flight # <<>>
      BY <1>5 DEF Recording
    <3> QED
      BY <1>5, <3>1, FlightIs DEF FaithInv, Recording
  <2>3. f.samples \in Seq(Nat) /\ f.before \in 0..Len(f.samples) /\ cap \in Nat
    <3>1. f.samples \in Seq(Nat) /\ f.before \in Nat /\ f.before <= Len(f.samples)
      BY <2>2 DEF Flight, Clean
    <3> QED
      BY <3>1, LenProperties DEF FaithInv, CapInv, Streams
  <2> DEFINE room == Room(f, cap)
             m    == First(room, out)
             over == Rest(Len(m), out)
             full == Len(m) = room
  <2>4. room \in Nat
    <3>1. Len(f.samples) \in Nat /\ f.before \in Nat /\ f.before <= Len(f.samples)
          /\ Len(f.samples) - f.before <= cap
      BY <2>2, <2>3, LenProperties DEF Clean
    <3> QED
      BY <2>3, <3>1 DEF Room
  <2>5. /\ in_flight' = <<[samples |-> f.samples \o m, before |-> f.before,
                  live |-> ~full, cap_hit |-> full]>>
        /\ tracker' = Track(tracker, m)
        /\ pre_roll' = pre_roll \/ PreRollPush(over)
    BY <2>1, <2>2 DEF Take, Room
  <2> HIDE DEF room
  <2>6. /\ m \in Seq(Nat) /\ over \in Seq(Nat)
        /\ ToSet(out) = ToSet(m) \union ToSet(over) /\ ToSet(m) \intersect ToSet(over) = {}
        /\ ~full => ToSet(over) = {}
    BY <1>3, <2>4, FirstAndRest
  <2> HIDE DEF m, over, full
  <2>7. /\ in_flight' # <<>> /\ in_flight # <<>>
        /\ in_flight'[1].samples = f.samples \o m /\ in_flight'[1].before = f.before
        /\ in_flight'[1].live = ~full
    BY <2>2, <2>5
  <2>8. Held' = Held \union ToSet(m)
    BY <2>2, <2>3, <2>6, <2>7, SetOfTwo DEF Held
  <2>9. HeldLive' = HeldLive \union ToSet(m)
    <3>1. HeldLive' = ToSet(Rest(f.before, f.samples \o m))
            /\ HeldLive = ToSet(Rest(f.before, f.samples))
      BY <2>2, <2>7 DEF HeldLive, Live
    <3> QED
      BY <2>3, <2>6, <3>1, LiveGrows
  <2>10. ToSet(pre_roll') \subseteq ToSet(pre_roll) \union ToSet(over)
    BY <1>1, <2>5, <2>6, PreRollHas
  <2>11. Tracked'
    <3>1. Follows(tracker, f.samples, loud)
      BY <2>2, <2>7 DEF FaithInv, Tracked
    <3>2. Follows(Track(tracker, m), f.samples \o m, loud)
      BY <2>3, <2>6, <3>1, TrackGoesOn
    <3>3. Follows(tracker', in_flight'[1].samples, loud')
      BY <1>4, <2>5, <2>7, <3>2
    <3> QED
      BY <1>4, <3>3, SpeechStays DEF FaithInv, Tracked
  <2>12. in_flight'[1].live => Unread \subseteq ToSet(m) \union ToSet(pending')
    BY <1>3, <1>4, <2>6, <2>7
  <2>13. /\ ToSet(m) \union ToSet(over) \union ToSet(pending') = Unread
         /\ ToSet(m) \intersect ToSet(pending') = {} /\ ToSet(over) \intersect ToSet(pending') = {}
         /\ Distinct(pending')
    BY <1>3, <1>4, <2>6
  <2>14. in_flight[1].live
    BY <2>2
  <2> QED
    BY <2>6, <2>7, <2>8, <2>9, <2>10, <2>11, <2>12, <2>13, <2>14, DrainedSets
<1>6. CASE ~(Recording /\ out # <<>>)
  <2> HIDE DEF out
  <2>1. PreRollPush(out) /\ in_flight' = in_flight /\ tracker' = tracker
    BY <1>6 DEF Drain, Feed, out, all, n
  <2>2. ToSet(pre_roll') \subseteq ToSet(pre_roll) \union ToSet(out)
    BY <1>1, <1>3, <2>1, PreRollHas
  <2>3. Held' = Held \union {} /\ HeldLive' = HeldLive \union {}
    BY <2>1 DEF Held, HeldLive, Live
  <2>4. Tracked'
    BY <1>4, <2>1, SpeechStays DEF FaithInv, Tracked
  <2>5. in_flight # <<>> /\ in_flight'[1].live => ToSet(out) = {}
    <3>1. in_flight # <<>> /\ in_flight'[1].live => out = <<>>
      BY <1>6, <2>1 DEF Recording
    <3> QED
      BY <3>1, NothingInTheEmpty
  <2>6. {} \union ToSet(out) \union ToSet(pending') = Unread /\ Distinct(pending')
        /\ ToSet(out) \intersect ToSet(pending') = {}
    BY <1>3, <1>4
  <2>7. in_flight # <<>> /\ in_flight'[1].live =>
           in_flight[1].live /\ Unread \subseteq {} \union ToSet(pending')
    BY <2>1, <2>5, <2>6
  <2> QED
    BY <2>1, <2>2, <2>3, <2>4, <2>6, <2>7, DrainedSets
<1> QED
  BY <1>5, <1>6

LEMMA FaithInvHoldsAtFirst ==
  ASSUME Init
  PROVE  FaithInv
<1>1. CapInv
  BY CapInvHoldsAtFirst
<1>2. said \in Notes /\ said = NoCall
  BY DEF Init, NoCall, Notes
<1>3. ToSet(<<>>) = {} /\ Distinct(<<>>) /\ RingCapacity \in Nat /\ Len(<<>>) = 0
  BY NothingInTheEmpty, CaptureAssumption
<1>4. Unread = {} /\ Held = {} /\ HeldLive = {} /\ Given = {} /\ said.thrown = {}
      /\ ToSet(pre_roll) = {}
  BY <1>2, <1>3 DEF Init, Unread, Held, HeldLive, Given, Handing, NoCall
<1>5. Located
  BY <1>3, <1>4 DEF Init, Located
<1>6. Asked /\ Begun /\ Handled /\ Tracked
  BY DEF Init, Asked, Called, Begun, Handled, Handed, Tracked
<1>7. Timed
  BY <1>2 DEF Init, Timed, NoCall
<1> QED
  BY <1>1, <1>2, <1>5, <1>6, <1>7 DEF FaithInv

LEMMA EveryStepStaysFaithful ==
  ASSUME FaithInv, [Next]_vars
  PROVE  FaithInv'
<1>1. CapInv'
  BY EveryStep DEF FaithInv
<1>2. CASE UNCHANGED vars
  <2>1. UNCHANGED <<clock, loud, ring, pending, pre_roll, in_flight, tracker, reply, said,
                    worker, command, channel, caller>>
    BY <1>2 DEF vars, audio, pipeline, threads
  <2>2. Asked'
    BY <2>1 DEF FaithInv, Asked
  <2> QED
    BY <1>1, <2>1, <2>2, OtherwiseStaysFaithful
<1>3. ASSUME NEW n \in Blocks, Push(n) PROVE FaithInv'
  BY <1>1, <1>3, PushesStayFaithful
<1>4. ASSUME NEW what \in {"start", "stop", "discard"}, Call(what) PROVE FaithInv'
  BY <1>1, <1>4, CallsStayFaithful DEF Called
<1>5. CASE Drop \/ Joined \/ ReadLevel \/ Receive \/ TimesOut \/ Shutdown
  BY <1>1, <1>5, QuietStepsStayFaithful
<1>6. CASE Return
  BY <1>1, <1>6, ReturnsStayFaithful
<1>7. CASE Drain
  BY <1>1, <1>7, DrainsStayFaithful
<1>8. CASE ApplyStart \/ ApplyStop \/ ApplyDiscard
  BY <1>1, <1>8, StartStaysFaithful, StopStaysFaithful, DiscardStaysFaithful
<1> QED
  BY <1>2, <1>3, <1>4, <1>5, <1>6, <1>7, <1>8 DEF Next, Calls, Worker

LEMMA FaithImplies == FaithInv => RecordingIsFaithful
<1> SUFFICES ASSUME FaithInv PROVE RecordingIsFaithful
  OBVIOUS
<1>1. TakenWhenSaid
  BY DEF FaithInv, Handled, TakenWhenSaid, Handed
<1>2. Handed => reply[1].speech = SpeechOf(reply[1].samples)
  BY DEF FaithInv, Tracked, Handed
<1>3. DiscardedIsNotHandedOver
  BY DEF FaithInv, Located, Given, DiscardedIsNotHandedOver
<1> QED
  BY <1>1, <1>2, <1>3 DEF RecordingIsFaithful

(* What stop hands over is what was said, and nothing that was discarded,  *)
(* and its speech is that of the samples it comes with (Pipeline::start,   *)
(* finish, discard; SpeechTracker), however the callback, the worker and   *)
(* the caller interleave.                                                  *)
THEOREM TheRecordingIsFaithful == Spec => []RecordingIsFaithful
<1>1. Init => FaithInv
  BY FaithInvHoldsAtFirst
<1>2. FaithInv /\ [Next]_vars => FaithInv'
  BY EveryStepStaysFaithful
<1> QED
  BY <1>1, <1>2, FaithImplies, PTL DEF Spec
=============================================================================
