------------------------------ MODULE Capture ------------------------------
(***************************************************************************)
(* The open microphone (dile-capture): the audio callback pushes samples   *)
(* into a ring, a worker thread drains it through the converter and the    *)
(* pipeline (pre-roll, recording, cap, speech tracker, level meter), and a *)
(* caller starts, stops and discards recordings through a command channel  *)
(* whose answers it waits for.                                             *)
(*                                                                         *)
(* A sample is its number since the microphone was opened; what it sounds  *)
(* like is whether it is loud.  The adaptive noise floor decides what loud *)
(* is and is left out, and so are the resampler's arithmetic and delay:    *)
(* what is kept of them is that they work on whole chunks.                 *)
(***************************************************************************)
EXTENDS Naturals, FiniteSets, SequencesExt

CONSTANTS
  RingCapacity,  \* samples the ring holds
  PreRollSize,   \* pre_roll_samples
  CapWanted,     \* caps asked for, before they are clamped
  MinCap, MaxCap, \* MIN_CAP_SECS, MAX_CAP_SECS
  Chunk,         \* samples the resampler takes at a time
  FrameLen,      \* samples in a frame of the detector
  AttackFrames, HangoverFrames,  \* of RmsVadConfig
  Window,        \* samples in a level event
  LevelBacklog,  \* level events kept for a slow reader
  Loudness,      \* which samples are loud: sets of numbers
  Blocks,        \* how many samples a callback brings
  MaxSamples,    \* bound: samples produced
  MaxCalls       \* bound: calls made

ASSUME CaptureAssumption ==
  /\ {RingCapacity, MinCap, MaxCap, Chunk, FrameLen, AttackFrames, Window, LevelBacklog}
       \subseteq Nat \ {0}
  /\ {PreRollSize, HangoverFrames, MaxSamples, MaxCalls} \subseteq Nat
  /\ MinCap <= MaxCap
  /\ CapWanted \subseteq Nat /\ Blocks \subseteq Nat
  /\ Loudness \subseteq SUBSET (1..MaxSamples)

Samples  == 1..MaxSamples
Requests == {"start", "stop", "discard", "shutdown"}

VARIABLES
  clock, loud,       \* samples produced, and which of them are loud
  ring, overruns,    \* the lock-free ring; samples it had no room for
  pending,           \* Converter::pending
  pre_roll,          \* PreRoll::buffer
  in_flight,         \* Pipeline::in_flight, a sequence of none or one
  tracker,           \* SpeechTracker and RmsVad
  filled, levels,    \* LevelMeter::filled; the level channel
  cap,               \* cap_samples
  worker, command,   \* where the worker is; the command it has taken
  channel, reply,    \* the command channel and the answer
  state,             \* the state published for Capture::state
  caller, calls,     \* what the caller waits for; calls made
  said               \* history: what the caller asked for, when, and what it got

audio    == <<clock, loud, ring, overruns>>
pipeline == <<pending, pre_roll, in_flight, tracker, filled, levels>>
threads  == <<worker, command, channel, reply, caller, calls>>
vars     == <<audio, pipeline, threads, cap, state, said>>

-----------------------------------------------------------------------------
(* RmsVad::process and SpeechTracker::record, for one whole frame.         *)
Silent == [frame |-> <<>>, frames |-> 0, run |-> 0, hang |-> 0, speaking |-> FALSE,
           speech |-> {}]

Loud(frame) == \E i \in 1..Len(frame) : frame[i] \in loud

Record(t) ==
  LET run  == IF Loud(t.frame) THEN t.run + 1 ELSE 0
      on   == run >= AttackFrames
      talk == on \/ (t.speaking /\ (run > 0 \/ t.hang > 0))
      n    == t.frames + 1
  IN [frame |-> <<>>, frames |-> n, run |-> run,
      hang |-> IF on THEN HangoverFrames
               ELSE IF run = 0 /\ t.hang > 0 THEN t.hang - 1 ELSE t.hang,
      speaking |-> talk, speech |-> IF talk THEN t.speech \union {n} ELSE t.speech]

(* SpeechTracker::push: samples come in any portions. *)
Track(t, samples) ==
  LET Hear(u, s) ==
        LET v == [u EXCEPT !.frame = Append(@, s)]
        IN IF Len(v.frame) = FrameLen THEN Record(v) ELSE v
      After[i \in 0..Len(samples)] == IF i = 0 THEN t ELSE Hear(After[i - 1], samples[i])
  IN After[Len(samples)]

-----------------------------------------------------------------------------
(* The pipeline's own rules. *)
First(n, s) == SubSeq(s, 1, IF n < Len(s) THEN n ELSE Len(s))
Rest(n, s)  == SubSeq(s, n + 1, Len(s))
LastOf(n, s) == SubSeq(s, IF Len(s) > n THEN Len(s) - n + 1 ELSE 1, Len(s))

Clamp(c) == IF c < MinCap THEN MinCap ELSE IF c > MaxCap THEN MaxCap ELSE c

(* PreRoll::push: the newest pre_roll_samples stay. *)
PreRollPush(samples) == pre_roll' = LastOf(PreRollSize, pre_roll \o samples)

Recording == in_flight # <<>> /\ in_flight[1].live

State == IF in_flight = <<>> THEN "Armed"
         ELSE IF in_flight[1].live THEN "Recording" ELSE "Capped"

(* Mutant: the cap is looked at before the samples are taken. *)
TakeUncapped(samples) ==
  LET f == in_flight[1]
      n == Len(f.samples) - f.before
  IN IF n >= cap
     THEN /\ in_flight' = <<[f EXCEPT !.live = FALSE, !.cap_hit = TRUE]>>
          /\ PreRollPush(samples) /\ UNCHANGED tracker
     ELSE /\ in_flight' = <<[f EXCEPT !.samples = @ \o samples]>>
          /\ tracker' = Track(tracker, samples) /\ UNCHANGED pre_roll

(* feed's loop while a recording is live: it takes what the cap leaves it  *)
(* room for, and what comes after the cap fills the pre-roll.              *)
Take(samples) ==
  LET f    == in_flight[1]
      room == cap - (Len(f.samples) - f.before)
      mine == First(room, samples)
      full == Len(mine) = room
  IN /\ in_flight' = <<[samples |-> f.samples \o mine, before |-> f.before, live |-> ~full, cap_hit |-> full]>>
     /\ tracker' = Track(tracker, mine)
     /\ IF Len(mine) < Len(samples) THEN PreRollPush(Rest(Len(mine), samples))
                                    ELSE UNCHANGED pre_roll

(* Mutant: the worker waits for room in the level channel. *)
MeterWaits(samples) ==
  LET n == (filled + Len(samples)) \div Window
  IN /\ filled' = (filled + Len(samples)) % Window
     /\ levels + n <= LevelBacklog
     /\ levels' = levels + n

(* LevelMeter::push and publish: one event for each window that closes,    *)
(* and the oldest gives way when nobody reads them.                        *)
Meter(samples) ==
  LET n == (filled + Len(samples)) \div Window
  IN /\ filled' = (filled + Len(samples)) % Window
     /\ levels' = IF levels + n < LevelBacklog THEN levels + n ELSE LevelBacklog

(* Pipeline::feed, by way of the converter, which keeps what does not fill *)
(* a chunk for later.                                                      *)
Feed(raw) ==
  LET all  == pending \o raw
      out  == First((Len(all) \div Chunk) * Chunk, all)
  IN /\ pending' = Rest(Len(out), all)
     /\ Meter(out)
     /\ IF Recording /\ out # <<>>
        THEN Take(out)
        ELSE PreRollPush(out) /\ UNCHANGED <<in_flight, tracker>>

(* Pipeline::start: the pre-roll goes in front, and stays in the ring too. *)
Start ==
  /\ in_flight' = <<[samples |-> pre_roll, before |-> Len(pre_roll), live |-> TRUE,
                     cap_hit |-> FALSE]>>
  /\ tracker' = Track(Silent, pre_roll)
  /\ UNCHANGED <<pending, pre_roll, filled, levels>>

Nothing == [samples |-> <<>>, before |-> 0, cap_hit |-> FALSE, speech |-> {}]

(* Pipeline::stop: what is handed over, with the tracker's summary. *)
Taken ==
  IF in_flight = <<>> THEN Nothing
  ELSE [samples |-> in_flight[1].samples, before |-> in_flight[1].before,
        cap_hit |-> in_flight[1].cap_hit,
        speech |-> IF in_flight[1].samples = <<>> THEN {} ELSE tracker.speech]

(* stop and discard both leave the pipeline without a recording. *)
LetGo == in_flight' = <<>> /\ UNCHANGED <<pending, pre_roll, tracker, filled, levels>>

-----------------------------------------------------------------------------
NoCall == [asked |-> 0, from |-> 0, left |-> {}, to |-> 0, tail |-> {}, lost |-> {}, got |-> {},
           thrown |-> {}]

TypeOK ==
  /\ clock \in 0..MaxSamples /\ loud \in Loudness
  /\ ring \in Seq(Samples) /\ Len(ring) <= RingCapacity /\ overruns \in 0..clock
  /\ pending \in Seq(Samples) /\ Len(pending) < Chunk
  /\ pre_roll \in Seq(Samples) /\ Len(pre_roll) <= PreRollSize
  /\ Len(in_flight) <= 1
  /\ Len(tracker.frame) < FrameLen /\ tracker.speech \subseteq 1..tracker.frames
  /\ filled \in 0..(Window - 1) /\ levels \in 0..LevelBacklog
  /\ cap \in MinCap..MaxCap
  /\ worker \in {"drain", "wait", "again", "apply", "gone"}
  /\ command \in Requests \union {"none"} /\ channel \in Requests \union {"none"}
  /\ state \in {"Armed", "Recording", "Capped"}
  /\ caller \in {"idle", "start", "stop", "discard", "dropped", "closed"}
  /\ calls \in 0..MaxCalls

(* Capture::open_with: the device runs and the ring is empty. *)
Init ==
  /\ clock = 0 /\ loud \in Loudness /\ ring = <<>> /\ overruns = 0
  /\ pending = <<>> /\ pre_roll = <<>> /\ in_flight = <<>> /\ tracker = Silent
  /\ filled = 0 /\ levels = 0
  /\ cap \in {Clamp(c) : c \in CapWanted}
  /\ worker = "drain" /\ command = "none" /\ channel = "none" /\ reply = <<>>
  /\ state = "Armed" /\ caller = "idle" /\ calls = 0
  /\ said = NoCall

-----------------------------------------------------------------------------
(* RawSink::push, from the audio callback: what does not fit is dropped    *)
(* and counted.                                                            *)
Push(n) ==
  LET room  == RingCapacity - Len(ring)
      block == [i \in 1..n |-> clock + i]
      fits  == First(room, block)
  IN /\ caller \notin {"dropped", "closed"}
     /\ clock + n <= MaxSamples
     /\ clock' = clock + n
     /\ ring' = ring \o fits
     /\ overruns' = overruns + (n - Len(fits))
     /\ said' = [said EXCEPT !.lost = @ \union ToSet(Rest(Len(fits), block))]
     /\ UNCHANGED <<loud, pipeline, threads, cap, state>>

(* start, stop and discard of the caller, which then waits. *)
Call(what) ==
  /\ caller = "idle" /\ calls < MaxCalls
  /\ calls' = calls + 1
  /\ caller' = what /\ channel' = what
  /\ said' = IF what = "start" THEN [said EXCEPT !.asked = clock]
             ELSE [said EXCEPT !.to = clock]
  /\ UNCHANGED <<audio, pipeline, worker, command, reply, cap, state>>

(* Drop: the stream is closed first, then the worker is told and joined.   *)
Drop ==
  /\ caller = "idle"
  /\ caller' = "dropped" /\ channel' = "shutdown"
  /\ UNCHANGED <<audio, pipeline, worker, command, reply, calls, cap, state, said>>

Joined ==
  /\ caller = "dropped" /\ worker = "gone"
  /\ caller' = "closed"
  /\ UNCHANGED <<audio, pipeline, worker, command, channel, reply, calls, cap, state, said>>

(* A live sample, as opposed to one of the pre-roll. *)
Live(r) == ToSet(Rest(r.before, r.samples))

(* The answer comes back. *)
Return ==
  /\ reply # <<>>
  /\ reply' = <<>> /\ caller' = "idle"
  /\ said' = IF caller = "start" THEN [said EXCEPT !.from = clock]
             ELSE IF caller = "stop"
             THEN [said EXCEPT !.got = @ \union ToSet(reply[1].samples)]
             ELSE said
  /\ UNCHANGED <<audio, pipeline, worker, command, channel, calls, cap, state>>

ReadLevel ==
  /\ levels > 0
  /\ levels' = levels - 1
  /\ UNCHANGED <<audio, pending, pre_roll, in_flight, tracker, filled, threads, cap, state, said>>

-----------------------------------------------------------------------------
(* The worker. *)
Drain ==
  /\ worker \in {"drain", "again"}
  /\ ring' = <<>>
  /\ Feed(ring)
  /\ worker' = IF worker = "drain" THEN "wait" ELSE "apply"
  /\ UNCHANGED <<clock, loud, overruns, command, channel, reply, caller, calls, cap, state, said>>

(* Mutant: the ring is not drained again before a command takes effect. *)
ReceiveAndApply ==
  /\ worker = "wait" /\ channel # "none"
  /\ command' = channel /\ channel' = "none"
  /\ worker' = "apply"
  /\ UNCHANGED <<audio, pipeline, reply, caller, calls, cap, state, said>>

Receive ==
  /\ worker = "wait" /\ channel # "none"
  /\ command' = channel /\ channel' = "none"
  /\ worker' = "again"
  /\ UNCHANGED <<audio, pipeline, reply, caller, calls, cap, state, said>>

(* WORKER_POLL has passed without a command. *)
TimesOut ==
  /\ worker = "wait" /\ channel = "none"
  /\ state' = State
  /\ worker' = "drain"
  /\ UNCHANGED <<audio, pipeline, command, channel, reply, caller, calls, cap, said>>

Answers(r) ==
  /\ reply' = <<r>> /\ command' = "none" /\ worker' = "drain"
  /\ UNCHANGED <<audio, channel, caller, calls, cap>>

ApplyStart ==
  /\ worker = "apply" /\ command = "start"
  /\ Start
  /\ state' = State'
  /\ Answers(Nothing)
  /\ said' = [said EXCEPT !.left = ToSet(pending)]

ApplyStop ==
  /\ worker = "apply" /\ command = "stop"
  /\ LetGo
  /\ state' = State'
  /\ Answers(Taken)
  /\ said' = [said EXCEPT !.tail = ToSet(pending)]

ApplyDiscard ==
  /\ worker = "apply" /\ command = "discard"
  /\ LetGo
  /\ state' = State'
  /\ Answers(Nothing)
  /\ said' = IF in_flight = <<>> THEN said
             ELSE [said EXCEPT !.thrown = @ \union Live(in_flight[1])]

Shutdown ==
  /\ worker = "apply" /\ command = "shutdown"
  /\ worker' = "gone" /\ command' = "none"
  /\ UNCHANGED <<audio, pipeline, channel, reply, caller, calls, cap, state, said>>

Worker == Drain \/ Receive \/ TimesOut \/ ApplyStart \/ ApplyStop \/ ApplyDiscard \/ Shutdown

Calls == (\E what \in {"start", "stop", "discard"} : Call(what)) \/ Drop

Next == (\E n \in Blocks : Push(n)) \/ Calls \/ Joined \/ Return \/ ReadLevel \/ Worker

Spec == Init /\ [][Next]_vars

(* The worker and the caller run; the microphone and the reader of the     *)
(* levels need not.                                                        *)
FairSpec == Spec /\ WF_vars(Worker) /\ WF_vars(Return \/ Joined)

-----------------------------------------------------------------------------
(* The recording that has just been handed over. *)
Handed == reply # <<>> /\ caller = "stop"

(* What a frame is, with the recording in one piece: it is speech when the *)
(* detector has heard AttackFrames loud ones in a row, and no more quiet   *)
(* ones since than the hangover.                                           *)
SpeechOf(samples) ==
  LET LoudFrame(i) == Loud(SubSeq(samples, (i - 1) * FrameLen + 1, i * FrameLen))
      Heard(i) == \E j \in AttackFrames..i :
                    /\ \A k \in (j - AttackFrames + 1)..j : LoudFrame(k)
                    /\ Cardinality({k \in (j + 1)..i : ~LoudFrame(k)}) <= HangoverFrames
  IN {i \in 1..(Len(samples) \div FrameLen) : Heard(i)}

(* start and stop take effect when they are called: the recorded part has  *)
(* nothing from before the key went down, everything the ring took between *)
(* start's return and stop's call, and nothing from after it, but for less *)
(* than a chunk still in the resampler (Command's comment, run).           *)
TakenWhenSaid ==
  (Handed /\ reply[1].samples # <<>> /\ said.from > 0) =>
    LET live == Live(reply[1]) IN
    /\ \A s \in live : s > said.asked \/ s \in said.left
    /\ reply[1].cap_hit \/ ((said.from + 1)..said.to) \ said.lost \subseteq live \union said.tail

(* A sample recorded after the key went down and then thrown away is never *)
(* handed over, not even as the pre-roll of what comes next (discard).     *)
DiscardedIsNotHandedOver == said.got \intersect said.thrown = {}

(* What stop hands over is what was said, and nothing that was discarded,  *)
(* and its summary is that of the samples it comes with, however they      *)
(* arrived and whatever was recorded before (Pipeline::start, finish,      *)
(* discard; SpeechTracker).                                                *)
RecordingIsFaithful ==
  /\ TakenWhenSaid
  /\ Handed => reply[1].speech = SpeechOf(reply[1].samples)
  /\ DiscardedIsNotHandedOver

(* The cap stops cleanly: never a sample more, and it is told of exactly   *)
(* when it was reached (Recording::cap_hit, feed).                         *)
CapStopsCleanly ==
  \A i \in 1..Len(in_flight) :
    LET n == Len(in_flight[i].samples) - in_flight[i].before IN
    /\ n <= cap
    /\ in_flight[i].cap_hit <=> n = cap
    /\ in_flight[i].live <=> ~in_flight[i].cap_hit

(* Every call returns, also when nobody reads the levels, and leaves its   *)
(* caller with a state that is true: nothing is said to be recording when  *)
(* stop has returned, and the other way round (run: "the state is          *)
(* published before the answer").                                          *)
CallsReturn ==
  /\ []<>(caller \in {"idle", "closed"})
  /\ [](caller = "idle" => /\ state = "Armed" <=> in_flight = <<>>
                           /\ Recording => state = "Recording")

=============================================================================
