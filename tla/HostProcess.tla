---------------------------- MODULE HostProcess ----------------------------
(***************************************************************************)
(* One engine process and the two pipes to it: the client's requests       *)
(* (dile-client/host.rs), the thread that reads the answers, and the loop  *)
(* of dile-engine-host on the other side, with the frames of the protocol  *)
(* between them.                                                           *)
(*                                                                         *)
(* A frame is written and read as a whole, except the one a process dies   *)
(* in: its reader finds it torn.  An audio frame is longer than the pipe,  *)
(* so that it is written only while the other side reads.                  *)
(***************************************************************************)
EXTENDS Naturals, SequencesExt

CONSTANTS
  MaxRequests,   \* bound: requests of one HostProcess
  MaxFaults,     \* bound: crashes and hangs of the host, the client's death
  Disturbances   \* "wedge": the host may hang while it reads, too

Ops == {"hello", "load", "transcribe"}
Ids == 1..MaxRequests
NoId == 0

VARIABLES
  at, id, op, next_id,       \* the client: what it is in, for which request
  stdin, open,               \* the frames on their way to the host; stdin is Some
  stdout, replies, connected,\* the frames on their way back; the channel
  host, model, hung,         \* the host: its step, its engine
  faults, oversize,          \* for the bound; history: an audio frame was refused
  returned                   \* history: what the requests returned

client == <<at, id, op, next_id, open, returned>>
pipes  == <<stdin, stdout, replies, connected>>
engine == <<host, model, hung>>
vars   == <<client, pipes, engine, faults, oversize>>

Frame(kind, what, for) == [kind |-> kind, op |-> what, id |-> for]
Torn == Frame("torn", "none", NoId)
Response(for, ok, heard) == [kind |-> "json", id |-> for, ok |-> ok, about |-> heard]

Step(pc, for, what, heard) == [pc |-> pc, id |-> for, op |-> what, heard |-> heard]
Loop == Step("loop", NoId, "none", NoId)
Dead == Step("dead", NoId, "none", NoId)

Alive == host # Dead
Runs  == Alive /\ ~hung
Fault == faults < MaxFaults /\ faults' = faults + 1

-----------------------------------------------------------------------------
(* The client: request and what calls it.                                  *)
Return(how, about) ==
  /\ at' = "idle"
  /\ returned' = Append(returned, [id |-> id, how |-> how, about |-> about])

(* take_id, write_json.  A pipe nobody reads any more is a process that is *)
(* gone.                                                                   *)
Request(o) ==
  /\ at = "idle" /\ next_id \in Ids
  /\ id' = next_id /\ next_id' = next_id + 1 /\ op' = o
  /\ IF open /\ Alive
     THEN /\ stdin' = Append(stdin, Frame("json", o, next_id))
          /\ at' = IF o = "transcribe" THEN "audio" ELSE "wait"
          /\ UNCHANGED returned
     ELSE /\ at' = "idle" /\ UNCHANGED stdin
          /\ returned' = Append(returned, [id |-> next_id, how |-> "gone", about |-> NoId])
  /\ UNCHANGED <<open, stdout, replies, connected, engine, faults, oversize>>

(* write_audio, which refuses a frame over MAX_FRAME_BYTES. *)
SendAudio ==
  /\ at = "audio" /\ (Runs \/ ~Alive)
  /\ IF Alive THEN stdin' = Append(stdin, Frame("audio", "none", id)) /\ at' = "wait" /\ UNCHANGED returned
     ELSE Return("gone", NoId) /\ UNCHANGED stdin
  /\ UNCHANGED <<id, op, next_id, open, stdout, replies, connected, engine, faults, oversize>>

AudioTooLong ==
  /\ at = "audio" /\ Return("pipe", NoId) /\ oversize' = TRUE
  /\ UNCHANGED <<id, op, next_id, open, pipes, engine, faults>>

(* recv_timeout: an answer with another id is dropped.                     *)
Receive ==
  /\ at = "wait" /\ replies # <<>> /\ replies' = Tail(replies)
  /\ LET answer == Head(replies) IN
     IF answer.kind = "torn" THEN Return("pipe", NoId)
     ELSE IF answer.id # id THEN UNCHANGED <<at, returned>>
     ELSE Return(IF answer.ok THEN "answered" ELSE "refused", answer.about)
  /\ UNCHANGED <<id, op, next_id, open, stdin, stdout, connected, engine, faults, oversize>>

Disconnected ==
  /\ at = "wait" /\ replies = <<>> /\ ~connected /\ Return("gone", NoId)
  /\ UNCHANGED <<id, op, next_id, open, pipes, engine, faults, oversize>>

Kill == /\ open' = FALSE /\ host' = Dead /\ stdin' = <<>>
        /\ UNCHANGED <<model, hung>>

Timeout ==
  /\ at = "wait" /\ replies = <<>> /\ connected
  /\ Kill /\ Return("timeout", NoId)
  /\ UNCHANGED <<id, op, next_id, stdout, replies, connected, faults, oversize>>

(* Drop: quit is written, and the process killed.                          *)
Drop ==
  /\ at = "idle" /\ at' = "dropping"
  /\ stdin' = IF open /\ Alive THEN Append(stdin, Frame("json", "quit", next_id)) ELSE stdin
  /\ UNCHANGED <<id, op, next_id, open, returned, stdout, replies, connected, engine, faults, oversize>>

DropKills ==
  /\ at = "dropping" /\ at' = "dropped" /\ Kill
  /\ UNCHANGED <<id, op, next_id, returned, stdout, replies, connected, faults, oversize>>

(* The application is killed, in the middle of a frame or not. *)
ClientDies ==
  /\ at \notin {"dropped", "died"} /\ Fault /\ at' = "died" /\ open' = FALSE
  /\ stdin' = IF at = "audio" /\ Alive THEN Append(stdin, Torn) ELSE stdin
  /\ replies' = <<>> /\ connected' = FALSE
  /\ UNCHANGED <<id, op, next_id, returned, stdout, engine, oversize>>

-----------------------------------------------------------------------------
(* The thread that reads the answers, until the first it cannot read, or   *)
(* until the process has closed its end.                                   *)
ReaderReads ==
  /\ connected /\ stdout # <<>>
  /\ stdout' = Tail(stdout) /\ replies' = Append(replies, Head(stdout))
  /\ connected' = (Head(stdout).kind # "torn")
  /\ UNCHANGED <<client, stdin, engine, faults, oversize>>

ReaderEnds ==
  /\ connected /\ stdout = <<>> /\ ~Alive /\ connected' = FALSE
  /\ UNCHANGED <<client, stdin, stdout, replies, engine, faults, oversize>>

-----------------------------------------------------------------------------
(* The host.  It leaves when nobody reads its answers.                     *)
Reply(response, then) ==
  IF at = "died" THEN host' = Dead /\ UNCHANGED stdout
  ELSE host' = then /\ stdout' = Append(stdout, response)

HostUnchanged == UNCHANGED <<client, replies, connected, hung, faults, oversize>>

(* Mutant: a request that cannot be served leaves its audio in the pipe. *)
TakeUnread ==
  /\ host.pc = "loop" /\ Runs /\ stdin # <<>> /\ stdin' = Tail(stdin)
  /\ LET frame == Head(stdin) IN
     CASE frame.kind = "json" /\ frame.op = "transcribe" /\ model ->
            host' = Step("audio", frame.id, frame.op, NoId) /\ UNCHANGED stdout
       [] frame.kind = "json" /\ frame.op \in {"hello", "load"} ->
            host' = Step("work", frame.id, frame.op, NoId) /\ UNCHANGED stdout
       [] OTHER -> Reply(Response(frame.id, FALSE, frame.id), Loop)
  /\ UNCHANGED model /\ HostUnchanged

(* main: quit and a torn frame end it; a frame that is no request is       *)
(* answered, without an id.                                                *)
TakeFrame ==
  /\ host.pc = "loop" /\ Runs /\ stdin # <<>> /\ stdin' = Tail(stdin)
  /\ LET frame == Head(stdin) IN
     CASE frame.kind = "torn" -> Reply(Response(NoId, FALSE, NoId), Dead)
       [] frame.kind = "audio" -> Reply(Response(NoId, FALSE, NoId), Loop)
       [] frame.op = "quit" -> Reply(Response(frame.id, TRUE, frame.id), Dead)
       [] frame.op \in {"hello", "load"} ->
            host' = Step("work", frame.id, frame.op, frame.id) /\ UNCHANGED stdout
       [] OTHER -> host' = Step("audio", frame.id, frame.op, NoId) /\ UNCHANGED stdout
  /\ UNCHANGED model /\ HostUnchanged

(* next_audio: whatever frame comes next is the one that was to be audio.  *)
TakeAudio ==
  /\ host.pc = "audio" /\ Runs /\ stdin # <<>> /\ stdin' = Tail(stdin)
  /\ IF Head(stdin).kind = "audio"
     THEN host' = [host EXCEPT !.pc = "work", !.heard = Head(stdin).id] /\ UNCHANGED stdout
     ELSE Reply(Response(host.id, FALSE, host.id), Loop)
  /\ UNCHANGED model /\ HostUnchanged

(* Mutant: the end of stdin is taken for an empty frame. *)
EndIgnored == FALSE /\ UNCHANGED vars

EndOfStdin ==
  /\ host.pc \in {"loop", "audio"} /\ Runs /\ stdin = <<>> /\ ~open
  /\ IF host.pc = "loop" THEN host' = Dead /\ UNCHANGED stdout
     ELSE Reply(Response(host.id, FALSE, host.id), Loop)
  /\ UNCHANGED <<stdin, model>> /\ HostUnchanged

(* load forgets the model before it loads one; transcribe needs one.       *)
Work ==
  /\ host.pc = "work" /\ Runs
  /\ \E ok \in BOOLEAN :
       /\ host.op = "hello" => ok
       /\ host.op = "transcribe" /\ ~model => ~ok
       /\ model' = IF host.op = "load" THEN ok ELSE model
       /\ Reply(Response(host.id, ok, host.heard), Loop)
  /\ UNCHANGED stdin /\ HostUnchanged

(* A driver fault, a crash: perhaps in the middle of an answer. *)
HostDies ==
  /\ Alive /\ Fault /\ host' = Dead /\ stdin' = <<>>
  /\ stdout' \in {stdout, Append(stdout, [Torn EXCEPT !.op = "answer"])}
  /\ UNCHANGED <<client, replies, connected, model, hung, oversize>>

HostHangs ==
  /\ Runs /\ (host.pc = "work" \/ "wedge" \in Disturbances) /\ Fault /\ hung' = TRUE
  /\ UNCHANGED <<client, pipes, host, model, oversize>>

Init ==
  /\ at = "idle" /\ id = NoId /\ op = "none" /\ next_id = 1
  /\ stdin = <<>> /\ open = TRUE /\ stdout = <<>> /\ replies = <<>> /\ connected = TRUE
  /\ host = Loop /\ model = FALSE /\ hung = FALSE
  /\ faults = 0 /\ oversize = FALSE /\ returned = <<>>

Waits  == SendAudio \/ Receive \/ Disconnected \/ Timeout \/ DropKills
Client == (\E o \in Ops : Request(o)) \/ AudioTooLong \/ Drop \/ ClientDies \/ Waits
Reader == ReaderReads \/ ReaderEnds
Host   == TakeFrame \/ TakeAudio \/ EndOfStdin \/ Work

Next == Client \/ Reader \/ Host \/ HostDies \/ HostHangs

Spec == Init /\ [][Next]_vars

(* Threads that can run do; the host's does unless it hangs.               *)
FairSpec == Spec /\ WF_vars(Waits) /\ WF_vars(Reader) /\ WF_vars(Host)

-----------------------------------------------------------------------------
(* Properties.                                                             *)

(* host.rs:272-277: an answer that is returned, a yes or a no, is the one  *)
(* to this request, and a text is that of this request's audio.            *)
AnswersAreTheirOwn == \A i \in 1..Len(returned) :
  returned[i].how \in {"answered", "refused"} => returned[i].about = returned[i].id

(* engine-host main.rs:166-172: between two requests nothing is left in    *)
(* either pipe, whatever the last one ended in; except after a recording   *)
(* too long for a frame, whose audio the host goes on waiting for.         *)
StreamsInStep ==
  at = "idle" /\ open /\ Alive /\ connected /\ ~oversize =>
    stdin = <<>> /\ stdout = <<>> /\ replies = <<>> /\ host = Loop

(* The engine's answers are worth what their requests are. *)
EngineAnswers == AnswersAreTheirOwn /\ StreamsInStep

(* host.rs:233-293: every request ends, whatever becomes of the process.   *)
RequestsEnd == (at \in {"audio", "wait"}) ~> (at \notin {"audio", "wait"})

(* main.rs:24-25: an engine does not outlive its application, however that *)
(* ends, unless the runtime it is in never comes back.                     *)
EngineEnds == (at \in {"dropped", "died"}) ~> (hung \/ ~Alive)
=============================================================================
