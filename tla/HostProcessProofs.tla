-------------------------- MODULE HostProcessProofs -------------------------
(***************************************************************************)
(* That an answer is always the one to its request, for any number of      *)
(* requests and faults and whatever may hang.                              *)
(*                                                                         *)
(* Two things have to be known besides: which audio frame belongs to which *)
(* request (Adjacent), and, while nothing has gone wrong, where in the     *)
(* pipes the one request is that is under way (Under).                     *)
(***************************************************************************)
EXTENDS HostProcess, SequenceTheorems, TLAPS

Ats == {"idle", "audio", "wait", "dropping", "dropped", "died"}

Names == Ops \union {"quit", "none", "answer"}

Frames  == [kind : {"json", "audio", "torn"}, op : Names, id : Nat]
Answers == [kind : {"json"}, id : Nat, ok : BOOLEAN, about : Nat]
Steps   == [pc : {"loop", "audio", "work", "dead"}, id : Nat, op : Names, heard : Nat]
Returns == [id : Nat, how : {"answered", "refused", "gone", "pipe", "timeout"}, about : Nat]

(* An answer that is not torn is about what it says it answers, and so is  *)
(* what a request returns.                                                 *)
Messages == {a \in Answers : a.about = a.id} \union {f \in Frames : f.kind = "torn"}
Results  == {r \in Returns : r.how \in {"answered", "refused"} => r.about = r.id}

Flags ==
  /\ at \in Ats /\ id \in Nat /\ next_id \in Nat /\ op \in Names
  /\ open \in BOOLEAN /\ connected \in BOOLEAN /\ oversize \in BOOLEAN

Pipes ==
  /\ stdin \in Seq(Frames) /\ stdout \in Seq(Messages) /\ replies \in Seq(Messages)
  /\ returned \in Seq(Results)

Engine ==
  /\ host \in Steps /\ (host.pc = "dead" <=> host = Dead)
  /\ host.pc = "work" => host.heard = host.id

(* An audio frame comes after the request it belongs to, or that request   *)
(* is the one the host waits with.                                         *)
Pairs(q, h) == \A i \in 1..Len(q) : q[i].kind = "audio" =>
  IF i = 1 THEN h.pc = "audio" => h.id = q[1].id
  ELSE q[i - 1] = Frame("json", "transcribe", q[i].id)

(* The last thing written, or taken, is the request to transcribe n.       *)
Ends(q, h, n) ==
  IF q = <<>> THEN h.pc = "audio" => h.id = n
  ELSE q[Len(q)] = Frame("json", "transcribe", n)

Adjacent == Pairs(stdin, host) /\ (at = "audio" => Ends(stdin, host, id))

(* Where the request under way is.                                         *)
Quietly == stdin = <<>> /\ stdout = <<>> /\ replies = <<>>

Asked(o) == stdin = <<Frame("json", o, id)>> /\ host = Loop

Awaits == host = Step("audio", id, "transcribe", NoId)

InWay ==
  \/ stdout = <<>> /\ replies = <<>> /\ \E o \in {"hello", "load"} : Asked(o)
  \/ /\ stdout = <<>> /\ replies = <<>> /\ host = Loop
     /\ stdin = <<Frame("json", "transcribe", id), Frame("audio", "none", id)>>
  \/ stdout = <<>> /\ replies = <<>> /\ Awaits /\ stdin = <<Frame("audio", "none", id)>>
  \/ Quietly /\ host.pc = "work" /\ host.id = id
  \/ /\ stdin = <<>> /\ host = Loop
     /\ \E m \in Answers : /\ m.id = id
                           /\ \/ stdout = <<m>> /\ replies = <<>>
                              \/ stdout = <<>> /\ replies = <<m>>

Sound == open /\ Alive /\ connected /\ ~oversize

Stage ==
  /\ at = "idle"  => Quietly /\ host = Loop
  /\ at = "audio" => /\ stdout = <<>> /\ replies = <<>>
                     /\ Asked("transcribe") \/ (stdin = <<>> /\ Awaits)
  /\ at = "wait"  => InWay

Under == Sound => Stage

Typed == Flags /\ Pipes /\ Engine

HostInv == Typed /\ Adjacent /\ Under

-----------------------------------------------------------------------------
(* What frames, answers and steps are made by, and made of. *)
LEMMA Constructors ==
  /\ \A o \in Names, n \in Nat : Frame("json", o, n) \in Frames
  /\ \A n \in Nat : Frame("audio", "none", n) \in Frames
  /\ Torn \in Frames /\ Torn \in Messages /\ [Torn EXCEPT !.op = "answer"] \in Messages
  /\ \A n \in Nat, ok \in BOOLEAN : Response(n, ok, n) \in Messages
  /\ \A n, h \in Nat, o \in Names :
       /\ Step("audio", n, o, h) \in Steps /\ Step("audio", n, o, h) # Dead
       /\ Step("audio", n, o, h).pc = "audio" /\ Step("audio", n, o, h).id = n
  /\ \A n \in Nat, o \in Names :
       /\ Step("work", n, o, n) \in Steps /\ Step("work", n, o, n) # Dead
       /\ Step("work", n, o, n).pc = "work" /\ Step("work", n, o, n).heard = Step("work", n, o, n).id
       /\ Step("work", n, o, n).id = n
  /\ Loop \in Steps /\ Dead \in Steps /\ Loop.pc = "loop" /\ Dead.pc = "dead"
  BY DEF Frame, Frames, Torn, Messages, Answers, Response, Step, Steps, Loop, Dead, NoId, Ops, Names

LEMMA Fields ==
  /\ \A f \in Frames : f.id \in Nat /\ f.op \in Names
  /\ \A h \in Steps : h.id \in Nat /\ h.heard \in Nat /\ h.op \in Names
  /\ \A m \in Messages : m.kind = "torn" \/ (m.about = m.id /\ m.ok \in BOOLEAN)
  BY DEF Frames, Steps, Messages, Answers

LEMMA Hears ==
  ASSUME NEW h \in Steps
  PROVE  LET w == [h EXCEPT !.pc = "work", !.heard = h.id]
         IN  w \in Steps /\ w # Dead /\ w.pc = "work" /\ w.heard = w.id /\ w.id = h.id
  BY DEF Steps, Dead, Step

(* A queue is emptied, loses its head or gains a message.                  *)
Moves(q, r, S) ==
  \/ r = q \/ r = <<>>
  \/ q # <<>> /\ r = Tail(q)
  \/ \E m \in S : r = Append(q, m)

LEMMA MovesKeepTheType ==
  ASSUME NEW S, NEW q \in Seq(S), NEW r, Moves(q, r, S)
  PROVE  r \in Seq(S)
<1>1. ASSUME NEW m \in S, r = Append(q, m) PROVE r \in Seq(S)
  BY <1>1
<1>2. CASE q # <<>> /\ r = Tail(q)
  BY <1>2
<1>3. <<>> \in Seq(S)
  OBVIOUS
<1> QED
  BY <1>1, <1>2, <1>3 DEF Moves

LEMMA HeadIsOne ==
  ASSUME NEW S, NEW q \in Seq(S), q # <<>>
  PROVE  Head(q) \in S
  OBVIOUS

LEMMA HeadIsFirst ==
  ASSUME NEW S, NEW q \in Seq(S), q # <<>>
  PROVE  1 \in 1..Len(q) /\ Head(q) = q[1]
  OBVIOUS

(* Every action keeps the types: of the flags, the host and the pipes. *)
LEMMA FlagsAreKept ==
  ASSUME Flags, [Next]_vars
  PROVE  Flags'
<1> USE DEF Flags, Ats, Ops, Names, client, pipes, engine
<1>1. ASSUME NEW o \in Ops, Request(o)
      PROVE  Flags'
  BY <1>1 DEF Request, Frame
<1>2. CASE SendAudio
  BY <1>2 DEF SendAudio, Return
<1>3. CASE AudioTooLong
  BY <1>3 DEF AudioTooLong, Return, NoId
<1>4. CASE Receive
  BY <1>4 DEF Receive, Return
<1>5. CASE Disconnected
  BY <1>5 DEF Disconnected, Return
<1>6. CASE Timeout
  BY <1>6 DEF Timeout, Return, Kill
<1>7. CASE Drop \/ DropKills
  BY <1>7 DEF Drop, DropKills, Kill
<1>8. CASE ClientDies
  BY <1>8 DEF ClientDies
<1>9. CASE ReaderReads \/ ReaderEnds
  BY <1>9 DEF ReaderReads, ReaderEnds
<1>10. CASE TakeFrame
  BY <1>10 DEF TakeFrame, Reply, HostUnchanged
<1>11. CASE TakeAudio
  BY <1>11 DEF TakeAudio, Reply, HostUnchanged
<1>12. CASE EndOfStdin
  BY <1>12 DEF EndOfStdin, Reply, HostUnchanged
<1>13. CASE Work
  BY <1>13 DEF Work, Reply, HostUnchanged
<1>14. CASE HostDies \/ HostHangs
  BY <1>14 DEF HostDies, HostHangs
<1>15. CASE UNCHANGED vars
  BY <1>15 DEF vars
<1> QED
  BY <1>1, <1>2, <1>3, <1>4, <1>5, <1>6, <1>7, <1>8, <1>9, <1>10, <1>11, <1>12, <1>13, <1>14, <1>15 DEF Next, Client, Waits, Reader, Host


LEMMA HostIsKept ==
  ASSUME Typed, Adjacent, [Next]_vars
  PROVE  Engine'
<1> USE DEF Typed, Engine, Pipes, NoId, client, pipes, engine
<1>1. ASSUME NEW o \in Ops, Request(o)
      PROVE  Engine'
  BY <1>1 DEF Request
<1>2. CASE SendAudio
  BY <1>2 DEF SendAudio, Return
<1>3. CASE AudioTooLong
  BY <1>3 DEF AudioTooLong, Return
<1>4. CASE Receive
  BY <1>4 DEF Receive, Return
<1>5. CASE Disconnected
  BY <1>5 DEF Disconnected, Return
<1>6. CASE Timeout
  BY <1>6, Constructors DEF Timeout, Return, Kill
<1>7. CASE Drop \/ DropKills
  BY <1>7, Constructors DEF Drop, DropKills, Kill
<1>8. CASE ClientDies
  BY <1>8 DEF ClientDies
<1>9. CASE ReaderReads \/ ReaderEnds
  BY <1>9 DEF ReaderReads, ReaderEnds
<1>10. CASE TakeFrame
  <2>1. Head(stdin) \in Frames
    BY <1>10, HeadIsOne DEF TakeFrame
  <2>2. \/ host' = Loop \/ host' = Dead
        \/ host' = Step("work", Head(stdin).id, Head(stdin).op, Head(stdin).id)
        \/ host' = Step("audio", Head(stdin).id, Head(stdin).op, 0)
    BY <1>10 DEF TakeFrame, Reply
  <2>3. Head(stdin).id \in Nat /\ Head(stdin).op \in Names /\ 0 \in Nat
    BY <2>1, Fields
  <2>4. LET w == Step("work", Head(stdin).id, Head(stdin).op, Head(stdin).id)
        IN  w \in Steps /\ w # Dead /\ w.pc = "work" /\ w.heard = w.id
    BY <2>3, Constructors
  <2>5. LET w == Step("audio", Head(stdin).id, Head(stdin).op, 0)
        IN  w \in Steps /\ w # Dead /\ w.pc = "audio"
    BY <2>3 DEF Step, Steps, Dead
  <2> QED
    BY <2>2, <2>4, <2>5, Constructors
<1>11. CASE TakeAudio
  <2>0. stdin # <<>> /\ host.pc = "audio"
    BY <1>11 DEF TakeAudio
  <2>1. Head(stdin).kind = "audio" => Head(stdin).id = host.id
    BY <2>0, HeadIsFirst DEF Adjacent, Pairs
  <2>2. \/ host' = Loop \/ host' = Dead
        \/ host' = [host EXCEPT !.pc = "work", !.heard = host.id]
    BY <1>11, <2>1 DEF TakeAudio, Reply
  <2>3. LET w == [host EXCEPT !.pc = "work", !.heard = host.id]
        IN  w \in Steps /\ w # Dead /\ w.pc = "work" /\ w.heard = w.id
    BY Hears
  <2> QED
    BY <2>2, <2>3, Constructors
<1>12. CASE EndOfStdin
  BY <1>12, Constructors DEF EndOfStdin, Reply, HostUnchanged
<1>13. CASE Work
  BY <1>13, Constructors DEF Work, Reply, HostUnchanged
<1>14. CASE HostDies \/ HostHangs
  BY <1>14, Constructors DEF HostDies, HostHangs
<1>15. CASE UNCHANGED vars
  BY <1>15 DEF vars
<1> QED
  BY <1>1, <1>2, <1>3, <1>4, <1>5, <1>6, <1>7, <1>8, <1>9, <1>10, <1>11, <1>12, <1>13, <1>14, <1>15 DEF Next, Client, Waits, Reader, Host

(* What a step does to each pipe. *)
LEMMA StdinMoves ==
  ASSUME Typed, [Next]_vars
  PROVE  Moves(stdin, stdin', Frames)
<1> USE DEF Typed, Flags, Moves, client, pipes, engine
<1>1. ASSUME NEW o \in Ops, Request(o)
      PROVE  Moves(stdin, stdin', Frames)
  BY <1>1, Constructors DEF Request, Names
<1>2. CASE SendAudio
  BY <1>2, Constructors DEF SendAudio, Return
<1>3. CASE AudioTooLong
  BY <1>3 DEF AudioTooLong, Return
<1>4. CASE Receive
  BY <1>4 DEF Receive, Return
<1>5. CASE Disconnected
  BY <1>5 DEF Disconnected, Return
<1>6. CASE Timeout
  BY <1>6 DEF Timeout, Return, Kill
<1>7. CASE Drop \/ DropKills
  BY <1>7, Constructors DEF Drop, DropKills, Kill, Names
<1>8. CASE ClientDies
  BY <1>8, Constructors DEF ClientDies
<1>9. CASE ReaderReads \/ ReaderEnds
  BY <1>9 DEF ReaderReads, ReaderEnds
<1>10. CASE TakeFrame
  BY <1>10 DEF TakeFrame, Reply, HostUnchanged
<1>11. CASE TakeAudio
  BY <1>11 DEF TakeAudio, Reply, HostUnchanged
<1>12. CASE EndOfStdin
  BY <1>12 DEF EndOfStdin, Reply, HostUnchanged
<1>13. CASE Work
  BY <1>13 DEF Work, Reply, HostUnchanged
<1>14. CASE HostDies \/ HostHangs
  BY <1>14 DEF HostDies, HostHangs
<1>15. CASE UNCHANGED vars
  BY <1>15 DEF vars
<1> QED
  BY <1>1, <1>2, <1>3, <1>4, <1>5, <1>6, <1>7, <1>8, <1>9, <1>10, <1>11, <1>12, <1>13, <1>14, <1>15 DEF Next, Client, Waits, Reader, Host


LEMMA StdoutMoves ==
  ASSUME Typed, [Next]_vars
  PROVE  Moves(stdout, stdout', Messages)
<1> USE DEF Typed, Pipes, Engine, Moves, NoId, client, pipes, engine
<1>1. ASSUME NEW o \in Ops, Request(o)
      PROVE  Moves(stdout, stdout', Messages)
  BY <1>1 DEF Request
<1>2. CASE SendAudio
  BY <1>2 DEF SendAudio, Return
<1>3. CASE AudioTooLong
  BY <1>3 DEF AudioTooLong, Return
<1>4. CASE Receive
  BY <1>4 DEF Receive, Return
<1>5. CASE Disconnected
  BY <1>5 DEF Disconnected, Return
<1>6. CASE Timeout
  BY <1>6 DEF Timeout, Return, Kill
<1>7. CASE Drop \/ DropKills
  BY <1>7 DEF Drop, DropKills, Kill
<1>8. CASE ClientDies
  BY <1>8 DEF ClientDies
<1>9. CASE ReaderReads \/ ReaderEnds
  BY <1>9 DEF ReaderReads, ReaderEnds
<1>10. CASE TakeFrame
  <2>1. Head(stdin) \in Frames
    BY <1>10, HeadIsOne DEF TakeFrame
  <2>2. Head(stdin).id \in Nat /\ 0 \in Nat
    BY <2>1, Fields
  <2> QED
    BY <2>2, <1>10, Constructors DEF TakeFrame, Reply
<1>11. CASE TakeAudio
  BY <1>11, Constructors, Fields DEF TakeAudio, Reply, HostUnchanged
<1>12. CASE EndOfStdin
  BY <1>12, Constructors, Fields DEF EndOfStdin, Reply, HostUnchanged
<1>13. CASE Work
  BY <1>13, Constructors, Fields DEF Work, Reply, HostUnchanged
<1>14. CASE HostDies \/ HostHangs
  BY <1>14, Constructors DEF HostDies, HostHangs
<1>15. CASE UNCHANGED vars
  BY <1>15 DEF vars
<1> QED
  BY <1>1, <1>2, <1>3, <1>4, <1>5, <1>6, <1>7, <1>8, <1>9, <1>10, <1>11, <1>12, <1>13, <1>14, <1>15 DEF Next, Client, Waits, Reader, Host


LEMMA RepliesMove ==
  ASSUME Typed, [Next]_vars
  PROVE  Moves(replies, replies', Messages)
<1> USE DEF Typed, Pipes, Moves, client, pipes, engine
<1>1. ASSUME NEW o \in Ops, Request(o)
      PROVE  Moves(replies, replies', Messages)
  BY <1>1 DEF Request
<1>2. CASE SendAudio
  BY <1>2 DEF SendAudio, Return
<1>3. CASE AudioTooLong
  BY <1>3 DEF AudioTooLong, Return
<1>4. CASE Receive
  BY <1>4 DEF Receive, Return
<1>5. CASE Disconnected
  BY <1>5 DEF Disconnected, Return
<1>6. CASE Timeout
  BY <1>6 DEF Timeout, Return, Kill
<1>7. CASE Drop \/ DropKills
  BY <1>7 DEF Drop, DropKills, Kill
<1>8. CASE ClientDies
  BY <1>8 DEF ClientDies
<1>9. CASE ReaderReads \/ ReaderEnds
  BY <1>9, HeadIsOne DEF ReaderReads, ReaderEnds
<1>10. CASE TakeFrame
  BY <1>10 DEF TakeFrame, Reply, HostUnchanged
<1>11. CASE TakeAudio
  BY <1>11 DEF TakeAudio, Reply, HostUnchanged
<1>12. CASE EndOfStdin
  BY <1>12 DEF EndOfStdin, Reply, HostUnchanged
<1>13. CASE Work
  BY <1>13 DEF Work, Reply, HostUnchanged
<1>14. CASE HostDies \/ HostHangs
  BY <1>14 DEF HostDies, HostHangs
<1>15. CASE UNCHANGED vars
  BY <1>15 DEF vars
<1> QED
  BY <1>1, <1>2, <1>3, <1>4, <1>5, <1>6, <1>7, <1>8, <1>9, <1>10, <1>11, <1>12, <1>13, <1>14, <1>15 DEF Next, Client, Waits, Reader, Host


LEMMA ReturnedMoves ==
  ASSUME Typed, [Next]_vars
  PROVE  Moves(returned, returned', Results)
<1> USE DEF Typed, Flags, Pipes, Results, Returns, NoId, Moves, client, pipes, engine
<1>1. ASSUME NEW o \in Ops, Request(o)
      PROVE  Moves(returned, returned', Results)
  BY <1>1, Fields DEF Request
<1>2. CASE SendAudio
  BY <1>2 DEF SendAudio, Return
<1>3. CASE AudioTooLong
  BY <1>3 DEF AudioTooLong, Return
<1>4. CASE Receive
  BY <1>4, HeadIsOne, Fields DEF Receive, Return
<1>5. CASE Disconnected
  BY <1>5 DEF Disconnected, Return
<1>6. CASE Timeout
  BY <1>6 DEF Timeout, Return, Kill
<1>7. CASE Drop \/ DropKills
  BY <1>7 DEF Drop, DropKills, Kill
<1>8. CASE ClientDies
  BY <1>8 DEF ClientDies
<1>9. CASE ReaderReads \/ ReaderEnds
  BY <1>9 DEF ReaderReads, ReaderEnds
<1>10. CASE TakeFrame
  BY <1>10 DEF TakeFrame, Reply, HostUnchanged
<1>11. CASE TakeAudio
  BY <1>11 DEF TakeAudio, Reply, HostUnchanged
<1>12. CASE EndOfStdin
  BY <1>12 DEF EndOfStdin, Reply, HostUnchanged
<1>13. CASE Work
  BY <1>13 DEF Work, Reply, HostUnchanged
<1>14. CASE HostDies \/ HostHangs
  BY <1>14 DEF HostDies, HostHangs
<1>15. CASE UNCHANGED vars
  BY <1>15 DEF vars
<1> QED
  BY <1>1, <1>2, <1>3, <1>4, <1>5, <1>6, <1>7, <1>8, <1>9, <1>10, <1>11, <1>12, <1>13, <1>14, <1>15 DEF Next, Client, Waits, Reader, Host

LEMMA TypesAreKept ==
  ASSUME Typed, Adjacent, [Next]_vars
  PROVE  Typed'
<1>1. Pipes'
  BY StdinMoves, StdoutMoves, RepliesMove, ReturnedMoves, MovesKeepTheType DEF Typed, Pipes
<1> QED
  BY <1>1, FlagsAreKept, HostIsKept DEF Typed

(* What becomes of the order of the frames when one is written, and when   *)
(* one is taken.                                                           *)
LEMMA AppendAt ==
  ASSUME NEW S, NEW q \in Seq(S), NEW e \in S
  PROVE  /\ Append(q, e) # <<>>
         /\ Len(Append(q, e)) = Len(q) + 1 /\ Append(q, e)[Len(q) + 1] = e
         /\ \A i \in 1..Len(q) : Append(q, e)[i] = q[i]
  OBVIOUS

LEMMA TailAt ==
  ASSUME NEW S, NEW q \in Seq(S), q # <<>>
  PROVE  /\ Len(q) \in Nat /\ Len(q) > 0 /\ Len(Tail(q)) = Len(q) - 1
         /\ \A i \in 1..Len(q) - 1 : Tail(q)[i] = q[i + 1]
         /\ Tail(q) = <<>> <=> Len(q) = 1
<1>1. Len(q) \in Nat /\ Len(q) > 0 /\ Len(Tail(q)) = Len(q) - 1
  OBVIOUS
<1>2. Tail(q) \in Seq(S)
  OBVIOUS
<1>3. Tail(q) = <<>> <=> Len(Tail(q)) = 0
  BY <1>2, EmptySeq
<1>4. \A i \in 1..Len(q) - 1 : Tail(q)[i] = q[i + 1]
  OBVIOUS
<1> QED
  BY <1>1, <1>3, <1>4

LEMMA PairsAfterAppend ==
  ASSUME NEW q \in Seq(Frames), NEW f \in Frames, NEW h, Pairs(q, h),
         f.kind = "audio" => Ends(q, h, f.id)
  PROVE  Pairs(Append(q, f), h)
<1>1. Len(q) \in Nat /\ (q = <<>> <=> Len(q) = 0)
  OBVIOUS
<1> SUFFICES ASSUME NEW i \in 1..Len(q) + 1, Append(q, f)[i].kind = "audio"
             PROVE  IF i = 1 THEN h.pc = "audio" => h.id = Append(q, f)[1].id
                    ELSE Append(q, f)[i - 1] = Frame("json", "transcribe", Append(q, f)[i].id)
  BY AppendAt DEF Pairs
<1>2. CASE i \in 1..Len(q)
  BY <1>1, <1>2, AppendAt DEF Pairs
<1>3. CASE i = Len(q) + 1
  BY <1>1, <1>3, AppendAt DEF Ends
<1> QED
  BY <1>1, <1>2, <1>3

LEMMA PairsAfterTail ==
  ASSUME NEW q \in Seq(Frames), NEW h, NEW g, Pairs(q, h), q # <<>>,
         g.pc = "audio" => g.id = Head(q).id
  PROVE  Pairs(Tail(q), g)
<1> SUFFICES ASSUME NEW i \in 1..Len(q) - 1, q[i + 1].kind = "audio"
             PROVE  IF i = 1 THEN g.pc = "audio" => g.id = q[2].id
                    ELSE Tail(q)[i - 1] = Frame("json", "transcribe", q[i + 1].id)
  BY TailAt DEF Pairs
<1>1. Len(q) \in Nat /\ i + 1 \in 1..Len(q) /\ i + 1 # 1 /\ (i + 1) - 1 = i
  BY TailAt
<1>2. q[i] = Frame("json", "transcribe", q[i + 1].id)
  BY <1>1 DEF Pairs
<1>3. CASE i = 1
  BY <1>2, <1>3, HeadIsFirst DEF Frame
<1>4. CASE i # 1
  BY <1>1, <1>2, <1>4, TailAt
<1> QED
  BY <1>3, <1>4

LEMMA PairsOtherwise ==
  ASSUME NEW q, NEW h, NEW g
  PROVE  /\ Pairs(<<>>, h)
         /\ Pairs(q, h) /\ g.pc # "audio" => Pairs(q, g)
  BY DEF Pairs

LEMMA EndsAfterTail ==
  ASSUME NEW q \in Seq(Frames), NEW h, NEW g, NEW n, Ends(q, h, n), q # <<>>,
         g.pc = "audio" => g.id = Head(q).id
  PROVE  Ends(Tail(q), g, n)
<1>1. Len(q) \in Nat /\ Len(q) > 0 /\ q[Len(q)] = Frame("json", "transcribe", n)
  BY TailAt DEF Ends
<1>2. CASE Len(q) = 1
  BY <1>1, <1>2, TailAt, HeadIsFirst DEF Ends, Frame
<1>3. CASE Len(q) # 1
  BY <1>1, <1>3, TailAt DEF Ends
<1> QED
  BY <1>2, <1>3

(* Every action keeps audio next to its request. *)
LEMMA AdjacentIsKept ==
  ASSUME Typed, Adjacent, [Next]_vars
  PROVE  Adjacent'
<1> USE DEF Adjacent, client, pipes, engine
<1>1. ASSUME NEW o \in Ops, Request(o)
      PROVE  Adjacent'
  <2>1. CASE open /\ Alive
    <3> DEFINE f == Frame("json", o, next_id)
    <3>1. f \in Frames /\ f.kind # "audio" /\ stdin \in Seq(Frames)
      BY Constructors DEF Typed, Flags, Pipes, Names, Frame
    <3>2. Pairs(Append(stdin, f), host)
      BY <3>1, PairsAfterAppend
    <3>3. o = "transcribe" => Ends(Append(stdin, f), host, next_id)
      BY <3>1, AppendAt DEF Ends
    <3> QED
      BY <1>1, <2>1, <3>2, <3>3 DEF Request
  <2>2. CASE ~(open /\ Alive)
    BY <1>1, <2>2 DEF Request
  <2> QED
    BY <2>1, <2>2
<1>2. CASE SendAudio
  <2>1. CASE Alive
    <3> DEFINE f == Frame("audio", "none", id)
    <3>1. f \in Frames /\ f.id = id /\ stdin \in Seq(Frames)
      BY Constructors DEF Typed, Flags, Pipes, Frame
    <3>2. Pairs(Append(stdin, f), host)
      BY <1>2, <3>1, PairsAfterAppend DEF SendAudio
    <3> QED
      BY <1>2, <2>1, <3>2 DEF SendAudio
  <2>2. CASE ~Alive
    BY <1>2, <2>2 DEF SendAudio, Return
  <2> QED
    BY <2>1, <2>2
<1>3. CASE AudioTooLong \/ Receive \/ Disconnected
  BY <1>3 DEF AudioTooLong, Return, Receive, Disconnected
<1>4. CASE Timeout
  BY <1>4, Constructors, PairsOtherwise DEF Timeout, Return, Kill
<1>5. CASE Drop
  <2> DEFINE f == Frame("json", "quit", next_id)
  <2>1. f \in Frames /\ f.kind # "audio" /\ stdin \in Seq(Frames)
    BY Constructors DEF Typed, Flags, Pipes, Names, Frame
  <2>2. Pairs(Append(stdin, f), host)
    BY <2>1, PairsAfterAppend
  <2> QED
    BY <1>5, <2>2 DEF Drop
<1>6. CASE DropKills
  BY <1>6, Constructors, PairsOtherwise DEF DropKills, Kill
<1>7. CASE ClientDies
  <2>1. Torn \in Frames /\ Torn.kind # "audio" /\ stdin \in Seq(Frames)
    BY Constructors DEF Typed, Pipes, Torn, Frame
  <2>2. Pairs(Append(stdin, Torn), host)
    BY <2>1, PairsAfterAppend
  <2> QED
    BY <1>7, <2>2 DEF ClientDies
<1>8. CASE ReaderReads \/ ReaderEnds
  BY <1>8 DEF ReaderReads, ReaderEnds
<1>9. CASE TakeFrame
  <2>1. stdin \in Seq(Frames) /\ stdin # <<>> /\ stdin' = Tail(stdin) /\ at' = at /\ id' = id
    BY <1>9 DEF TakeFrame, HostUnchanged, Typed, Pipes
  <2>2. host'.pc = "audio" => host'.id = Head(stdin).id
    <3>1. \/ host' = Loop \/ host' = Dead
          \/ host' = Step("work", Head(stdin).id, Head(stdin).op, Head(stdin).id)
          \/ host' = Step("audio", Head(stdin).id, Head(stdin).op, NoId)
      BY <1>9 DEF TakeFrame, Reply
    <3> QED
      BY <3>1, Constructors DEF Step
  <2>3. Pairs(stdin', host')
    BY <2>1, <2>2, PairsAfterTail
  <2>4. at = "audio" => Ends(stdin', host', id)
    BY <2>1, <2>2, EndsAfterTail
  <2> QED
    BY <2>1, <2>3, <2>4
<1>10. CASE TakeAudio
  <2>1. stdin \in Seq(Frames) /\ stdin # <<>> /\ stdin' = Tail(stdin) /\ at' = at /\ id' = id
    BY <1>10 DEF TakeAudio, HostUnchanged, Typed, Pipes
  <2>2. host'.pc = "audio" => host'.id = Head(stdin).id
    <3>1. \/ host' = Loop \/ host' = Dead
          \/ host' = [host EXCEPT !.pc = "work", !.heard = Head(stdin).id]
      BY <1>10 DEF TakeAudio, Reply
    <3>2. host \in Steps
      BY DEF Typed, Engine
    <3>3. [host EXCEPT !.pc = "work", !.heard = Head(stdin).id].pc = "work"
      BY <3>2 DEF Steps
    <3> QED
      BY <3>1, <3>3, Constructors
  <2>3. Pairs(stdin', host')
    BY <2>1, <2>2, PairsAfterTail
  <2>4. at = "audio" => Ends(stdin', host', id)
    BY <2>1, <2>2, EndsAfterTail
  <2> QED
    BY <2>1, <2>3, <2>4
<1>11. CASE EndOfStdin
  BY <1>11, Constructors, PairsOtherwise DEF EndOfStdin, Reply, HostUnchanged, Ends
<1>12. CASE Work
  BY <1>12, Constructors, PairsOtherwise DEF Work, Reply, HostUnchanged, Ends
<1>13. CASE HostDies
  BY <1>13, Constructors, PairsOtherwise DEF HostDies, Ends
<1>14. CASE HostHangs
  BY <1>14 DEF HostHangs
<1>15. CASE UNCHANGED vars
  BY <1>15 DEF vars
<1> QED
  BY <1>1, <1>2, <1>3, <1>4, <1>5, <1>6, <1>7, <1>8, <1>9, <1>10, <1>11, <1>12, <1>13, <1>14, <1>15 DEF Next, Client, Waits, Reader, Host

(* What was out of order stays so. *)
LEMMA SoundWasSound ==
  ASSUME Flags, Flags', Sound', [Next]_vars
  PROVE  Sound
<1> USE DEF Flags, Sound, Alive, client, pipes, engine
<1>1. ASSUME NEW o \in Ops, Request(o)
      PROVE  Sound
  BY <1>1 DEF Request
<1>2. CASE SendAudio
  BY <1>2 DEF SendAudio, Return
<1>3. CASE AudioTooLong
  BY <1>3 DEF AudioTooLong, Return
<1>4. CASE Receive \/ Disconnected
  BY <1>4 DEF Receive, Return, Disconnected
<1>5. CASE Timeout
  BY <1>5 DEF Timeout, Return, Kill
<1>6. CASE Drop
  BY <1>6 DEF Drop
<1>7. CASE DropKills
  BY <1>7 DEF DropKills, Kill
<1>8. CASE ClientDies
  BY <1>8 DEF ClientDies
<1>9. CASE ReaderReads
  BY <1>9 DEF ReaderReads
<1>10. CASE ReaderEnds
  BY <1>10 DEF ReaderEnds
<1>11. CASE TakeFrame
  BY <1>11 DEF TakeFrame, Reply, HostUnchanged, Runs, Alive
<1>12. CASE TakeAudio
  BY <1>12 DEF TakeAudio, Reply, HostUnchanged, Runs, Alive
<1>13. CASE EndOfStdin
  BY <1>13 DEF EndOfStdin, Reply, HostUnchanged, Runs, Alive
<1>14. CASE Work
  BY <1>14 DEF Work, Reply, HostUnchanged, Runs, Alive
<1>15. CASE HostDies
  BY <1>15 DEF HostDies
<1>16. CASE HostHangs
  BY <1>16 DEF HostHangs
<1>17. CASE UNCHANGED vars
  BY <1>17 DEF vars
<1> QED
  BY <1>1, <1>2, <1>3, <1>4, <1>5, <1>6, <1>7, <1>8, <1>9, <1>10, <1>11, <1>12, <1>13, <1>14, <1>15, <1>16, <1>17 DEF Next, Client, Waits, Reader, Host

(* Queues of one or two messages. *)
LEMMA ShortQueues ==
  /\ \A f : Append(<<>>, f) = <<f>> /\ Head(<<f>>) = f /\ Tail(<<f>>) = <<>> /\ <<f>> # <<>>
  /\ \A f, g : /\ Append(<<f>>, g) = <<f, g>> /\ <<f, g>> # <<>>
              /\ Head(<<f, g>>) = f /\ Tail(<<f, g>>) = <<g>>
<1>1. \A f : Append(<<>>, f) = <<f>> /\ Head(<<f>>) = f /\ Tail(<<f>>) = <<>> /\ <<f>> # <<>>
  OBVIOUS
<1>2. \A f, g : Append(<<f>>, g) = <<f, g>> /\ <<f, g>> # <<>>
  <2> SUFFICES ASSUME NEW f, NEW g PROVE Append(<<f>>, g) = <<f, g>>
    OBVIOUS
  <2>1. <<f>> \in Seq({f, g}) /\ <<f, g>> \in Seq({f, g}) /\ Append(<<f>>, g) \in Seq({f, g})
    OBVIOUS
  <2>2. Len(Append(<<f>>, g)) = 2 /\ Append(<<f>>, g)[1] = f /\ Append(<<f>>, g)[2] = g
    OBVIOUS
  <2>3. Len(<<f, g>>) = 2 /\ <<f, g>>[1] = f /\ <<f, g>>[2] = g
    OBVIOUS
  <2>4. \A i \in 1..2 : Append(<<f>>, g)[i] = <<f, g>>[i]
    BY <2>2, <2>3
  <2> QED
    BY <2>1, <2>2, <2>3, <2>4, SeqEqual, Zenon
<1>3. \A f, g : Head(<<f, g>>) = f
  OBVIOUS
<1>4. \A f, g : Tail(<<f, g>>) = <<g>>
  OBVIOUS
<1> QED
  BY <1>1, <1>2, <1>3, <1>4

(* The kinds by which frames, answers and steps are told apart. *)
LEMMA Kinds ==
  /\ \A o, n : /\ Frame("json", o, n).kind = "json" /\ Frame("json", o, n).op = o
              /\ Frame("json", o, n).id = n
  /\ \A n : Frame("audio", "none", n).kind = "audio" /\ Frame("audio", "none", n).id = n
  /\ \A m \in Answers : m.kind = "json"
  /\ \A n \in Nat, ok \in BOOLEAN : Response(n, ok, n) \in Answers /\ Response(n, ok, n).id = n
  /\ \A pc, n, o, h : Step(pc, n, o, h).pc = pc /\ Step(pc, n, o, h).id = n
  /\ Loop.pc = "loop" /\ Dead.pc = "dead"
  BY DEF Frame, Answers, Response, Step, Loop, Dead

(* Every step of the client keeps the request in its way. *)
LEMMA ClientKeepsTheWay ==
  ASSUME Typed, Sound, Stage, Sound', Client
  PROVE  Stage'
<1> USE DEF Stage, Sound, client, pipes, engine
<1>1. ASSUME NEW o \in Ops, Request(o)
      PROVE  Stage'
  <2>1. stdin' = <<Frame("json", o, next_id)>> /\ id' = next_id
    BY <1>1, ShortQueues DEF Request, Quietly
  <2>2. Asked(o)' /\ stdout' = <<>> /\ replies' = <<>>
    BY <1>1, <2>1 DEF Request, Asked, Quietly
  <2>3. CASE o = "transcribe"
    BY <1>1, <2>2, <2>3 DEF Request
  <2>4. CASE o \in {"hello", "load"}
    <3>1. InWay'
      BY <2>2, <2>4 DEF InWay
    <3> QED
      BY <1>1, <2>4, <3>1 DEF Request
  <2> QED
    BY <2>3, <2>4 DEF Ops
<1>2. CASE SendAudio
  <2>1. stdin' = Append(stdin, Frame("audio", "none", id)) /\ at' = "wait" /\ id' = id /\ host' = host
    BY <1>2 DEF SendAudio
  <2>2. stdout' = <<>> /\ replies' = <<>>
    BY <1>2 DEF SendAudio
  <2>3. CASE Asked("transcribe")
    <3>1. InWay'
      BY <2>1, <2>2, <2>3, ShortQueues DEF InWay, Asked
    <3> QED
      BY <2>1, <3>1
  <2>4. CASE stdin = <<>> /\ Awaits
    <3>1. InWay'
      BY <2>1, <2>2, <2>4, ShortQueues DEF InWay, Awaits
    <3> QED
      BY <2>1, <3>1
  <2> QED
    BY <1>2, <2>3, <2>4 DEF SendAudio
<1>3. CASE Receive
  <2>1. PICK m \in Answers : stdin = <<>> /\ host = Loop /\ m.id = id /\ stdout = <<>> /\ replies = <<m>>
    BY <1>3 DEF Receive, InWay, Quietly
  <2>2. Head(replies) = m /\ replies' = <<>> /\ m.kind = "json"
    BY <1>3, <2>1, ShortQueues, Kinds DEF Receive
  <2>3. at' = "idle"
    BY <1>3, <2>1, <2>2 DEF Receive, Return
  <2> QED
    BY <1>3, <2>1, <2>2, <2>3 DEF Receive, Quietly
<1>4. CASE AudioTooLong \/ Disconnected \/ Timeout \/ Drop \/ DropKills \/ ClientDies
  BY <1>4 DEF AudioTooLong, Disconnected, Timeout, Drop, DropKills, ClientDies, Kill
<1> QED
  BY <1>1, <1>2, <1>3, <1>4 DEF Client, Waits

(* So does the thread that reads. *)
LEMMA ReaderKeepsTheWay ==
  ASSUME Typed, Sound, Stage, Sound', Reader
  PROVE  Stage'
<1> USE DEF Stage, Sound, client, pipes, engine
<1>1. CASE ReaderReads
  <2>1. stdout # <<>> /\ at' = at
    BY <1>1 DEF ReaderReads
  <2>2. CASE at = "wait"
    <3>1. PICK m \in Answers : stdin = <<>> /\ host = Loop /\ m.id = id /\ stdout = <<m>> /\ replies = <<>>
      BY <2>1, <2>2 DEF InWay, Quietly
    <3>2. stdout' = <<>> /\ replies' = <<m>> /\ stdin' = <<>> /\ host' = Loop /\ id' = id
      BY <1>1, <3>1, ShortQueues DEF ReaderReads
    <3>3. InWay'
      BY <3>1, <3>2 DEF InWay
    <3> QED
      BY <2>1, <2>2, <3>3
  <2>3. CASE at # "wait"
    BY <2>1, <2>3 DEF Quietly
  <2> QED
    BY <2>2, <2>3
<1>2. CASE ReaderEnds
  BY <1>2 DEF ReaderEnds
<1> QED
  BY <1>1, <1>2 DEF Reader

(* So does the host. *)
LEMMA HostKeepsTheWay ==
  ASSUME Typed, Sound, Stage, Sound', Host
  PROVE  Stage'
<1> USE DEF Stage, Sound, client, pipes, engine
<1>1. CASE TakeFrame
  <2>1. /\ stdin # <<>> /\ host.pc = "loop" /\ stdin' = Tail(stdin)
        /\ at' = at /\ id' = id /\ replies' = replies
    BY <1>1 DEF TakeFrame, HostUnchanged
  <2>2. CASE at = "audio"
    <3>1. Asked("transcribe") /\ stdout = <<>> /\ replies = <<>>
      BY <2>1, <2>2
    <3>2. stdin' = <<>> /\ Head(stdin) = Frame("json", "transcribe", id)
      BY <2>1, <3>1, ShortQueues DEF Asked
    <3>0. Head(stdin).kind = "json" /\ Head(stdin).id = id /\ Head(stdin).op = "transcribe"
      BY <3>2, Kinds
    <3>3. host' = Step("audio", id, "transcribe", NoId) /\ stdout' = stdout
      BY <1>1, <3>0 DEF TakeFrame
    <3> QED
      BY <2>1, <2>2, <3>1, <3>2, <3>3 DEF Awaits
  <2>3. ASSUME at = "wait", NEW o \in {"hello", "load"}, Asked(o), stdout = <<>>, replies = <<>>
        PROVE  Stage'
    <3>1. stdin' = <<>> /\ Head(stdin) = Frame("json", o, id)
      BY <2>1, <2>3, ShortQueues DEF Asked
    <3>0. Head(stdin).kind = "json" /\ Head(stdin).id = id /\ Head(stdin).op = o
      BY <3>1, Kinds
    <3>2. host' = Step("work", id, o, id) /\ stdout' = stdout
      BY <1>1, <2>3, <3>0 DEF TakeFrame
    <3>3. InWay'
      BY <2>1, <2>3, <3>1, <3>2, Kinds DEF InWay, Quietly
    <3> QED
      BY <2>1, <2>3, <3>3
  <2>4. CASE /\ at = "wait" /\ stdout = <<>> /\ replies = <<>>
             /\ stdin = <<Frame("json", "transcribe", id), Frame("audio", "none", id)>>
    <3>1. stdin' = <<Frame("audio", "none", id)>> /\ Head(stdin) = Frame("json", "transcribe", id)
      BY <2>1, <2>4, ShortQueues
    <3>0. Head(stdin).kind = "json" /\ Head(stdin).id = id /\ Head(stdin).op = "transcribe"
      BY <3>1, Kinds
    <3>2. host' = Step("audio", id, "transcribe", NoId) /\ stdout' = stdout
      BY <1>1, <3>0 DEF TakeFrame
    <3>3. InWay'
      BY <2>1, <2>4, <3>1, <3>2 DEF InWay, Awaits
    <3> QED
      BY <2>1, <2>4, <3>3
  <2>5. at = "wait" /\ InWay =>
          \/ \E o \in {"hello", "load"} : Asked(o) /\ stdout = <<>> /\ replies = <<>>
          \/ /\ stdout = <<>> /\ replies = <<>>
             /\ stdin = <<Frame("json", "transcribe", id), Frame("audio", "none", id)>>
    BY <2>1, Kinds DEF InWay, Awaits, Quietly
  <2>6. at # "idle"
    BY <2>1 DEF Quietly
  <2> QED
    BY <2>1, <2>2, <2>3, <2>4, <2>5, <2>6
<1>2. CASE TakeAudio
  <2>1. stdin # <<>> /\ host.pc = "audio" /\ stdin' = Tail(stdin) /\ at' = at /\ id' = id /\ replies' = replies
    BY <1>2 DEF TakeAudio, HostUnchanged
  <2>2. CASE at = "wait"
    <3>1. stdout = <<>> /\ replies = <<>> /\ Awaits /\ stdin = <<Frame("audio", "none", id)>>
      BY <2>1, <2>2, Kinds DEF InWay, Quietly, Asked
    <3>2. stdin' = <<>> /\ Head(stdin) = Frame("audio", "none", id)
      BY <2>1, <3>1, ShortQueues
    <3>0. Head(stdin).kind = "audio" /\ Head(stdin).id = id
      BY <3>2, Kinds
    <3>3. stdout' = stdout /\ host' = [host EXCEPT !.pc = "work", !.heard = Head(stdin).id]
      BY <1>2, <3>0 DEF TakeAudio
    <3>4. host'.pc = "work" /\ host'.id = id
      BY <3>1, <3>3 DEF Awaits, Step
    <3>5. InWay'
      BY <2>1, <3>1, <3>2, <3>3, <3>4 DEF InWay, Quietly
    <3> QED
      BY <2>1, <2>2, <3>5
  <2>3. at # "idle" /\ at # "audio"
    BY <2>1, Kinds DEF Quietly, Asked
  <2> QED
    BY <2>1, <2>2, <2>3
<1>3. CASE EndOfStdin
  BY <1>3 DEF EndOfStdin
<1>4. CASE Work
  <2>1. host.pc = "work" /\ stdin' = stdin /\ at' = at /\ id' = id /\ replies' = replies
    BY <1>4 DEF Work, HostUnchanged
  <2>2. CASE at = "wait"
    <3>1. Quietly /\ host.id = id
      BY <2>1, <2>2, Kinds DEF InWay, Asked, Awaits
    <3>2. PICK ok \in BOOLEAN : host' = Loop /\ stdout' = Append(stdout, Response(id, ok, host.heard))
      BY <1>4, <2>2, <3>1 DEF Work, Reply
    <3>3. host.heard = id /\ id \in Nat
      BY <2>1, <3>1 DEF Typed, Engine, Flags
    <3>4. stdout' = <<Response(id, ok, id)>>
      BY <3>1, <3>2, <3>3, ShortQueues DEF Quietly
    <3>5. Response(id, ok, id) \in Answers /\ Response(id, ok, id).id = id
      BY <3>3, Kinds
    <3>6. InWay'
      BY <2>1, <3>1, <3>2, <3>4, <3>5 DEF InWay, Quietly
    <3> QED
      BY <2>1, <2>2, <3>6
  <2>3. at # "idle" /\ at # "audio"
    BY <2>1, Kinds DEF Asked, Awaits
  <2> QED
    BY <2>1, <2>2, <2>3
<1> QED
  BY <1>1, <1>2, <1>3, <1>4 DEF Host

LEMMA WayIsKept ==
  ASSUME Typed, Under, [Next]_vars
  PROVE  Under'
<1> SUFFICES ASSUME Sound' PROVE Stage'
  BY DEF Under
<1>1. Sound /\ Stage
  BY SoundWasSound, FlagsAreKept DEF Under, Typed
<1>2. CASE HostDies
  BY <1>2 DEF HostDies, Sound, Alive
<1>3. CASE HostHangs \/ UNCHANGED vars
  BY <1>1, <1>3 DEF HostHangs, vars, client, pipes, engine, Stage, InWay, Quietly, Asked, Awaits
<1> QED
  BY <1>1, <1>2, <1>3, ClientKeepsTheWay, ReaderKeepsTheWay, HostKeepsTheWay DEF Next

-----------------------------------------------------------------------------
(* In every state an answer is about what it answers, audio follows its    *)
(* request, and what is under way in pipes that work is where the client,  *)
(* which waits for it, takes it to be.                                     *)
THEOREM HostInvHolds == Spec => []HostInv
<1>1. Init => HostInv
  <2> SUFFICES ASSUME Init PROVE HostInv
    OBVIOUS
  <2>1. Typed
    BY Constructors, EmptySeq DEF Init, Typed, Flags, Ats, Names, Ops, Pipes, Engine, NoId
  <2>2. Adjacent
    BY PairsOtherwise DEF Init, Adjacent
  <2>3. Under
    BY DEF Init, Under, Stage, Quietly
  <2> QED
    BY <2>1, <2>2, <2>3 DEF HostInv
<1>2. HostInv /\ [Next]_vars => HostInv'
  BY TypesAreKept, AdjacentIsKept, WayIsKept DEF HostInv
<1> QED
  BY <1>1, <1>2, PTL DEF Spec

(* host.rs:272-277 with main.rs:166-172: whatever crashes, hangs or comes  *)
(* late, a request returns the answer to itself, and while the process and *)
(* its pipes are sound nothing is left over between two requests.          *)
THEOREM EngineAnswersHolds == Spec => []EngineAnswers
<1>1. HostInv => AnswersAreTheirOwn
  BY DEF HostInv, Typed, Pipes, Results, AnswersAreTheirOwn
<1>2. HostInv => StreamsInStep
  BY DEF HostInv, Under, Sound, Stage, Quietly, StreamsInStep
<1> QED
  BY <1>1, <1>2, HostInvHolds, PTL DEF EngineAnswers
=============================================================================
