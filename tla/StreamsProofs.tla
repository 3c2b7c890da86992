---------------------------- MODULE StreamsProofs ---------------------------
(***************************************************************************)
(* What is proved of the download and of the engine process, stated for    *)
(* the behaviours of either that MCStreams lets TLC run.                   *)
(*                                                                         *)
(* The download, for any size, number of programs and number of faults,    *)
(* while one program fetches at a time.  That the final name is only ever  *)
(* the model's is not inductive: the file a fetch writes to has to be      *)
(* known not to be the one that has the final name, and the file that is   *)
(* about to be renamed to be the one whose hash was right.                 *)
(*                                                                         *)
(* The engine process: HP is the same component as H, with its theorems.   *)
(* An instance has its definitions to itself, so that the two are shown to *)
(* say the same, action by action, before what is proved of the one is     *)
(* used for the other.                                                     *)
(***************************************************************************)
EXTENDS MCStreams, TLAPS

HP == INSTANCE HostProcessProofs WITH MaxFaults <- MaxEngineFaults, faults <- host_faults

-----------------------------------------------------------------------------
(* The download.                                                           *)
LEMMA TheDownloadSteps == [StreamsNext]_streams => [D!Next]_(D!vars)
BY DEF StreamsNext, Downloading, Asking, streams, fetching, D!vars, D!disk, D!program

(* The files the names point to exist, and are different ones. *)
Names ==
  /\ created \in 0..(MaxDownloadFaults + 2)
  /\ partial \in 0..created /\ final \in 0..created
  /\ partial # D!NoFile => partial # final
  /\ DOMAIN content = D!Files

Turns == \A c, d \in Programs : c # d => pc[c] = "idle" \/ pc[d] = "idle"

(* What a program that is under way knows of its file. *)
Writing(c) == pc[c] = "read" => handle[c] = partial /\ partial # D!NoFile
Hashed(c)  == pc[c] = "rename" => partial # D!NoFile /\ content[partial] = D!Model

Progress ==
  /\ pc \in [Programs -> {"idle", "request", "read", "settle", "rename"}]
  /\ DOMAIN handle = Programs
  /\ \A c \in Programs : Writing(c) /\ Hashed(c)

DownInv == Names /\ Turns /\ Progress /\ D!NamedOnlyWhole

-----------------------------------------------------------------------------
(* A program that is under way is the only one. *)
LEMMA OthersAreIdle ==
  ASSUME Turns, NEW c \in Programs, pc[c] # "idle"
  PROVE  \A d \in Programs \ {c} : pc[d] = "idle"
BY DEF Turns

(* The step of one program, once its own part of the invariant is known. *)
LEMMA StepOfOne ==
  ASSUME NEW c \in Programs, pc \in [Programs -> {"idle", "request", "read", "settle", "rename"}],
         DOMAIN handle = Programs,
         \A d \in Programs \ {c} : pc[d] = "idle",
         NEW p \in {"idle", "request", "read", "settle", "rename"}, pc' = [pc EXCEPT ![c] = p],
         handle' = handle \/ \E f : handle' = [handle EXCEPT ![c] = f],
         Writing(c)', Hashed(c)'
  PROVE  Turns' /\ Progress'
<1>1. \A d \in Programs \ {c} : pc'[d] = "idle"
  OBVIOUS
<1>2. Turns'
  BY <1>1 DEF Turns
<1>3. \A d \in Programs : Writing(d)' /\ Hashed(d)'
  BY <1>1 DEF Writing, Hashed
<1> QED
  BY <1>2, <1>3 DEF Progress

LEMMA EndSteps ==
  ASSUME MaxDownloadFaults \in Nat, DownInv, NEW c \in Programs, NEW how, D!End(c, how),
         \A d \in Programs \ {c} : pc[d] = "idle"
  PROVE  Turns' /\ Progress'
<1>1. pc'[c] = "idle"
  BY DEF DownInv, Progress, D!End
<1>2. Writing(c)' /\ Hashed(c)'
  BY <1>1 DEF Writing, Hashed
<1> QED
  BY <1>2, StepOfOne DEF DownInv, Progress, D!End

LEMMA EndsOverTheSameDisk ==
  ASSUME MaxDownloadFaults \in Nat, DownInv, NEW c \in Programs, NEW how, D!End(c, how), UNCHANGED D!disk,
         \A d \in Programs \ {c} : pc[d] = "idle"
  PROVE  DownInv'
<1>1. Turns' /\ Progress'
  BY EndSteps
<1>2. Names' /\ D!NamedOnlyWhole'
  BY DEF DownInv, Names, D!NamedOnlyWhole, D!disk, D!Model, D!Whole, D!Lengths, D!Files
<1> QED
  BY <1>1, <1>2 DEF DownInv

LEMMA EndsWithoutThePart ==
  ASSUME MaxDownloadFaults \in Nat, DownInv, NEW c \in Programs, NEW how, D!End(c, how), D!Unlink,
         \A d \in Programs \ {c} : pc[d] = "idle"
  PROVE  DownInv'
<1>1. Turns' /\ Progress'
  BY EndSteps
<1>2. Names' /\ D!NamedOnlyWhole'
  BY DEF DownInv, Names, D!NamedOnlyWhole, D!Unlink, D!Model, D!NoFile
<1> QED
  BY <1>1, <1>2 DEF DownInv

-----------------------------------------------------------------------------
LEMMA EnsureSteps ==
  ASSUME MaxDownloadFaults \in Nat, ~Overlap, DownInv, NEW c \in Programs, D!Ensure(c)
  PROVE  DownInv'
<1>1. \A d \in Programs \ {c} : pc[d] = "idle"
  BY DEF D!Ensure, D!Alone
<1>2. CASE D!End(c, "here")
  BY <1>1, <1>2, EndsOverTheSameDisk DEF D!Ensure
<1>3. CASE ~D!End(c, "here")
  <2>1. PICK p \in {"settle", "request"} : pc' = [pc EXCEPT ![c] = p]
    BY <1>3 DEF D!Ensure, D!Goto
  <2>2. pc'[c] = p
    BY <2>1 DEF DownInv, Progress
  <2>3. Writing(c)' /\ Hashed(c)'
    BY <2>2 DEF Writing, Hashed
  <2>4. handle' = handle /\ UNCHANGED D!disk
    BY <1>3 DEF D!Ensure
  <2>5. Turns' /\ Progress'
    BY <1>1, <2>1, <2>3, <2>4, StepOfOne DEF DownInv, Progress
  <2> QED
    BY <2>4, <2>5 DEF DownInv, Names, D!NamedOnlyWhole, D!disk, D!Model
<1> QED
  BY <1>2, <1>3

(* The file that is written to is not the one with the final name. *)
LEMMA CreateSteps ==
  ASSUME MaxDownloadFaults \in Nat, DownInv, NEW c \in Programs, D!Create(c),
         partial # D!NoFile \/ created + 1 \in D!Files
  PROVE  /\ Names' /\ D!NamedOnlyWhole'
         /\ partial' # D!NoFile
         /\ handle' = [handle EXCEPT ![c] = partial']
<1> DEFINE file == IF partial = D!NoFile THEN created + 1 ELSE partial
<1>1. file \in D!Files /\ file # final /\ file # D!NoFile
  BY DEF DownInv, Names, D!Files, D!NoFile
<1>2. /\ partial' = file /\ final' = final /\ content' = [content EXCEPT ![file] = <<>>]
      /\ created' = IF partial = D!NoFile THEN file ELSE created
      /\ handle' = [handle EXCEPT ![c] = file]
  BY DEF D!Create
<1>3. Names'
  BY <1>1, <1>2 DEF DownInv, Names, D!Files, D!NoFile
<1>4. D!NamedOnlyWhole'
  <2>1. final # D!NoFile => final \in D!Files
    BY DEF DownInv, Names, D!Files, D!NoFile
  <2>2. final # D!NoFile => content'[final] = content[final]
    BY <1>1, <1>2, <2>1 DEF DownInv, Names
  <2> QED
    BY <1>2, <2>2 DEF DownInv, D!NamedOnlyWhole, D!Model
<1> QED
  BY <1>1, <1>2, <1>3, <1>4

LEMMA AnswerSteps ==
  ASSUME MaxDownloadFaults \in Nat, DownInv, NEW c \in Programs, D!Answer(c)
  PROVE  DownInv'
<1>1. pc[c] = "request"
  BY DEF D!Answer, D!Whole200, D!Partial206, D!Unsatisfiable416
<1>2. \A d \in Programs \ {c} : pc[d] = "idle"
  BY <1>1, OthersAreIdle DEF DownInv
<1>3. ASSUME pc' = [pc EXCEPT ![c] = "read"], partial' # D!NoFile, handle' = [handle EXCEPT ![c] = partial']
      PROVE  Turns' /\ Progress'
  <2>1. pc'[c] = "read" /\ handle'[c] = partial'
    BY <1>3 DEF DownInv, Progress
  <2>2. Writing(c)' /\ Hashed(c)'
    BY <1>3, <2>1 DEF Writing, Hashed
  <2> QED
    BY <1>2, <1>3, <2>2, StepOfOne DEF DownInv, Progress
<1>4. CASE D!Whole200(c)
  BY <1>3, <1>4, CreateSteps DEF D!Whole200, D!Serves, D!Goto, DownInv
<1>5. CASE D!Partial206(c)
  <2>1. CASE partial # D!NoFile
    <3>1. UNCHANGED D!disk /\ handle' = [handle EXCEPT ![c] = partial] /\ pc' = [pc EXCEPT ![c] = "read"]
      BY <1>5, <2>1 DEF D!Partial206, D!Reopen, D!Serves, D!Goto
    <3>2. Turns' /\ Progress'
      BY <1>3, <2>1, <3>1 DEF D!disk
    <3> QED
      BY <3>1, <3>2 DEF DownInv, Names, D!NamedOnlyWhole, D!disk, D!Model
  <2>2. CASE partial = D!NoFile
    BY <1>2, <1>5, <2>2, EndsOverTheSameDisk DEF D!Partial206
  <2> QED
    BY <2>1, <2>2
<1>6. CASE D!Unsatisfiable416(c)
  BY <1>2, <1>6, EndsOverTheSameDisk, EndsWithoutThePart DEF D!Unsatisfiable416
<1> QED
  BY <1>4, <1>5, <1>6 DEF D!Answer

LEMMA ChunkSteps ==
  ASSUME MaxDownloadFaults \in Nat, DownInv, NEW c \in Programs, D!Chunk(c)
  PROVE  DownInv'
<1>1. pc[c] = "read" /\ handle[c] = partial /\ partial # D!NoFile
  BY DEF D!Chunk, DownInv, Progress, Writing
<1>2. PICK x : content' = [content EXCEPT ![partial] = x]
  BY <1>1 DEF D!Chunk
<1>3. UNCHANGED <<partial, final, created, pc, handle>>
  BY DEF D!Chunk
<1>4. \A d \in Programs \ {c} : pc[d] = "idle"
  BY <1>1, OthersAreIdle DEF DownInv
<1>5. Names'
  BY <1>2, <1>3 DEF DownInv, Names
<1>6. D!NamedOnlyWhole'
  <2>1. final # D!NoFile => final \in D!Files /\ final # partial
    BY <1>1 DEF DownInv, Names, D!Files, D!NoFile
  <2> QED
    BY <1>2, <1>3, <2>1 DEF DownInv, Names, D!NamedOnlyWhole, D!Model
<1>7. Turns' /\ Progress'
  BY <1>1, <1>3, <1>4 DEF DownInv, Turns, Progress, Writing, Hashed
<1> QED
  BY <1>5, <1>6, <1>7 DEF DownInv

LEMMA BodyEndsSteps ==
  ASSUME MaxDownloadFaults \in Nat, DownInv, NEW c \in Programs, D!BodyEnds(c)
  PROVE  DownInv'
<1>1. pc[c] = "read" /\ pc' = [pc EXCEPT ![c] = "settle"] /\ handle' = [handle EXCEPT ![c] = D!NoFile]
      /\ UNCHANGED D!disk
  BY DEF D!BodyEnds, D!Goto
<1>2. pc'[c] = "settle"
  BY <1>1 DEF DownInv, Progress
<1>3. Turns' /\ Progress'
  BY <1>1, <1>2, StepOfOne, OthersAreIdle DEF DownInv, Progress, Writing, Hashed
<1> QED
  BY <1>1, <1>3 DEF DownInv, Names, D!NamedOnlyWhole, D!disk, D!Model

LEMMA SettleSteps ==
  ASSUME MaxDownloadFaults \in Nat, DownInv, NEW c \in Programs, D!Settle(c)
  PROVE  DownInv'
<1>1. pc[c] = "settle"
  BY DEF D!Settle
<1>2. \A d \in Programs \ {c} : pc[d] = "idle"
  BY <1>1, OthersAreIdle DEF DownInv
<1>3. CASE partial # D!NoFile /\ content[partial] = D!Model
  <2>1. pc' = [pc EXCEPT ![c] = "rename"] /\ handle' = handle /\ UNCHANGED D!disk
    BY <1>3 DEF D!Settle, D!Goto
  <2>2. pc'[c] = "rename"
    BY <2>1 DEF DownInv, Progress
  <2>3. Writing(c)' /\ Hashed(c)'
    BY <1>3, <2>1, <2>2 DEF Writing, Hashed, D!disk, D!Model
  <2>4. Turns' /\ Progress'
    BY <1>2, <2>1, <2>3, StepOfOne DEF DownInv, Progress
  <2> QED
    BY <2>1, <2>4 DEF DownInv, Names, D!NamedOnlyWhole, D!disk, D!Model
<1>4. CASE ~(partial # D!NoFile /\ content[partial] = D!Model)
  BY <1>2, <1>4, EndsOverTheSameDisk, EndsWithoutThePart DEF D!Settle
<1> QED
  BY <1>3, <1>4

LEMMA RenameSteps ==
  ASSUME MaxDownloadFaults \in Nat, DownInv, NEW c \in Programs, D!Rename(c)
  PROVE  DownInv'
<1>1. pc[c] = "rename" /\ partial # D!NoFile /\ content[partial] = D!Model
  BY DEF D!Rename, DownInv, Progress, Hashed
<1>2. \A d \in Programs \ {c} : pc[d] = "idle"
  BY <1>1, OthersAreIdle DEF DownInv
<1>3. CASE D!End(c, "io") /\ UNCHANGED D!disk
  BY <1>2, <1>3, EndsOverTheSameDisk
<1>4. CASE /\ D!End(c, "fetched")
           /\ final' = partial /\ partial' = D!NoFile /\ UNCHANGED <<content, created>>
  <2>1. Turns' /\ Progress'
    BY <1>2, <1>4, EndSteps
  <2>2. Names' /\ D!NamedOnlyWhole'
    BY <1>1, <1>4 DEF DownInv, Names, D!NamedOnlyWhole, D!Model, D!NoFile
  <2> QED
    BY <2>1, <2>2 DEF DownInv
<1> QED
  BY <1>1, <1>3, <1>4 DEF D!Rename

LEMMA DownInvHoldsAtFirst ==
  ASSUME MaxDownloadFaults \in Nat, D!Init
  PROVE  DownInv
BY DEF D!Init, DownInv, Names, Turns, Progress, Writing, Hashed, D!NamedOnlyWhole, D!NoFile, D!Files

LEMMA EveryStep ==
  ASSUME MaxDownloadFaults \in Nat, ~Overlap, DownInv, [D!Next]_(D!vars)
  PROVE  DownInv'
<1>1. CASE UNCHANGED D!vars
  BY <1>1 DEF D!vars, D!disk, D!program, DownInv, Names, Turns, Progress, Writing, Hashed, D!NamedOnlyWhole, D!Model
<1>2. ASSUME NEW c \in Programs, D!Fetch(c)
      PROVE  DownInv'
  BY <1>2, EnsureSteps, AnswerSteps, ChunkSteps, BodyEndsSteps, SettleSteps, RenameSteps DEF D!Fetch
<1>3. ASSUME NEW c \in Programs, D!Breaks(c) \/ D!Stop(c) \/ D!Crash(c)
      PROVE  DownInv'
  <2>1. pc[c] # "idle"
    BY <1>3 DEF D!Breaks, D!Stop, D!Crash
  <2>2. \A d \in Programs \ {c} : pc[d] = "idle"
    BY <2>1, OthersAreIdle DEF DownInv
  <2> QED
    BY <1>3, <2>2, EndsOverTheSameDisk DEF D!Breaks, D!Stop, D!Crash
<1> QED
  BY <1>1, <1>2, <1>3 DEF D!Next

(* download.rs rule 1: nothing that is not the pinned model, whole, gets   *)
(* the final name, whatever the host sends and whatever fails when, while  *)
(* the application and the command line do not fetch at the same time.     *)
THEOREM OnlyTheModelIsNamed ==
  ASSUME MaxDownloadFaults \in Nat, ~Overlap
  PROVE  StreamsSpec => []D!NamedOnlyWhole
<1>1. StreamsInit => DownInv
  BY DownInvHoldsAtFirst DEF StreamsInit
<1>2. DownInv /\ [StreamsNext]_streams => DownInv'
  BY EveryStep, TheDownloadSteps
<1>3. DownInv => D!NamedOnlyWhole
  BY DEF DownInv
<1> QED
  BY <1>1, <1>2, <1>3, PTL DEF StreamsSpec

-----------------------------------------------------------------------------
(* Rule 2.  The first chunks of the model, and those that follow them.     *)
First(n) == [i \in 1..n |-> <<D!Pinned, i>>]
After(n) == [i \in 1..(ExpectedSize - n) |-> <<D!Pinned, n + i>>]

Sizes == 0..ExpectedSize

LEMMA TheModel == D!Model = First(ExpectedSize) /\ D!Whole(D!Pinned) = D!Model /\ D!Lengths[D!Pinned] = ExpectedSize
  BY DEF D!Model, D!Whole, D!Lengths, D!Pinned, First

(* What is kept is the beginning of the model. *)
LEMMA FirstIsPrefix ==
  ASSUME ExpectedSize \in Nat, NEW n \in Sizes
  PROVE  Len(First(n)) = n /\ D!IsPrefix(First(n), D!Model)
<1>1. First(n) \in Seq({D!Pinned} \X Nat) /\ Len(First(n)) = n
  BY DEF First, Sizes
<1>2. D!Model \in Seq({D!Pinned} \X Nat) /\ Len(D!Model) = ExpectedSize
  BY TheModel DEF First
<1>3. SubSeq(D!Model, 1, n) = First(n)
  BY TheModel, <1>2 DEF First, Sizes
<1>4. SubSeq(First(n), 1, n) = First(n)
  BY <1>1 DEF First, Sizes
<1> QED
  BY <1>1, <1>2, <1>3, <1>4 DEF D!IsPrefix, Sizes

(* What the host sends from there on is the rest of it. *)
LEMMA TheRestIsSent ==
  ASSUME ExpectedSize \in Nat, NEW n \in Sizes
  PROVE  SubSeq(D!Whole(D!Pinned), n + 1, D!Lengths[D!Pinned]) = After(n)
<1>1. D!Whole(D!Pinned) = First(ExpectedSize) /\ D!Lengths[D!Pinned] = ExpectedSize
  BY TheModel
<1>2. First(ExpectedSize) \in Seq({D!Pinned} \X Nat) /\ Len(First(ExpectedSize)) = ExpectedSize
  BY DEF First
<1>3. SubSeq(First(ExpectedSize), n + 1, ExpectedSize) = After(n)
  BY <1>2 DEF First, After, Sizes
<1> QED
  BY <1>1, <1>3

(* A chunk written at the end makes the beginning one longer. *)
LEMMA OneMoreChunk ==
  ASSUME ExpectedSize \in Nat, NEW n \in Sizes, After(n) # <<>>
  PROVE  /\ n + 1 \in Sizes
         /\ D!Written(First(n), n + 1, Head(After(n))) = First(n + 1)
         /\ Tail(After(n)) = After(n + 1)
<1>1. After(n) \in Seq({D!Pinned} \X Nat) /\ Len(After(n)) = ExpectedSize - n
  BY DEF After, Sizes
<1>2. n < ExpectedSize
  BY <1>1 DEF Sizes
<1>3. Head(After(n)) = <<D!Pinned, n + 1>>
  BY <1>1, <1>2 DEF After, Sizes
<1>4. Tail(After(n)) = After(n + 1)
  BY <1>1, <1>2 DEF After, Sizes
<1>5. Len(First(n)) = n
  BY DEF First, Sizes
<1>6. D!Written(First(n), n + 1, <<D!Pinned, n + 1>>) = First(n + 1)
  BY <1>2, <1>5 DEF D!Written, First, Sizes
<1>7. n + 1 \in Sizes
  BY <1>2 DEF Sizes
<1> QED
  BY <1>3, <1>4, <1>6, <1>7

-----------------------------------------------------------------------------
(* While nothing but the pinned version has been served: the .part is the  *)
(* beginning of the model, a request knows how much of it there is, and a  *)
(* response goes on from where it ends.                                    *)
Kept == partial # D!NoFile => \E n \in Sizes : content[partial] = First(n)

Knows(c) == pc[c] = "request" => have[c] = D!Length(partial)

InPlace(c, n) == content[partial] = First(n) /\ pos[c] = n + 1 /\ body[c] = After(n)

GoesOn(c) == pc[c] = "read" => \E n \in Sizes : InPlace(c, n)

Resumable == ~foreign => Kept /\ \A c \in Programs : Knows(c) /\ GoesOn(c)

Tables ==
  /\ DOMAIN have = Programs /\ DOMAIN pos = Programs /\ DOMAIN body = Programs
  /\ foreign \in BOOLEAN

ResumeInv == DownInv /\ Tables /\ Resumable

(* Whoever is idle knows nothing. *)
LEMMA OnlyOneKnows ==
  ASSUME NEW c \in Programs, \A d \in Programs \ {c} : pc'[d] = "idle", Tables',
         ~foreign' => Kept' /\ Knows(c)' /\ GoesOn(c)'
  PROVE  Resumable' /\ Tables'
<1>1. \A d \in Programs : d # c => Knows(d)' /\ GoesOn(d)'
  BY DEF Knows, GoesOn
<1> QED
  BY <1>1 DEF Resumable

(* The fetches that end, over the same .part or without it. *)
LEMMA EndResumes ==
  ASSUME ResumeInv, NEW c \in Programs, NEW how, D!End(c, how), foreign' = foreign,
         UNCHANGED <<partial, content>> \/ partial' = D!NoFile,
         \A d \in Programs \ {c} : pc[d] = "idle"
  PROVE  Resumable' /\ Tables'
<1>1. pc' = [pc EXCEPT ![c] = "idle"] /\ Tables' /\ DOMAIN pc = Programs
  BY DEF D!End, ResumeInv, Tables, DownInv, Progress
<1>2. pc'[c] = "idle" /\ \A d \in Programs \ {c} : pc'[d] = "idle"
  BY <1>1
<1>3. ~foreign' => Kept'
  BY DEF ResumeInv, Resumable, Kept
<1> QED
  BY <1>1, <1>2, <1>3, OnlyOneKnows DEF Knows, GoesOn

LEMMA EnsureResumes ==
  ASSUME ~Overlap, ResumeInv, NEW c \in Programs, D!Ensure(c)
  PROVE  Resumable' /\ Tables'
<1>1. (\A d \in Programs \ {c} : pc[d] = "idle") /\ UNCHANGED <<partial, content, foreign>>
  BY DEF D!Ensure, D!Alone, D!disk
<1>2. CASE D!End(c, "here")
  BY <1>1, <1>2, EndResumes
<1>3. CASE ~D!End(c, "here")
  <2>1. have' = [have EXCEPT ![c] = D!Length(partial)] /\ UNCHANGED <<pos, body>>
    BY <1>3 DEF D!Ensure
  <2>2. PICK p \in {"settle", "request"} : pc' = [pc EXCEPT ![c] = p]
    BY <1>3 DEF D!Ensure, D!Goto
  <2>3. Tables' /\ have'[c] = D!Length(partial) /\ pc'[c] = p /\ \A d \in Programs \ {c} : pc'[d] = "idle"
    BY <1>1, <2>1, <2>2 DEF ResumeInv, Tables, DownInv, Progress
  <2>4. Knows(c)' /\ GoesOn(c)'
    BY <1>1, <2>3 DEF Knows, GoesOn, D!Length
  <2>5. ~foreign' => Kept'
    BY <1>1 DEF ResumeInv, Resumable, Kept
  <2> QED
    BY <2>3, <2>4, <2>5, OnlyOneKnows
<1> QED
  BY <1>2, <1>3

(* A response begins where the .part ends. *)
LEMMA ResponseResumes ==
  ASSUME ExpectedSize \in Nat, ResumeInv, NEW c \in Programs, \A d \in Programs \ {c} : pc[d] = "idle",
         NEW v, NEW n \in Sizes, D!Serves(c, v, n + 1), pos' = [pos EXCEPT ![c] = n + 1],
         ~foreign => content'[partial'] = First(n)
  PROVE  Resumable' /\ Tables'
<1>1. /\ pc' = [pc EXCEPT ![c] = "read"] /\ have' = have /\ foreign' = (foreign \/ v # D!Pinned)
      /\ body' = [body EXCEPT ![c] = SubSeq(D!Whole(v), n + 1, D!Lengths[v])]
  BY DEF D!Serves, D!Goto
<1>2. Tables' /\ pc'[c] = "read" /\ \A d \in Programs \ {c} : pc'[d] = "idle"
  BY <1>1 DEF ResumeInv, Tables, DownInv, Progress
<1>3. ASSUME ~foreign' PROVE Kept' /\ Knows(c)' /\ GoesOn(c)'
  <2>1. v = D!Pinned /\ ~foreign
    BY <1>1, <1>3
  <2>2. body'[c] = After(n) /\ pos'[c] = n + 1
    BY <1>1, <2>1, TheRestIsSent DEF ResumeInv, Tables
  <2>3. content'[partial'] = First(n)
    BY <2>1
  <2>4. InPlace(c, n)'
    BY <2>2, <2>3 DEF InPlace, First, After
  <2> QED
    BY <1>2, <2>3, <2>4 DEF Kept, Knows, GoesOn, First
<1> QED
  BY <1>2, <1>3, OnlyOneKnows

LEMMA AnswerResumes ==
  ASSUME ExpectedSize \in Nat, MaxDownloadFaults \in Nat, ResumeInv, NEW c \in Programs, D!Answer(c)
  PROVE  Resumable' /\ Tables'
<1>1. pc[c] = "request"
  BY DEF D!Answer, D!Whole200, D!Partial206, D!Unsatisfiable416
<1>2. \A d \in Programs \ {c} : pc[d] = "idle"
  BY <1>1, OthersAreIdle DEF ResumeInv, DownInv
<1>3. CASE D!Whole200(c)
  <2>1. PICK v \in D!Versions : D!Serves(c, v, 1) /\ D!Create(c) /\ (partial # D!NoFile \/ created + 1 \in D!Files)
    BY <1>3 DEF D!Whole200
  <2>2. content'[partial'] = <<>> /\ pos' = [pos EXCEPT ![c] = 1]
    <3>1. partial' \in D!Files
      BY <2>1 DEF D!Create, ResumeInv, DownInv, Names, D!Files, D!NoFile
    <3> QED
      BY <2>1, <3>1 DEF D!Create, ResumeInv, DownInv, Names
  <2>3. First(0) = <<>> /\ 0 \in Sizes /\ 0 + 1 = 1
    BY DEF First, Sizes
  <2> QED
    BY <1>2, <2>1, <2>2, <2>3, ResponseResumes
<1>4. CASE D!Partial206(c)
  <2>1. CASE partial = D!NoFile
    BY <1>2, <1>4, <2>1, EndResumes DEF D!Partial206, D!disk
  <2>2. CASE partial # D!NoFile
    <3>1. PICK v \in D!Versions : D!Serves(c, v, have[c] + 1) /\ D!Reopen(c) /\ have[c] > 0
      BY <1>4, <2>2 DEF D!Partial206
    <3>2. CASE foreign
      <4>1. foreign' /\ pc' = [pc EXCEPT ![c] = "read"] /\ have' = have /\ DOMAIN body' = DOMAIN body
            /\ DOMAIN pos' = DOMAIN pos
        BY <3>1, <3>2 DEF D!Serves, D!Goto, D!Reopen
      <4> QED
        BY <3>2, <4>1 DEF Resumable, ResumeInv, Tables, D!Serves
    <3>3. CASE ~foreign
      <4>1. PICK n \in Sizes : content[partial] = First(n)
        BY <2>2, <3>3 DEF ResumeInv, Resumable, Kept
      <4>2. have[c] = n /\ D!Length(partial) = n
        BY <1>1, <2>2, <3>3, <4>1, FirstIsPrefix DEF ResumeInv, Resumable, Knows, D!Length
      <4>3. D!Serves(c, v, n + 1) /\ pos' = [pos EXCEPT ![c] = n + 1] /\ content'[partial'] = First(n)
        BY <3>1, <4>1, <4>2 DEF D!Reopen, D!disk
      <4> QED
        BY <1>2, <4>3, ResponseResumes
    <3> QED
      BY <3>2, <3>3
  <2> QED
    BY <2>1, <2>2
<1>5. CASE D!Unsatisfiable416(c)
  BY <1>2, <1>5, EndResumes DEF D!Unsatisfiable416, D!Unlink, D!disk
<1> QED
  BY <1>3, <1>4, <1>5 DEF D!Answer

LEMMA ChunkResumes ==
  ASSUME ExpectedSize \in Nat, MaxDownloadFaults \in Nat, ResumeInv, NEW c \in Programs, D!Chunk(c)
  PROVE  Resumable' /\ Tables'
<1>1. pc[c] = "read" /\ handle[c] = partial /\ partial # D!NoFile /\ partial \in D!Files
  BY DEF D!Chunk, ResumeInv, DownInv, Progress, Writing, Names, D!Files, D!NoFile
<1>2. UNCHANGED <<partial, pc, have, foreign>> /\ body[c] # <<>>
      /\ content' = [content EXCEPT ![partial] = D!Written(@, pos[c], Head(body[c]))]
      /\ pos' = [pos EXCEPT ![c] = @ + 1] /\ body' = [body EXCEPT ![c] = Tail(@)]
  BY <1>1 DEF D!Chunk
<1>3. Tables' /\ \A d \in Programs \ {c} : pc'[d] = "idle"
  BY <1>1, <1>2, OthersAreIdle DEF ResumeInv, Tables, DownInv
<1>4. ASSUME ~foreign' PROVE Kept' /\ Knows(c)' /\ GoesOn(c)'
  <2>1. PICK n \in Sizes : InPlace(c, n)
    BY <1>1, <1>2, <1>4 DEF ResumeInv, Resumable, GoesOn
  <2>2. /\ n + 1 \in Sizes
        /\ D!Written(First(n), n + 1, Head(After(n))) = First(n + 1)
        /\ Tail(After(n)) = After(n + 1)
    BY <1>2, <2>1, OneMoreChunk DEF InPlace
  <2>3. content'[partial] = First(n + 1)
    BY <1>1, <1>2, <2>1, <2>2 DEF InPlace, ResumeInv, DownInv, Names
  <2>4. pos'[c] = (n + 1) + 1 /\ body'[c] = After(n + 1)
    BY <1>2, <2>1, <2>2 DEF InPlace, ResumeInv, Tables
  <2>5. InPlace(c, n + 1)'
    BY <1>2, <2>3, <2>4 DEF InPlace, First, After
  <2> QED
    BY <1>1, <1>2, <2>2, <2>3, <2>5 DEF Kept, Knows, GoesOn, First
<1> QED
  BY <1>3, <1>4, OnlyOneKnows

LEMMA SettlesResume ==
  ASSUME ResumeInv, NEW c \in Programs, D!BodyEnds(c) \/ D!Settle(c) \/ D!Rename(c)
  PROVE  Resumable' /\ Tables'
<1>1. pc[c] \in {"read", "settle", "rename"} /\ foreign' = foreign
  BY DEF D!BodyEnds, D!Settle, D!Rename
<1>2. \A d \in Programs \ {c} : pc[d] = "idle"
  BY <1>1, OthersAreIdle DEF ResumeInv, DownInv
<1>3. ASSUME NEW p \in {"settle", "rename"}, pc' = [pc EXCEPT ![c] = p], UNCHANGED <<D!disk, pos, have>>,
             DOMAIN body' = DOMAIN body
      PROVE  Resumable' /\ Tables'
  <2>1. Tables' /\ pc'[c] = p /\ \A d \in Programs \ {c} : pc'[d] = "idle"
    BY <1>1, <1>2, <1>3 DEF ResumeInv, Tables, DownInv, Progress
  <2>2. ~foreign' => Kept' /\ Knows(c)' /\ GoesOn(c)'
    BY <1>1, <1>3, <2>1 DEF ResumeInv, Resumable, Kept, Knows, GoesOn, D!disk
  <2> QED
    BY <2>1, <2>2, OnlyOneKnows
<1>4. CASE D!BodyEnds(c)
  BY <1>3, <1>4 DEF D!BodyEnds, D!Goto
<1>5. CASE D!Settle(c)
  <2>1. CASE partial # D!NoFile /\ content[partial] = D!Model
    BY <1>3, <1>5, <2>1 DEF D!Settle, D!Goto
  <2>2. CASE ~(partial # D!NoFile /\ content[partial] = D!Model)
    BY <1>1, <1>2, <1>5, <2>2, EndResumes DEF D!Settle, D!Unlink, D!disk
  <2> QED
    BY <2>1, <2>2
<1>6. CASE D!Rename(c)
  BY <1>1, <1>2, <1>6, EndResumes DEF D!Rename, D!disk
<1> QED
  BY <1>4, <1>5, <1>6

LEMMA EveryStepResumes ==
  ASSUME ExpectedSize \in Nat, MaxDownloadFaults \in Nat, ~Overlap, ResumeInv, [D!Next]_(D!vars)
  PROVE  ResumeInv'
<1>1. DownInv'
  BY EveryStep DEF ResumeInv
<1>2. ASSUME UNCHANGED D!vars
      PROVE  Resumable' /\ Tables'
  <2>1. Tables'
    BY <1>2 DEF D!vars, D!program, ResumeInv, Tables
  <2>2. UNCHANGED <<partial, content, pc, pos, have, body, foreign>>
    BY <1>2 DEF D!vars, D!disk, D!program
  <2>3. ASSUME ~foreign PROVE Kept' /\ \A c \in Programs : Knows(c)' /\ GoesOn(c)'
    <3>1. Kept /\ \A c \in Programs : Knows(c) /\ GoesOn(c)
      BY <2>3 DEF ResumeInv, Resumable
    <3> QED
      BY <2>2, <3>1 DEF Kept, Knows, GoesOn, InPlace, D!Length, First, After
  <2> QED
    BY <2>1, <2>2, <2>3 DEF Resumable
<1>3. ASSUME NEW c \in Programs, D!Fetch(c)
      PROVE  Resumable' /\ Tables'
  BY <1>3, EnsureResumes, AnswerResumes, ChunkResumes, SettlesResume DEF D!Fetch
<1>4. ASSUME NEW c \in Programs, D!Breaks(c) \/ D!Stop(c) \/ D!Crash(c)
      PROVE  Resumable' /\ Tables'
  <2>1. pc[c] # "idle" /\ foreign' = foreign /\ UNCHANGED <<partial, content>>
    BY <1>4 DEF D!Breaks, D!Stop, D!Crash, D!disk
  <2>2. \A d \in Programs \ {c} : pc[d] = "idle"
    BY <2>1, OthersAreIdle DEF ResumeInv, DownInv
  <2> QED
    BY <1>4, <2>1, <2>2, EndResumes DEF D!Breaks, D!Stop, D!Crash
<1>5. Resumable' /\ Tables'
  BY <1>2, <1>3, <1>4 DEF D!Next, ResumeInv
<1> QED
  BY <1>1, <1>5 DEF ResumeInv

(* download.rs rules 1 and 2: the final name is the whole model's alone,   *)
(* and while the host serves the pinned version the .part is the beginning *)
(* of the model, never with a chunk twice, missing or out of place,        *)
(* wherever a fetch was cut off; of any size, for one program at a time.   *)
THEOREM StreamsDownloadSafely ==
  ASSUME ExpectedSize \in Nat, MaxDownloadFaults \in Nat, ~Overlap
  PROVE  StreamsSpec => []DownloadIsSafe
<1>1. StreamsInit => ResumeInv
  <2> SUFFICES ASSUME D!Init PROVE Tables /\ Resumable
    BY DownInvHoldsAtFirst DEF ResumeInv, StreamsInit
  <2> QED
    BY DEF D!Init, Tables, Resumable, Kept, Knows, GoesOn
<1>2. ResumeInv /\ [StreamsNext]_streams => ResumeInv'
  BY EveryStepResumes, TheDownloadSteps
<1>3. ResumeInv => DownloadIsSafe
  <2> SUFFICES ASSUME ResumeInv, ~foreign, partial # D!NoFile PROVE D!IsPrefix(content[partial], D!Model)
    BY DEF ResumeInv, DownInv, DownloadIsSafe, D!DownloadIsSafe, D!ResumesInPlace
  <2>1. PICK n \in Sizes : content[partial] = First(n)
    BY DEF ResumeInv, Resumable, Kept
  <2> QED
    BY <2>1, FirstIsPrefix
<1> QED
  BY <1>1, <1>2, <1>3, PTL DEF StreamsSpec

-----------------------------------------------------------------------------
(* The engine process: the same first states, steps and promises.          *)
LEMMA EngineStartsTheSame == H!Init => HP!Init
BY DEF H!Init, HP!Init, H!NoId, HP!NoId, H!Loop, HP!Loop, H!Step, HP!Step

LEMMA EngineStepsTheSame == H!Next => HP!Next
<1>1. ASSUME NEW o \in H!Ops, H!Request(o) PROVE o \in HP!Ops /\ HP!Request(o)
  BY <1>1 DEF H!Ops, HP!Ops, H!Request, HP!Request, H!Ids, HP!Ids, H!NoId, HP!NoId,
      H!Alive, HP!Alive, H!Frame, HP!Frame, H!engine, HP!engine, H!Dead, HP!Dead,
      H!Step, HP!Step
<1>2. H!SendAudio => HP!SendAudio
  BY DEF H!SendAudio, HP!SendAudio, H!Runs, HP!Runs, H!Alive, HP!Alive,
      H!Frame, HP!Frame, H!Return, HP!Return, H!NoId, HP!NoId, H!engine, HP!engine,
      H!Dead, HP!Dead, H!Step, HP!Step
<1>3. H!AudioTooLong => HP!AudioTooLong
  BY DEF H!AudioTooLong, HP!AudioTooLong, H!Return, HP!Return, H!NoId, HP!NoId,
      H!pipes, HP!pipes, H!engine, HP!engine
<1>4. H!Receive => HP!Receive
  BY DEF H!Receive, HP!Receive, H!Return, HP!Return, H!NoId, HP!NoId,
      H!engine, HP!engine
<1>5. H!Disconnected => HP!Disconnected
  BY DEF H!Disconnected, HP!Disconnected, H!Return, HP!Return, H!NoId, HP!NoId,
      H!pipes, HP!pipes, H!engine, HP!engine
<1>6. H!Timeout => HP!Timeout
  BY DEF H!Timeout, HP!Timeout, H!Kill, HP!Kill, H!Return, HP!Return, H!NoId, HP!NoId,
      H!Dead, HP!Dead, H!Step, HP!Step
<1>7. H!Drop => HP!Drop
  BY DEF H!Drop, HP!Drop, H!Alive, HP!Alive, H!Frame, HP!Frame, H!Dead, HP!Dead,
      H!Step, HP!Step, H!NoId, HP!NoId, H!engine, HP!engine
<1>8. H!DropKills => HP!DropKills
  BY DEF H!DropKills, HP!DropKills, H!Kill, HP!Kill, H!Dead, HP!Dead, H!Step, HP!Step,
      H!NoId, HP!NoId
<1>9. H!ClientDies => HP!ClientDies
  BY DEF H!ClientDies, HP!ClientDies, H!Fault, HP!Fault, H!Alive, HP!Alive,
      H!Torn, HP!Torn, H!Frame, HP!Frame, H!NoId, HP!NoId, H!engine, HP!engine,
      H!Dead, HP!Dead, H!Step, HP!Step
<1>10. H!ReaderReads => HP!ReaderReads
  BY DEF H!ReaderReads, HP!ReaderReads, H!client, HP!client, H!engine, HP!engine
<1>11. H!ReaderEnds => HP!ReaderEnds
  BY DEF H!ReaderEnds, HP!ReaderEnds, H!Alive, HP!Alive, H!client, HP!client,
      H!engine, HP!engine, H!Dead, HP!Dead, H!Step, HP!Step, H!NoId, HP!NoId
<1>12. H!TakeFrame => HP!TakeFrame
  BY DEF H!TakeFrame, HP!TakeFrame, H!Runs, HP!Runs, H!Alive, HP!Alive,
      H!Reply, HP!Reply, H!Response, HP!Response, H!NoId, HP!NoId, H!Dead, HP!Dead,
      H!Loop, HP!Loop, H!Step, HP!Step, H!HostUnchanged, HP!HostUnchanged,
      H!client, HP!client
<1>13. H!TakeAudio => HP!TakeAudio
  BY DEF H!TakeAudio, HP!TakeAudio, H!Runs, HP!Runs, H!Alive, HP!Alive,
      H!Reply, HP!Reply, H!Response, HP!Response, H!NoId, HP!NoId, H!Dead, HP!Dead,
      H!Loop, HP!Loop, H!Step, HP!Step, H!HostUnchanged, HP!HostUnchanged,
      H!client, HP!client
<1>14. H!EndOfStdin => HP!EndOfStdin
  BY DEF H!EndOfStdin, HP!EndOfStdin, H!Runs, HP!Runs, H!Alive, HP!Alive,
      H!Reply, HP!Reply, H!Response, HP!Response, H!NoId, HP!NoId, H!Dead, HP!Dead,
      H!Loop, HP!Loop, H!Step, HP!Step, H!HostUnchanged, HP!HostUnchanged,
      H!client, HP!client
<1>15. H!Work => HP!Work
  BY DEF H!Work, HP!Work, H!Runs, HP!Runs, H!Alive, HP!Alive, H!Reply, HP!Reply,
      H!Response, HP!Response, H!NoId, HP!NoId, H!Dead, HP!Dead, H!Loop, HP!Loop,
      H!Step, HP!Step, H!HostUnchanged, HP!HostUnchanged, H!client, HP!client
<1>16. H!HostDies => HP!HostDies
  BY DEF H!HostDies, HP!HostDies, H!Alive, HP!Alive, H!Fault, HP!Fault, H!Dead, HP!Dead,
      H!Step, HP!Step, H!NoId, HP!NoId, H!Torn, HP!Torn, H!Frame, HP!Frame,
      H!client, HP!client
<1>17. H!HostHangs => HP!HostHangs
  BY DEF H!HostHangs, HP!HostHangs, H!Runs, HP!Runs, H!Alive, HP!Alive, H!Dead, HP!Dead,
      H!Step, HP!Step, H!NoId, HP!NoId, H!Fault, HP!Fault, H!client, HP!client,
      H!pipes, HP!pipes
<1> QED
  BY <1>1, <1>2, <1>3, <1>4, <1>5, <1>6, <1>7, <1>8, <1>9, <1>10, <1>11, <1>12, <1>13, <1>14, <1>15, <1>16, <1>17
  DEF H!Next, HP!Next, H!Client, HP!Client, H!Waits, HP!Waits, H!Reader, HP!Reader,
      H!Host, HP!Host

LEMMA EnginePromisesTheSame == HP!EngineAnswers => H!EngineAnswers
BY DEF H!EngineAnswers, HP!EngineAnswers, H!AnswersAreTheirOwn, HP!AnswersAreTheirOwn,
      H!StreamsInStep, HP!StreamsInStep, H!Alive, HP!Alive, H!Dead, HP!Dead,
      H!Loop, HP!Loop, H!Step, HP!Step, H!NoId, HP!NoId

(* host.rs:272-277 with engine-host main.rs:166-172, for any number of     *)
(* requests and faults: a request returns the answer to itself, and while  *)
(* the process and its pipes are sound nothing is left over between two.   *)
THEOREM StreamsAnswerTheRequest == StreamsSpec => []EngineAnswers
<1>1. StreamsInit => HP!Init
  BY EngineStartsTheSame DEF StreamsInit
<1>2. [StreamsNext]_streams => [HP!Next]_(HP!vars)
  BY EngineStepsTheSame
  DEF StreamsNext, Downloading, Asking, streams, asking, HP!vars, HP!client, HP!pipes, HP!engine
<1>3. HP!Spec => []HP!EngineAnswers
  BY HP!EngineAnswersHolds
<1> QED
  BY <1>1, <1>2, <1>3, EnginePromisesTheSame, PTL DEF StreamsSpec, HP!Spec, EngineAnswers
=============================================================================
