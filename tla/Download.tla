------------------------------ MODULE Download ------------------------------
(***************************************************************************)
(* Putting a model's weights on disk: ensure_model and download::fetch, as *)
(* the application and the command line each run it over the same two      *)
(* names, <file> and <file>.part, against a host that may serve another    *)
(* file, ignore a range, refuse, or break off anywhere.                    *)
(*                                                                         *)
(* A file is what its name points to, so that a handle goes on writing     *)
(* after a rename.  Its content is a sequence of chunks, each known by     *)
(* the version it is of and its place in it.                               *)
(***************************************************************************)
EXTENDS Naturals, SequencesExt

CONSTANTS
  Programs,      \* who fetches: "app", which may be told to stop, and "cli"
  ExpectedSize,  \* ModelSpec::size_bytes, in chunks
  MaxFaults,     \* bound: faults of the host, the disk and the programs
  Overlap        \* both programs may fetch at once

(* What the host may serve: the version whose hash is in the model table,  *)
(* one that differs, one that is shorter, one that is longer.              *)
Pinned == "pinned"
Lengths == [pinned |-> ExpectedSize, other |-> ExpectedSize,
            shorter |-> ExpectedSize - 1, longer |-> ExpectedSize + 1]
Versions == DOMAIN Lengths
NoFile == 0
Files  == 1..(MaxFaults + 2)  \* bound: files ever created

Whole(version) == [i \in 1..Lengths[version] |-> <<version, i>>]
Model == Whole(Pinned)
Hole  == <<"none", 0>>  \* bytes nobody wrote

VARIABLES
  partial, final,   \* the files the two names point to
  content, created, \* for each file its chunks; the files ever created
  pc, handle, pos,  \* for each program: where it is, the file it writes, where in it
  have,             \* the length of the .part when the fetch began
  body,             \* the chunks of the response still to come
  result,           \* how its last fetch ended
  faults, foreign   \* for the bound; history: another version was served

disk    == <<partial, final, content, created>>
program == <<pc, handle, pos, have, body, result>>
vars    == <<disk, program, faults, foreign>>

Length(file) == IF file = NoFile THEN 0 ELSE Len(content[file])

Fault == faults < MaxFaults /\ faults' = faults + 1

(* What the file holds once a chunk is written at p: past its end, a hole. *)
Written(chunks, p, chunk) ==
  [i \in 1..(IF p > Len(chunks) THEN p ELSE Len(chunks)) |->
    IF i = p THEN chunk ELSE IF i <= Len(chunks) THEN chunks[i] ELSE Hole]

Alone(c) == Overlap \/ \A d \in Programs \ {c} : pc[d] = "idle"

(* The fetch ends and every handle of it is closed. *)
End(c, how) ==
  /\ pc' = [pc EXCEPT ![c] = "idle"] /\ result' = [result EXCEPT ![c] = how]
  /\ handle' = [handle EXCEPT ![c] = NoFile] /\ body' = [body EXCEPT ![c] = <<>>]
  /\ pos' = [pos EXCEPT ![c] = 0] /\ have' = [have EXCEPT ![c] = 0]

Goto(c, place) == pc' = [pc EXCEPT ![c] = place]

-----------------------------------------------------------------------------
(* ensure_model: a file of the right name is used as it is.  fetch: a      *)
(* .part at least as long as the model is only checked.                    *)
Ensure(c) ==
  /\ pc[c] = "idle" /\ result[c] # "here" /\ Alone(c)
  /\ IF final # NoFile THEN End(c, "here")
     ELSE /\ have' = [have EXCEPT ![c] = Length(partial)]
          /\ Goto(c, IF ExpectedSize > 0 /\ Length(partial) >= ExpectedSize THEN "settle" ELSE "request")
          /\ UNCHANGED <<handle, pos, body, result>>
  /\ UNCHANGED <<disk, faults, foreign>>

(* File::create: an existing file is emptied, and stays the same file. *)
Create(c) ==
  LET file == IF partial = NoFile THEN created + 1 ELSE partial IN
  /\ partial' = file /\ content' = [content EXCEPT ![file] = <<>>]
  /\ created' = IF partial = NoFile THEN file ELSE created
  /\ handle' = [handle EXCEPT ![c] = file] /\ pos' = [pos EXCEPT ![c] = 1]
  /\ UNCHANGED final

Reopen(c) ==
  /\ handle' = [handle EXCEPT ![c] = partial] /\ pos' = [pos EXCEPT ![c] = Length(partial) + 1]
  /\ UNCHANGED disk

(* The host begins to answer with a version; any but the pinned is a fault *)
(* of the host's.  The whole file is what it sends when no range was asked *)
(* for, and when it knows none.                                            *)
Serves(c, v, from) ==
  /\ IF v = Pinned THEN UNCHANGED faults ELSE Fault
  /\ foreign' = (foreign \/ v # Pinned)
  /\ body' = [body EXCEPT ![c] = SubSeq(Whole(v), from, Lengths[v])]
  /\ Goto(c, "read") /\ UNCHANGED <<have, result>>

(* Mutant: what a host that ignored the range sends is appended. *)
Whole200Appended(c) == \E v \in Versions : /\ pc[c] = "request" /\ (partial # NoFile \/ created + 1 \in Files)
                                           /\ Serves(c, v, 1)
                                           /\ IF have[c] > 0 THEN Reopen(c) ELSE Create(c)

Whole200(c) == \E v \in Versions : /\ pc[c] = "request" /\ (partial # NoFile \/ created + 1 \in Files)
                                   /\ Serves(c, v, 1) /\ Create(c)

Partial206(c) == \E v \in Versions :
  /\ pc[c] = "request" /\ have[c] > 0 /\ have[c] < Lengths[v]
  /\ IF partial # NoFile THEN Serves(c, v, have[c] + 1) /\ Reopen(c)
     ELSE End(c, "io") /\ UNCHANGED <<disk, faults, foreign>>

Unlink == partial' = NoFile /\ UNCHANGED <<final, content, created>>

(* 416: nothing to resume, so the next fetch starts clean; if the file can *)
(* be removed, that is.                                                    *)
Unsatisfiable416(c) == \E v \in Versions :
  /\ pc[c] = "request" /\ have[c] >= Lengths[v] /\ have[c] > 0 /\ End(c, "status")
  /\ v = Pinned \/ faults < MaxFaults
  /\ \/ Unlink /\ faults' = (IF v = Pinned THEN faults ELSE faults + 1)
     \/ Fault /\ UNCHANGED disk
  /\ UNCHANGED foreign

(* Another status, no connection, one that breaks, a write that fails.     *)
Breaks(c) ==
  /\ pc[c] \in {"request", "read"} /\ Fault /\ End(c, "failed") /\ UNCHANGED <<disk, foreign>>

(* One turn of the loop, written where this handle stands. *)
Chunk(c) ==
  /\ pc[c] = "read" /\ body[c] # <<>>
  /\ content' = [content EXCEPT ![handle[c]] = Written(@, pos[c], Head(body[c]))]
  /\ pos' = [pos EXCEPT ![c] = @ + 1] /\ body' = [body EXCEPT ![c] = Tail(@)]
  /\ UNCHANGED <<partial, final, created, pc, handle, have, result, faults, foreign>>

(* The body is over, or ends early without the client noticing. *)
BodyEnds(c) ==
  /\ pc[c] = "read" /\ Goto(c, "settle")
  /\ IF body[c] = <<>> THEN UNCHANGED faults ELSE Fault
  /\ handle' = [handle EXCEPT ![c] = NoFile] /\ body' = [body EXCEPT ![c] = <<>>]
  /\ UNCHANGED <<disk, pos, have, result, foreign>>

(* keep_going says no; the command line's never does. *)
Stop(c) ==
  /\ c = "app" /\ pc[c] = "read" /\ Fault /\ End(c, "stopped") /\ UNCHANGED <<disk, foreign>>

(* Mutant: what the hash refused is kept. *)
SettleKeeps(c) ==
  /\ pc[c] = "settle"
  /\ IF partial = NoFile THEN End(c, "io") /\ UNCHANGED <<disk, faults>>
     ELSE IF content[partial] = Model
     THEN Goto(c, "rename") /\ UNCHANGED <<disk, handle, pos, have, body, result, faults>>
     ELSE End(c, "checksum") /\ UNCHANGED <<disk, faults>>
  /\ UNCHANGED foreign

(* settle: the hash of the whole file decides, and a file it refuses is    *)
(* removed, if it can be.                                                  *)
Settle(c) ==
  /\ pc[c] = "settle"
  /\ IF partial = NoFile THEN End(c, "io") /\ UNCHANGED <<disk, faults>>
     ELSE IF content[partial] = Model
     THEN Goto(c, "rename") /\ UNCHANGED <<disk, handle, pos, have, body, result, faults>>
     ELSE End(c, "checksum") /\ ((Unlink /\ UNCHANGED faults) \/ (Fault /\ UNCHANGED disk))
  /\ UNCHANGED foreign

Rename(c) ==
  /\ pc[c] = "rename"
  /\ \/ /\ UNCHANGED faults
        /\ IF partial = NoFile THEN End(c, "io") /\ UNCHANGED disk
           ELSE End(c, "fetched") /\ final' = partial /\ partial' = NoFile /\ UNCHANGED <<content, created>>
     \/ Fault /\ End(c, "io") /\ UNCHANGED disk
  /\ UNCHANGED foreign

(* The program is killed, wherever it is. *)
Crash(c) == pc[c] # "idle" /\ Fault /\ End(c, "none") /\ UNCHANGED <<disk, foreign>>

Init ==
  /\ partial = NoFile /\ final = NoFile /\ created = 0
  /\ content = [f \in Files |-> <<>>]
  /\ pc = [c \in Programs |-> "idle"] /\ handle = [c \in Programs |-> NoFile]
  /\ pos = [c \in Programs |-> 0] /\ have = [c \in Programs |-> 0]
  /\ body = [c \in Programs |-> <<>>] /\ result = [c \in Programs |-> "none"]
  /\ faults = 0 /\ foreign = FALSE

Answer(c) == Whole200(c) \/ Partial206(c) \/ Unsatisfiable416(c)

Fetch(c) == Ensure(c) \/ Answer(c) \/ Chunk(c) \/ BodyEnds(c) \/ Settle(c) \/ Rename(c)

Next == \E c \in Programs : Fetch(c) \/ Breaks(c) \/ Stop(c) \/ Crash(c)

Spec == Init /\ [][Next]_vars

(* Every step of a fetch is taken, and somebody asks for the model again:  *)
(* the application at its next start or on Retry.                          *)
FairSpec == Spec /\ \A c \in Programs : WF_vars(Fetch(c))

-----------------------------------------------------------------------------
(* Properties.                                                             *)

(* download.rs rule 1: whatever the host, the disk and the programs do,    *)
(* the final name is only ever that of the pinned model, whole.            *)
NamedOnlyWhole == final # NoFile => content[final] = Model

(* download.rs rule 2: while the host serves the pinned version, what is   *)
(* kept for a resume is the beginning of the model: never its first bytes  *)
(* twice, never with a gap, whatever was interrupted where.                *)
ResumesInPlace == ~foreign /\ partial # NoFile => IsPrefix(content[partial], Model)

(* The two rules together.                                                 *)
DownloadIsSafe == NamedOnlyWhole /\ ResumesInPlace

(* A .part that can never become the model does not block the download for *)
(* ever: once the faults are over the model arrives.                       *)
ModelArrives == <>(final # NoFile)
=============================================================================
