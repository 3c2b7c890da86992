----------------------------- MODULE MCStreams ------------------------------
(***************************************************************************)
(* The two parts that move bytes between processes, in one run: the engine *)
(* process with its pipes (HostProcess) and the download of a model        *)
(* (Download).  They share no state: a behaviour is one of the part chosen *)
(* at its start, and the other stands still.                               *)
(***************************************************************************)
EXTENDS Naturals, Sequences

CONSTANTS
  Programs, ExpectedSize, MaxDownloadFaults, Overlap,  \* as Download has them
  MaxRequests, MaxEngineFaults, Disturbances           \* as HostProcess has them

VARIABLE part

(* The download, by the application and the command line. *)
VARIABLES partial, final, content, created, pc, handle, pos, have, body, result, faults, foreign

(* The engine process. *)
VARIABLES at, id, op, next_id, stdin, open, stdout, replies, connected, host, model, hung,
          host_faults, oversize, returned

D == INSTANCE Download WITH MaxFaults <- MaxDownloadFaults

H == INSTANCE HostProcess WITH MaxFaults <- MaxEngineFaults, faults <- host_faults

fetching == <<partial, final, content, created, pc, handle, pos, have, body, result, faults, foreign>>
asking   == <<at, id, op, next_id, stdin, open, stdout, replies, connected, host, model, hung,
              host_faults, oversize, returned>>
streams  == <<part, fetching, asking>>

Downloading(A) == part = "download" /\ A /\ UNCHANGED <<part, asking>>
Asking(A)      == part = "engine" /\ A /\ UNCHANGED <<part, fetching>>

StreamsInit == part \in {"download", "engine"} /\ D!Init /\ H!Init

StreamsNext == Downloading(D!Next) \/ Asking(H!Next)

(* The fairness of each part, as its module states it. *)
StreamsSpec ==
  /\ StreamsInit /\ [][StreamsNext]_streams
  /\ \A c \in Programs : WF_streams(Downloading(D!Fetch(c)))
  /\ WF_streams(Asking(H!Waits)) /\ WF_streams(Asking(H!Reader)) /\ WF_streams(Asking(H!Host))

-----------------------------------------------------------------------------
(* Download: the final name is the model's alone, and a resume goes on     *)
(* where the last fetch stopped.                                           *)
DownloadIsSafe == D!DownloadIsSafe

(* Download: no .part keeps the model from arriving for ever. *)
ModelArrives == (part = "download") ~> (final # D!NoFile)

(* HostProcess: answers are those to the request, and nothing of one       *)
(* request is left for the next.                                           *)
EngineAnswers == H!EngineAnswers

(* HostProcess: requests end, and the process ends with its application.   *)
EngineEnds == H!RequestsEnd /\ H!EngineEnds
=============================================================================
