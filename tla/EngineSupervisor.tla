-------------------------- MODULE EngineSupervisor --------------------------
(***************************************************************************)
(* The engine supervisor (dile-app/engine/mod.rs): the thread that owns    *)
(* the engine process, the queue other threads wake it through, the reader *)
(* thread of every process it has started (dile-client/host.rs), and what  *)
(* survives the application: the weights on disk and the tier record.      *)
(*                                                                         *)
(* A process is its generation.  A request is in flight between two steps, *)
(* and the process may die in between; an answer that is late is not       *)
(* modelled, because a request that times out kills the process it was     *)
(* sent to and closes its stdin, after which every request is Gone.        *)
(***************************************************************************)
EXTENDS Naturals, FiniteSets

CONSTANTS
  MaxRestarts,     \* MAX_RESTARTS
  MaxRecordings,   \* bound: recordings submitted
  CommandBound,    \* bound: changes of the tier setting and probes asked for
  FaultBound,      \* bound: processes that die, time out, refuse; failed writes
  WeightsAtFirst   \* what may be on disk at the start: sets of tiers

Tiers      == {"vulkan", "cpu"}
None       == "none"
MaybeTier  == Tiers \union {None}
Recordings == 1..MaxRecordings
NoJob      == 0
NoHost     == 0

ASSUME EngineAssumption ==
  /\ MaxRestarts \in Nat /\ MaxRecordings \in Nat
  /\ CommandBound \in Nat /\ FaultBound \in Nat
  /\ WeightsAtFirst \subseteq SUBSET Tiers

VARIABLES
  job, down, retier, reprobe, stop,   \* Pending: what wakes the supervisor
  pc,          \* where the supervisor is
  caller,      \* who ensures, starts or loads: prepare, the probe or reload
  tier, model_file, host, loaded, generation, restarts,   \* Supervisor
  status,      \* the state last announced
  busy,        \* the recording being transcribed
  alive,       \* the processes that run
  reading,     \* the processes whose reader has not called on_exit
  holds,       \* the weights and the device of the model in the host
  files,       \* the tiers whose weights are on disk
  record,      \* engine.json
  tier_override, notices,   \* the setting; listeners still to be told of it
  submitted, commands, faults,   \* counters, for the bounds
  spawned,     \* history: processes started since the engine was last known good
  fate         \* history: what became of each recording

queue      == <<job, down, retier, reprobe, stop>>
supervisor == <<pc, caller, tier, model_file, host, loaded, generation, restarts, status, busy>>
processes  == <<alive, reading, holds>>
disk       == <<files, record>>
settings   == <<tier_override, notices>>
counters   == <<submitted, commands, faults>>
history    == <<spawned, fate>>
vars       == <<queue, supervisor, processes, disk, settings, counters, history>>

Models   == [device : MaybeTier, file : MaybeTier]
Empty    == [device |-> None, file |-> None]
Records  == [tier : Tiers, probed : MaybeTier]
NoRecord == [tier |-> None, probed |-> None]

Steps == {"take", "prepare", "start", "hello", "ensure", "consent", "download",
          "load", "clip", "transcribe", "backoff", "stopped"}
States == {"unset", "no-model", "downloading", "probing", "ready", "busy", "crashed", "failed"}

Numbers ==
  /\ job \in Recordings \union {NoJob} /\ busy \in Recordings \union {NoJob}
  /\ generation \in Nat /\ host \in {NoHost, generation} /\ down \in 0..generation
  /\ alive \subseteq 1..generation /\ reading \subseteq 1..generation
  /\ restarts \in Nat /\ spawned \in Nat /\ notices \in Nat
  /\ submitted \in 0..MaxRecordings
  /\ commands \in 0..CommandBound /\ faults \in 0..FaultBound

Control ==
  /\ retier \in BOOLEAN /\ reprobe \in BOOLEAN /\ stop \in BOOLEAN
  /\ pc \in Steps /\ caller \in {"prepare", "probe", "reload"} /\ status \in States

Words ==
  /\ tier \in MaybeTier /\ model_file \in MaybeTier /\ loaded \in MaybeTier
  /\ tier_override \in MaybeTier
  /\ holds \in Models /\ files \subseteq Tiers /\ record \in Records \union {NoRecord}
  /\ fate \in [Recordings -> {"none", "shown", "closed", "replaced"}]

TypeOK == Numbers /\ Control /\ Words

(* The supervisor's thread has just started; the disk and the settings are *)
(* what the last run of the application left.                              *)
Init ==
  /\ job = NoJob /\ down = NoHost /\ retier = FALSE /\ reprobe = FALSE /\ stop = FALSE
  /\ pc = "prepare" /\ caller = "prepare"
  /\ tier = None /\ model_file = None /\ host = NoHost /\ loaded = None
  /\ generation = 0 /\ restarts = 0 /\ status = "unset" /\ busy = NoJob
  /\ alive = {} /\ reading = {} /\ holds = Empty
  /\ files \in WeightsAtFirst
  /\ record \in Records \union {NoRecord}
  /\ tier_override \in MaybeTier /\ notices = 0
  /\ submitted = 0 /\ commands = 0 /\ faults = 0 /\ spawned = 0
  /\ fate = [r \in Recordings |-> "none"]

-----------------------------------------------------------------------------
(* Other threads.                                                          *)

(* Queue::submit, from the session: the slot is one deep. *)
Submit ==
  /\ submitted < MaxRecordings
  /\ submitted' = submitted + 1
  /\ job' = submitted + 1
  /\ fate' = IF job = NoJob THEN fate ELSE [fate EXCEPT ![job] = "replaced"]
  /\ UNCHANGED <<down, retier, reprobe, stop, supervisor, processes, disk, settings,
                 commands, faults, spawned>>

(* The settings window: the store changes first and tells its listeners,   *)
(* of which the engine is one, afterwards.                                 *)
SetTier ==
  /\ commands < CommandBound
  /\ commands' = commands + 1
  /\ tier_override' \in MaybeTier \ {tier_override}
  /\ notices' = notices + 1
  /\ UNCHANGED <<queue, supervisor, processes, disk, submitted, faults, history>>

Notify ==
  /\ notices > 0
  /\ notices' = notices - 1
  /\ retier' = TRUE
  /\ UNCHANGED <<job, down, reprobe, stop, supervisor, processes, disk, tier_override,
                 counters, history>>

AskReprobe ==
  /\ commands < CommandBound
  /\ commands' = commands + 1
  /\ reprobe' = TRUE
  /\ UNCHANGED <<job, down, retier, stop, supervisor, processes, disk, settings,
                 submitted, faults, history>>

AskStop ==
  /\ ~stop
  /\ stop' = TRUE
  /\ UNCHANGED <<job, down, retier, reprobe, supervisor, processes, disk, settings,
                 counters, history>>

Fault == faults < FaultBound /\ faults' = faults + 1

(* The engine process dies: the driver, or somebody with a task manager. *)
ProcessDies ==
  /\ Fault
  /\ \E g \in alive : alive' = alive \ {g}
  /\ UNCHANGED <<queue, supervisor, reading, holds, disk, settings, submitted, commands, history>>

(* Mutant: the last signal to arrive is the one that is kept. *)
ReaderEndsLastWins(g) ==
  /\ g \in reading \ alive
  /\ reading' = reading \ {g}
  /\ down' = g
  /\ UNCHANGED <<job, retier, reprobe, stop, supervisor, alive, holds, disk, settings,
                 counters, history>>

(* The reader's on_exit, some time after its process has ended. *)
ReaderEnds(g) ==
  /\ g \in reading \ alive
  /\ reading' = reading \ {g}
  /\ down' = IF g > down THEN g ELSE down
  /\ UNCHANGED <<job, retier, reprobe, stop, supervisor, alive, holds, disk, settings,
                 counters, history>>

-----------------------------------------------------------------------------
(* The engine process, as the supervisor handles it.                       *)

(* Mutant: the process is let go of and not ended. *)
DropHostLetsGo ==
  /\ alive' = alive
  /\ host' = NoHost /\ loaded' = None /\ holds' = Empty

(* drop_host: the process is told to quit, killed and waited for. *)
DropHost ==
  /\ alive' = alive \ {host}
  /\ host' = NoHost /\ loaded' = None /\ holds' = Empty

(* start_host, for whoever called it; it may not start. *)
StartHost ==
  /\ generation' = generation + 1
  /\ loaded' = None /\ holds' = Empty
  /\ \/ /\ host' = generation + 1
        /\ alive' = (alive \ {host}) \union {generation + 1}
        /\ reading' = reading \union {generation + 1}
        /\ spawned' = spawned + 1
        /\ UNCHANGED faults
     \/ /\ Fault
        /\ host' = NoHost
        /\ alive' = alive \ {host}
        /\ UNCHANGED <<reading, spawned>>

(* A request that is not answered well: the engine says no, or says nothing *)
(* until the deadline and is killed, or is gone.  No state depends on which *)
(* but for the process.                                                     *)
RequestFails ==
  \/ Fault /\ host \in alive /\ alive' \in {alive, alive \ {host}}
  \/ host \notin alive /\ UNCHANGED <<faults, alive>>

RequestAnswered == host \in alive /\ UNCHANGED <<faults, alive>>

(* bring_up's reports, which end a start-up. *)
Report(s) == pc' = "take" /\ status' = s

StartFails == IF caller = "reload" THEN pc' = "backoff" /\ UNCHANGED status
                                   ELSE Report("failed")

-----------------------------------------------------------------------------
(* prepare: whose word the tier is.                                        *)

SavesRecord(r) == \/ record' = r /\ UNCHANGED faults
                  \/ record' = record /\ Fault

PrepareOverride ==
  /\ tier_override # None
  /\ tier' = tier_override
  /\ IF record.tier = tier_override
     THEN UNCHANGED <<record, faults>>
     ELSE SavesRecord([tier |-> tier_override, probed |-> record.probed])
  /\ pc' = "ensure" /\ caller' = "prepare"

PrepareRecord ==
  /\ tier_override = None /\ record # NoRecord
  /\ tier' = record.tier
  /\ pc' = "ensure" /\ caller' = "prepare"
  /\ UNCHANGED <<record, faults>>

PrepareProbe ==
  /\ tier_override = None /\ record = NoRecord
  /\ pc' = "start" /\ caller' = "probe"
  /\ UNCHANGED <<tier, record, faults>>

(* Mutant: what was decided once outranks what the settings ask for. *)
PrepareRecordFirst ==
  /\ pc = "prepare"
  /\ \/ record # NoRecord /\ tier' = record.tier /\ UNCHANGED <<record, faults>>
     \/ record = NoRecord /\ PrepareOverride
     \/ PrepareProbe
  /\ pc' = IF record = NoRecord /\ tier_override = None THEN "start" ELSE "ensure"
  /\ caller' = IF record = NoRecord /\ tier_override = None THEN "probe" ELSE "prepare"
  /\ UNCHANGED <<queue, model_file, host, loaded, generation, restarts, status, busy, processes,
                 files, settings, submitted, commands, history>>

Prepare ==
  /\ pc = "prepare"
  /\ PrepareOverride \/ PrepareRecord \/ PrepareProbe
  /\ UNCHANGED <<queue, model_file, host, loaded, generation, restarts, status, busy, processes,
                 files, settings, submitted, commands, history>>

(* decide_tier's end: the probe's answer is written down, and kept to even *)
(* if it cannot be.  A process that failed it is not reused.               *)
Decide(t) ==
  /\ tier' = t
  /\ SavesRecord([tier |-> t, probed |-> t])
  /\ pc' = "ensure" /\ caller' = "prepare"

Refuse == Decide("cpu") /\ DropHost

-----------------------------------------------------------------------------
(* ensure_model, start_host and load, for prepare, the probe and reload.   *)

Wanted == IF caller = "probe" THEN "vulkan" ELSE tier

(* Mutant: the weights that were set up first stay set up. *)
GoOnWithTheFirst ==
  IF caller = "probe"
  THEN pc' = "load" /\ status' = "probing" /\ UNCHANGED model_file
  ELSE /\ model_file' = IF model_file = None THEN tier ELSE model_file
       /\ IF loaded = tier THEN Report("ready")
                           ELSE pc' = "start" /\ UNCHANGED status

(* The weights are there: the probe announces itself and loads them, a     *)
(* start-up loads them unless the probe just has.                          *)
GoOn ==
  IF caller = "probe"
  THEN pc' = "load" /\ status' = "probing" /\ UNCHANGED model_file
  ELSE /\ model_file' = tier
       /\ IF loaded = tier THEN Report("ready")
                           ELSE pc' = "start" /\ UNCHANGED status

Ensure ==
  /\ pc = "ensure"
  /\ IF Wanted \in files THEN GoOn ELSE pc' = "consent" /\ UNCHANGED <<status, model_file>>
  /\ UNCHANGED <<queue, caller, tier, host, loaded, generation, restarts, busy, processes, disk,
                 settings, counters, history>>

(* The dialog; nobody is obliged to answer it. *)
Answer ==
  /\ pc = "consent"
  /\ \/ pc' = "download" /\ status' = "downloading"
     \/ Report("no-model")
  /\ UNCHANGED <<queue, caller, tier, model_file, host, loaded, generation, restarts, busy,
                 processes, disk, settings, counters, history>>

Downloaded ==
  /\ pc = "download"
  /\ files' = files \union {Wanted}
  /\ GoOn
  /\ UNCHANGED <<queue, caller, tier, host, loaded, generation, restarts, busy, processes, record,
                 settings, counters, history>>

(* The network fails, or the application is closing. *)
DownloadFails ==
  /\ pc = "download"
  /\ (stop /\ UNCHANGED faults) \/ Fault
  /\ Report("failed")
  /\ UNCHANGED <<queue, caller, tier, model_file, host, loaded, generation, restarts, busy,
                 processes, disk, settings, submitted, commands, history>>

Start ==
  /\ pc = "start"
  /\ StartHost
  /\ IF host' = NoHost THEN StartFails
     ELSE /\ pc' = IF caller = "probe" THEN "hello" ELSE "load"
          /\ UNCHANGED status
  /\ UNCHANGED <<queue, caller, tier, model_file, restarts, busy, disk, settings,
                 submitted, commands, fate>>

(* The probe asks what the host was built with. *)
Hello ==
  /\ pc = "hello"
  /\ \/ RequestFails /\ Report("failed")
        /\ UNCHANGED <<caller, tier, host, loaded, holds, record>>
     \/ RequestAnswered /\ pc' = "ensure"
        /\ UNCHANGED <<caller, tier, host, loaded, holds, record, status>>
     \/ host \in alive /\ Refuse /\ UNCHANGED status
  /\ UNCHANGED <<queue, model_file, generation, restarts, busy, reading, files, settings,
                 submitted, commands, history>>

LoadAnswered ==
  /\ RequestAnswered
  /\ loaded' = Wanted
  /\ holds' = [device |-> Wanted, file |-> IF caller = "probe" THEN "vulkan" ELSE model_file]
  /\ IF caller = "probe" THEN pc' = "clip" /\ UNCHANGED status ELSE Report("ready")
  /\ UNCHANGED <<caller, tier, host, record>>

LoadFails ==
  /\ caller # "probe"
  /\ RequestFails
  /\ StartFails
  /\ UNCHANGED <<caller, tier, host, loaded, holds, record>>

(* The probe drops the process whichever way the request failed. *)
LoadRefused ==
  /\ caller = "probe"
  /\ Refuse
  /\ UNCHANGED status

Load ==
  /\ pc = "load"
  /\ LoadAnswered \/ LoadFails \/ LoadRefused
  /\ UNCHANGED <<queue, model_file, generation, restarts, busy, reading, files, settings,
                 submitted, commands, history>>

(* The probe's clip: the words came back, or they did not, or nothing did. *)
Clip ==
  /\ pc = "clip"
  /\ \/ host \in alive /\ Decide("vulkan") /\ UNCHANGED <<alive, host, loaded, holds>>
     \/ Refuse
  /\ UNCHANGED <<queue, model_file, generation, restarts, status, busy, reading, files, settings,
                 submitted, commands, history>>

-----------------------------------------------------------------------------
(* Queue::take: stop, then a dead engine, then a probe, then the tier, and *)
(* then a recording.                                                       *)

Awake(wake) == pc = "take" /\ ~stop /\ wake

(* The supervisor is dropped, and the process with it. *)
Leave ==
  /\ pc = "take" /\ stop
  /\ DropHost
  /\ pc' = "stopped"
  /\ UNCHANGED <<queue, caller, tier, model_file, generation, restarts, status, busy, reading,
                 disk, settings, counters, history>>

(* host_went_down, for a signal of the generation that is current. *)
HostDown ==
  /\ Awake(down # NoHost)
  /\ down' = NoHost
  /\ IF down = generation
     THEN DropHost /\ status' = "crashed" /\ pc' = "backoff"
     ELSE UNCHANGED <<alive, host, loaded, holds, status, pc>>
  /\ UNCHANGED <<job, retier, reprobe, stop, caller, tier, model_file, generation, restarts,
                 busy, reading, disk, settings, counters, history>>

(* Mutant: a process that starts again is a new beginning. *)
RespawnForgives ==
  /\ pc = "backoff"
  /\ restarts' = 0
  /\ IF None \in {tier, model_file} THEN Report("failed") /\ UNCHANGED caller
     ELSE pc' = "start" /\ caller' = "reload" /\ UNCHANGED status
  /\ UNCHANGED <<queue, tier, model_file, host, loaded, generation, busy, processes, disk,
                 settings, counters, history>>

(* One turn of its loop: it gives up, or waits and starts another. *)
Respawn ==
  /\ pc = "backoff"
  /\ restarts' = restarts + 1
  /\ \/ /\ restarts + 1 > MaxRestarts
        /\ Report("failed")
        /\ UNCHANGED caller
     \/ /\ restarts + 1 <= MaxRestarts
        /\ IF None \in {tier, model_file} THEN pc' = "backoff" /\ UNCHANGED caller
                                          ELSE pc' = "start" /\ caller' = "reload"
        /\ UNCHANGED status
  /\ UNCHANGED <<queue, tier, model_file, host, loaded, generation, busy, processes, disk,
                 settings, counters, history>>

BringUp ==
  /\ DropHost
  /\ restarts' = 0 /\ spawned' = 0
  /\ pc' = "prepare"

Reprobe ==
  /\ Awake(down = NoHost /\ reprobe)
  /\ reprobe' = FALSE
  /\ record' = NoRecord
  /\ tier' = None /\ model_file' = None
  /\ BringUp
  /\ UNCHANGED <<job, down, retier, stop, caller, generation, status, busy, reading, files,
                 settings, counters, fate>>

(* Mutant: the request to change the tier is looked at and left there. *)
RetierStays ==
  /\ Awake(down = NoHost /\ ~reprobe /\ retier)
  /\ IF tier_override # None /\ tier_override = tier
     THEN UNCHANGED <<alive, host, loaded, holds, restarts, spawned, pc>>
     ELSE BringUp
  /\ UNCHANGED <<queue, caller, tier, model_file, generation, status, busy,
                 reading, disk, settings, counters, fate>>

Retier ==
  /\ Awake(down = NoHost /\ ~reprobe /\ retier)
  /\ retier' = FALSE
  /\ IF tier_override # None /\ tier_override = tier
     THEN UNCHANGED <<alive, host, loaded, holds, restarts, spawned, pc>>
     ELSE BringUp
  /\ UNCHANGED <<job, down, reprobe, stop, caller, tier, model_file, generation, status, busy,
                 reading, disk, settings, counters, fate>>

NextJob == Awake(down = NoHost /\ ~reprobe /\ ~retier /\ job # NoJob) /\ job' = NoJob

(* dictate, with no engine behind it and with one. *)
LetGo ==
  /\ NextJob
  /\ None \in {tier, loaded}
  /\ fate' = [fate EXCEPT ![job] = "closed"]
  /\ UNCHANGED <<down, retier, reprobe, stop, supervisor, processes, disk, settings, counters,
                 spawned>>

Dictate ==
  /\ NextJob
  /\ None \notin {tier, loaded}
  /\ busy' = job /\ status' = "busy" /\ pc' = "transcribe"
  /\ UNCHANGED <<down, retier, reprobe, stop, caller, tier, model_file, host, loaded, generation,
                 restarts, processes, disk, settings, counters, history>>

(* A text, or nothing heard; and anything short of an answer is a lost      *)
(* dictation and not a restart, which the reader's signal is for.          *)
Transcribed ==
  /\ RequestAnswered
  /\ \E end \in {"shown", "closed"} : fate' = [fate EXCEPT ![busy] = end]
  /\ restarts' = 0 /\ spawned' = 0

TranscriptionLost ==
  /\ RequestFails
  /\ fate' = [fate EXCEPT ![busy] = "closed"]
  /\ UNCHANGED <<restarts, spawned>>

(* Mutant: a recording that was lost is given back to the queue. *)
DeliverRetries ==
  /\ pc = "transcribe"
  /\ \/ Transcribed /\ UNCHANGED job
     \/ RequestFails /\ job' = busy /\ UNCHANGED <<fate, restarts, spawned>>
  /\ busy' = NoJob
  /\ Report("ready")
  /\ UNCHANGED <<down, retier, reprobe, stop, caller, tier, model_file, host, loaded, generation,
                 reading, holds, disk, settings, submitted, commands>>

Deliver ==
  /\ pc = "transcribe"
  /\ Transcribed \/ TranscriptionLost
  /\ busy' = NoJob
  /\ Report("ready")
  /\ UNCHANGED <<queue, caller, tier, model_file, host, loaded, generation, reading, holds, disk,
                 settings, submitted, commands>>

-----------------------------------------------------------------------------
Others == Submit \/ SetTier \/ Notify \/ AskReprobe \/ AskStop \/ ProcessDies

Readers == \E g \in reading : ReaderEnds(g)

(* What the supervisor's thread does without waiting for a person. *)
Works ==
  \/ Prepare \/ Ensure \/ Downloaded \/ DownloadFails \/ Start \/ Hello \/ Load \/ Clip
  \/ Leave \/ HostDown \/ Respawn \/ Reprobe \/ Retier \/ LetGo \/ Dictate \/ Deliver

Next == Others \/ Readers \/ Works \/ Answer

Spec == Init /\ [][Next]_vars

(* The threads run; the store's listeners are told; nobody has to answer a *)
(* dialog, and nothing has to be asked.                                    *)
FairSpec == Spec /\ WF_vars(Works) /\ WF_vars(Readers) /\ WF_vars(Notify)

-----------------------------------------------------------------------------
(* One engine process at a time, which holds a gigabyte of weights, and    *)
(* none that the supervisor has lost hold of or left behind when it went   *)
(* (start_host, drop_host, HostProcess::drop).                             *)
OneEngine == alive \subseteq {host} /\ (pc = "stopped" => alive = {})

(* Whenever the supervisor waits and has said "ready", a model of its tier *)
(* is loaded in a process that runs, or the news that it has died is on    *)
(* its way: no order of exit signals leaves a dead engine called ready     *)
(* (host_down, take, run).                                                 *)
ReadyOrNoticed ==
  (pc = "take" /\ status = "ready") =>
    /\ host # NoHost /\ loaded = tier /\ tier # None
    /\ host \in alive \/ host \in reading \/ host = down

(* An engine that keeps going down is not started for ever: between two    *)
(* signs of life - a dictation that works, a person who asks for another   *)
(* tier or probe - a start-up's two processes are followed by at most      *)
(* MaxRestarts more (host_went_down).                                      *)
NotForEver == spawned <= MaxRestarts + 2

(* Once every change of the setting has been passed on and dealt with, the *)
(* tier is the one the user asked for, whatever the probe or an earlier    *)
(* session decided (prepare: "what the user said outranks what the probe   *)
(* found").                                                                *)
AskedTierIsUsed ==
  (pc = "take" /\ notices = 0 /\ ~retier /\ tier_override # None) => tier = tier_override

(* With the weights of both tiers on disk, so that nothing is left to be   *)
(* downloaded, the model in the process is the one of the tier the         *)
(* supervisor thinks is loaded, file and device (load, reload).            *)
LoadedIsItsModel ==
  (loaded # None /\ files = Tiers) => holds = [device |-> loaded, file |-> loaded]

(* The engine is a Transcriber: each recording is settled once, in order,  *)
(* and the newest replaces the one that waits.                             *)
Stage(r) ==
  CASE r > submitted -> "unspoken"
    [] r = busy -> "working"
    [] r = job -> "queued"
    [] OTHER -> fate[r]

Stages == [r \in Recordings |-> Stage(r)]

Abstract == INSTANCE Transcriber WITH stage <- Stages
ImplementsTranscriber == Abstract!Spec

(* A recording in the queue is not left there: it is worked on and         *)
(* settled, or replaced, or the application is closing, or a dialog is     *)
(* waiting for an answer (take, dictate).                                  *)
RecordingsSettle ==
  \A r \in Recordings : r \in {job, busy} ~> (r \notin {job, busy} \/ stop \/ pc = "consent")

(* A model in a process that has died does not stay loaded in name: it is  *)
(* dropped, and the engine is back or said to have failed (run,            *)
(* host_went_down).                                                        *)
EngineComesBack ==
  (status = "ready" /\ host \notin alive)
    ~> (status = "failed" \/ host \in alive \/ stop \/ pc = "consent")

=============================================================================
