----------------------- MODULE EngineSupervisorProofs -----------------------
(***************************************************************************)
(* Theorems about EngineSupervisor, for any numbers of recordings,         *)
(* commands, faults and restarts.  Four invariants are each inductive over *)
(* TypeOK: where the processes are (Processes), what is loaded and for     *)
(* whom (Loading), how many have been started (Budget), and whose word the *)
(* tier is (Asked).                                                        *)
(***************************************************************************)
EXTENDS EngineSupervisor, TLAPS

(* What runs is held and still being read; and what is held and not read   *)
(* any more has left its signal in the queue, which only a later           *)
(* generation can overwrite.                                               *)
Processes ==
  /\ alive \subseteq {host} /\ alive \subseteq reading
  /\ host # NoHost => host \in reading \/ host = down
  /\ pc = "stopped" => alive = {}

Setup   == {"start", "ensure", "consent", "download", "load"}
Probing == caller = "probe" /\ pc \in Setup \union {"hello", "clip"}

(* What is loaded is the supervisor's tier, but for the clip's time.       *)
Loading ==
  /\ loaded # None => host # NoHost
  /\ pc = "prepare" => loaded = None
  /\ pc = "clip" => loaded = "vulkan"
  /\ loaded # None => pc = "clip" \/ loaded = tier
  /\ pc \in {"hello", "clip"} => caller = "probe"
  /\ (pc \in Setup /\ caller # "probe") => tier # None
  /\ pc = "transcribe" => loaded # None
  /\ (pc = "take" /\ status = "ready") => loaded # None

(* A start-up starts two at most, and each other one is a restart counted. *)
Budget ==
  /\ spawned <= restarts + 2 /\ spawned <= MaxRestarts + 2
  /\ pc = "prepare" => spawned = 0 /\ restarts = 0
  /\ pc = "start" => spawned <= restarts + 1 /\ restarts <= MaxRestarts
  /\ (pc = "start" /\ caller = "probe") => spawned = 0
  /\ (Probing \/ pc \in {"hello", "clip", "ensure", "consent", "download"}) => spawned <= 1 /\ restarts = 0

(* A change of the setting that prepare has not seen is in the notices or  *)
(* in the queue.                                                           *)
Asked ==
  (notices = 0 /\ ~retier /\ tier_override # None) =>
    /\ pc = "prepare" \/ tier = tier_override
    /\ ~Probing

-----------------------------------------------------------------------------
(* Types: counters, generations and processes. *)
LEMMA NumbersInit == Init => Numbers
  BY EngineAssumption DEF Init, Numbers, None, NoHost, NoJob, Recordings

(* ... and every step keeps it so. *)
LEMMA NumbersStep ==
  ASSUME Numbers, [Next]_vars
  PROVE  Numbers'
<1> USE EngineAssumption DEF Numbers, None, NoHost, NoJob, Recordings
<1> USE DEF queue, supervisor, processes, disk, settings, counters, history
<1>1. CASE Submit BY <1>1 DEF Submit
<1>2. CASE SetTier BY <1>2 DEF SetTier
<1>3. CASE Notify BY <1>3 DEF Notify
<1>4. CASE AskReprobe BY <1>4 DEF AskReprobe
<1>5. CASE AskStop BY <1>5 DEF AskStop
<1>6. CASE ProcessDies BY <1>6 DEF ProcessDies, Fault
<1>7. CASE Readers BY <1>7 DEF Readers, ReaderEnds
<1>8. CASE Prepare BY <1>8 DEF Prepare, PrepareOverride, PrepareRecord, PrepareProbe,
      SavesRecord, Fault
<1>9. CASE Ensure BY <1>9 DEF Ensure, GoOn, Wanted, Report
<1>10. CASE Answer BY <1>10 DEF Answer, Report
<1>11. CASE Downloaded BY <1>11 DEF Downloaded, GoOn, Wanted, Report
<1>12. CASE DownloadFails BY <1>12 DEF DownloadFails, Report, Fault
<1>13. CASE Start
  <2>1. generation' = generation + 1 /\ host' \in {NoHost, generation'}
    BY <1>13 DEF Start, StartHost
  <2>2. alive' \subseteq alive \union {generation'} /\ reading' \subseteq reading \union {generation'}
    BY <1>13 DEF Start, StartHost
  <2>3. faults' \in 0..FaultBound /\ spawned' \in Nat
    BY <1>13 DEF Start, StartHost, Fault
  <2>4. UNCHANGED <<restarts, job, busy, down, notices, submitted, commands>>
    BY <1>13 DEF Start
  <2> QED BY <2>1, <2>2, <2>3, <2>4
<1>14. CASE Hello
  <2>1. alive' \subseteq alive /\ host' \in {NoHost, host}
    BY <1>14 DEF Hello, RequestFails, RequestAnswered, Refuse, Decide, SavesRecord, DropHost,
      Report, Fault
  <2>2. faults' \in 0..FaultBound
    BY <1>14 DEF Hello, RequestFails, RequestAnswered, Refuse, Decide, SavesRecord, DropHost,
      Report, Fault
  <2>4. UNCHANGED <<generation, reading, job, busy, down, notices, submitted, commands, restarts, spawned>>
    BY <1>14 DEF Hello
  <2> QED BY <2>1, <2>2, <2>4
<1>15. CASE Load
  <2>1. alive' \subseteq alive /\ host' \in {NoHost, host}
    BY <1>15 DEF Load, LoadAnswered, LoadFails, LoadRefused, StartFails, RequestFails,
      RequestAnswered, Refuse, Decide, SavesRecord, DropHost, Wanted, Report, Fault
  <2>2. faults' \in 0..FaultBound
    BY <1>15 DEF Load, LoadAnswered, LoadFails, LoadRefused, StartFails, RequestFails,
      RequestAnswered, Refuse, Decide, SavesRecord, DropHost, Wanted, Report, Fault
  <2>4. UNCHANGED <<generation, reading, job, busy, down, notices, submitted, commands, restarts, spawned>>
    BY <1>15 DEF Load
  <2> QED BY <2>1, <2>2, <2>4
<1>16. CASE Clip
  <2>1. alive' \subseteq alive /\ host' \in {NoHost, host}
    BY <1>16 DEF Clip, Refuse, Decide, SavesRecord, DropHost, Fault
  <2>2. faults' \in 0..FaultBound
    BY <1>16 DEF Clip, Refuse, Decide, SavesRecord, DropHost, Fault
  <2>4. UNCHANGED <<generation, reading, job, busy, down, notices, submitted, commands, restarts, spawned>>
    BY <1>16 DEF Clip
  <2> QED BY <2>1, <2>2, <2>4
<1>17. CASE Leave BY <1>17 DEF Leave, DropHost
<1>18. CASE HostDown
  <2>1. alive' \subseteq alive /\ host' \in {NoHost, host}
    BY <1>18 DEF HostDown, DropHost, Awake
  <2>2. faults' \in 0..FaultBound
    BY <1>18 DEF HostDown, DropHost, Awake
  <2>3. down' = NoHost
    BY <1>18 DEF HostDown, DropHost, Awake
  <2>4. UNCHANGED <<generation, reading, job, busy, notices, submitted, commands, restarts, spawned>>
    BY <1>18 DEF HostDown
  <2> QED BY <2>1, <2>2, <2>3, <2>4
<1>19. CASE Respawn BY <1>19 DEF Respawn, Report
<1>20. CASE Reprobe BY <1>20 DEF Reprobe, BringUp, DropHost, Awake
<1>21. CASE Retier
  <2>1. alive' \subseteq alive /\ host' \in {NoHost, host}
    BY <1>21 DEF Retier, BringUp, DropHost, Awake
  <2>2. faults' \in 0..FaultBound
    BY <1>21 DEF Retier, BringUp, DropHost, Awake
  <2>3. restarts' \in Nat /\ spawned' \in Nat
    BY <1>21 DEF Retier, BringUp, DropHost, Awake
  <2>4. UNCHANGED <<generation, reading, job, busy, down, notices, submitted, commands>>
    BY <1>21 DEF Retier
  <2> QED BY <2>1, <2>2, <2>3, <2>4
<1>22. CASE LetGo BY <1>22 DEF LetGo, NextJob, Awake
<1>23. CASE Dictate BY <1>23 DEF Dictate, NextJob, Awake
<1>24. CASE Deliver
  <2>1. alive' \subseteq alive /\ host' \in {NoHost, host}
    BY <1>24 DEF Deliver, Transcribed, TranscriptionLost, RequestFails, RequestAnswered,
      Report, Fault
  <2>2. faults' \in 0..FaultBound
    BY <1>24 DEF Deliver, Transcribed, TranscriptionLost, RequestFails, RequestAnswered,
      Report, Fault
  <2>3. restarts' \in Nat /\ spawned' \in Nat /\ busy' = NoJob
    BY <1>24 DEF Deliver, Transcribed, TranscriptionLost, RequestFails, RequestAnswered,
      Report, Fault
  <2>4. UNCHANGED <<generation, reading, job, down, notices, submitted, commands>>
    BY <1>24 DEF Deliver
  <2> QED BY <2>1, <2>2, <2>3, <2>4
<1>25. CASE UNCHANGED vars BY <1>25 DEF vars
<1> QED BY <1>1, <1>2, <1>3, <1>4, <1>5, <1>6, <1>7, <1>8, <1>9, <1>10, <1>11, <1>12,
      <1>13, <1>14, <1>15, <1>16, <1>17, <1>18, <1>19, <1>20, <1>21, <1>22, <1>23, <1>24,
      <1>25
      DEF Next, Others, Works

-----------------------------------------------------------------------------
(* Types: where the supervisor is. *)
LEMMA ControlInit == Init => Control
  BY EngineAssumption DEF Init, Control, Steps, States

(* ... and every step keeps it so. *)
LEMMA ControlStep ==
  ASSUME Control, [Next]_vars
  PROVE  Control'
<1> USE EngineAssumption DEF Control, Steps, States
<1> USE DEF queue, supervisor, processes, disk, settings, counters, history
<1>1. CASE Submit BY <1>1 DEF Submit
<1>2. CASE SetTier BY <1>2 DEF SetTier
<1>3. CASE Notify BY <1>3 DEF Notify
<1>4. CASE AskReprobe BY <1>4 DEF AskReprobe
<1>5. CASE AskStop BY <1>5 DEF AskStop
<1>6. CASE ProcessDies BY <1>6 DEF ProcessDies, Fault
<1>7. CASE Readers BY <1>7 DEF Readers, ReaderEnds
<1>8. CASE Prepare BY <1>8 DEF Prepare, PrepareOverride, PrepareRecord, PrepareProbe,
      SavesRecord, Fault
<1>9. CASE Ensure BY <1>9 DEF Ensure, GoOn, Wanted, Report
<1>10. CASE Answer BY <1>10 DEF Answer, Report
<1>11. CASE Downloaded BY <1>11 DEF Downloaded, GoOn, Wanted, Report
<1>12. CASE DownloadFails BY <1>12 DEF DownloadFails, Report, Fault
<1>13. CASE Start BY <1>13 DEF Start, StartHost, StartFails, Report, Fault
<1>14. CASE Hello BY <1>14 DEF Hello, RequestFails, RequestAnswered, Refuse, Decide,
      SavesRecord, DropHost, Report, Fault
<1>15. CASE Load BY <1>15 DEF Load, LoadAnswered, LoadFails, LoadRefused, StartFails,
      RequestFails, RequestAnswered, Refuse, Decide, SavesRecord, DropHost, Wanted, Report,
      Fault
<1>16. CASE Clip BY <1>16 DEF Clip, Refuse, Decide, SavesRecord, DropHost, Fault
<1>17. CASE Leave BY <1>17 DEF Leave, DropHost
<1>18. CASE HostDown BY <1>18 DEF HostDown, DropHost, Awake
<1>19. CASE Respawn BY <1>19 DEF Respawn, Report
<1>20. CASE Reprobe BY <1>20 DEF Reprobe, BringUp, DropHost, Awake
<1>21. CASE Retier BY <1>21 DEF Retier, BringUp, DropHost, Awake
<1>22. CASE LetGo BY <1>22 DEF LetGo, NextJob, Awake
<1>23. CASE Dictate BY <1>23 DEF Dictate, NextJob, Awake
<1>24. CASE Deliver BY <1>24 DEF Deliver, Transcribed, TranscriptionLost, RequestFails,
      RequestAnswered, Report, Fault
<1>25. CASE UNCHANGED vars BY <1>25 DEF vars
<1> QED BY <1>1, <1>2, <1>3, <1>4, <1>5, <1>6, <1>7, <1>8, <1>9, <1>10, <1>11, <1>12,
      <1>13, <1>14, <1>15, <1>16, <1>17, <1>18, <1>19, <1>20, <1>21, <1>22, <1>23, <1>24,
      <1>25
      DEF Next, Others, Works

-----------------------------------------------------------------------------
(* What the steps need to know of the data: models, records, tiers. *)
LEMMA Data ==
  /\ None \in MaybeTier /\ None \notin Tiers /\ \A t \in MaybeTier : t # None => t \in Tiers
  /\ \A t \in Tiers : t \in MaybeTier
  /\ "vulkan" \in Tiers /\ "cpu" \in Tiers
  /\ Empty \in Models
  /\ \A d, f \in MaybeTier : [device |-> d, file |-> f] \in Models
  /\ \A t \in Tiers, p \in MaybeTier : [tier |-> t, probed |-> p] \in Records
  /\ \A r \in Records : r.tier \in Tiers /\ r.probed \in MaybeTier
  /\ NoRecord.tier = None /\ NoRecord.probed = None
  BY DEF MaybeTier, Tiers, None, Empty, Models, Records, NoRecord

-----------------------------------------------------------------------------
(* Types: everything else. *)
LEMMA WordsInit == Init => Words
  BY EngineAssumption, Data DEF Init, Words

(* ... and every step keeps it so. *)
LEMMA WordsStep ==
  ASSUME Words, Loading, [Next]_vars
  PROVE  Words'
<1> USE EngineAssumption, Data DEF Words
<1> USE DEF queue, supervisor, processes, disk, settings, counters, history
<1>1. CASE Submit BY <1>1 DEF Submit
<1>2. CASE SetTier BY <1>2 DEF SetTier
<1>3. CASE Notify BY <1>3 DEF Notify
<1>4. CASE AskReprobe BY <1>4 DEF AskReprobe
<1>5. CASE AskStop BY <1>5 DEF AskStop
<1>6. CASE ProcessDies BY <1>6 DEF ProcessDies, Fault
<1>7. CASE Readers BY <1>7 DEF Readers, ReaderEnds
<1>8. CASE Prepare BY <1>8 DEF Prepare, PrepareOverride, PrepareRecord, PrepareProbe,
      SavesRecord, Fault
<1>9. CASE Ensure BY <1>9 DEF Ensure, GoOn, Wanted, Report
<1>10. CASE Answer BY <1>10 DEF Answer, Report
<1>11. CASE Downloaded
  <2>1. Wanted \in Tiers BY <1>11, Loading, Data DEF Downloaded, Wanted, Loading, Setup
  <2>2. CASE caller = "probe" BY <1>11, <2>1, <2>2 DEF Downloaded, GoOn
  <2>3. CASE caller # "probe" BY <1>11, <2>1, <2>3 DEF Downloaded, GoOn
  <2> QED BY <2>2, <2>3
<1>12. CASE DownloadFails BY <1>12 DEF DownloadFails, Report, Fault
<1>13. CASE Start BY <1>13 DEF Start, StartHost
<1>14. CASE Hello
  <2>1. CASE Refuse BY <1>14, <2>1 DEF Hello, Refuse, Decide, SavesRecord, DropHost
  <2>2. CASE ~Refuse BY <1>14, <2>2 DEF Hello
  <2> QED BY <2>1, <2>2
<1>15. CASE Load
  <2>1. CASE LoadAnswered
    <3>1. Wanted \in MaybeTier BY Data DEF Wanted
    <3> QED BY <1>15, <2>1, <3>1 DEF Load, LoadAnswered
  <2>2. CASE LoadFails BY <1>15, <2>2 DEF Load, LoadFails
  <2>3. CASE LoadRefused BY <1>15, <2>3 DEF Load, LoadRefused, Refuse, Decide, SavesRecord, DropHost
  <2> QED BY <1>15, <2>1, <2>2, <2>3 DEF Load
<1>16. CASE Clip
  <2>1. CASE Refuse BY <1>16, <2>1 DEF Clip, Refuse, Decide, SavesRecord, DropHost
  <2>2. CASE ~Refuse BY <1>16, <2>2 DEF Clip, Decide, SavesRecord
  <2> QED BY <2>1, <2>2
<1>17. CASE Leave BY <1>17 DEF Leave, DropHost
<1>18. CASE HostDown
  <2>1. CASE down = generation BY <1>18, <2>1 DEF HostDown, DropHost
  <2>2. CASE down # generation BY <1>18, <2>2 DEF HostDown
  <2> QED BY <2>1, <2>2
<1>19. CASE Respawn BY <1>19 DEF Respawn, Report
<1>20. CASE Reprobe BY <1>20 DEF Reprobe, BringUp, DropHost, Awake
<1>21. CASE Retier
  <2>1. CASE BringUp BY <1>21, <2>1 DEF Retier, BringUp, DropHost
  <2>2. CASE ~BringUp BY <1>21, <2>2 DEF Retier
  <2> QED BY <2>1, <2>2
<1>22. CASE LetGo BY <1>22 DEF LetGo, NextJob, Awake
<1>23. CASE Dictate BY <1>23 DEF Dictate, NextJob, Awake
<1>24. CASE Deliver BY <1>24 DEF Deliver, Transcribed, TranscriptionLost
<1>25. CASE UNCHANGED vars BY <1>25 DEF vars
<1> QED BY <1>1, <1>2, <1>3, <1>4, <1>5, <1>6, <1>7, <1>8, <1>9, <1>10, <1>11, <1>12,
      <1>13, <1>14, <1>15, <1>16, <1>17, <1>18, <1>19, <1>20, <1>21, <1>22, <1>23, <1>24,
      <1>25
      DEF Next, Others, Works

-----------------------------------------------------------------------------
(* No process is lost hold of, and no death goes unnoticed. *)
LEMMA ProcessesInit == Init => Processes
  BY EngineAssumption DEF Init, Processes, NoHost, TypeOK, Numbers, Control, Words

(* ... and every step keeps it so. *)
LEMMA ProcessesStep ==
  ASSUME TypeOK, Processes, [Next]_vars
  PROVE  Processes'
<1> USE EngineAssumption DEF Processes, NoHost, TypeOK, Numbers, Control, Words
<1> USE DEF queue, supervisor, processes, disk, settings, counters, history
<1>1. CASE Submit BY <1>1 DEF Submit
<1>2. CASE SetTier BY <1>2 DEF SetTier
<1>3. CASE Notify BY <1>3 DEF Notify
<1>4. CASE AskReprobe BY <1>4 DEF AskReprobe
<1>5. CASE AskStop BY <1>5 DEF AskStop
<1>6. CASE ProcessDies BY <1>6 DEF ProcessDies, Fault
<1>7. CASE Readers BY <1>7 DEF Readers, ReaderEnds
<1>8. CASE Prepare BY <1>8 DEF Prepare, PrepareOverride, PrepareRecord, PrepareProbe,
      SavesRecord, Fault
<1>9. CASE Ensure BY <1>9 DEF Ensure, GoOn, Wanted, Report
<1>10. CASE Answer BY <1>10 DEF Answer, Report
<1>11. CASE Downloaded BY <1>11 DEF Downloaded, GoOn, Wanted, Report
<1>12. CASE DownloadFails BY <1>12 DEF DownloadFails, Report, Fault
<1>13. CASE Start BY <1>13 DEF Start, StartHost, StartFails, Report, Fault
<1>14. CASE Hello BY <1>14 DEF Hello, RequestFails, RequestAnswered, Refuse, Decide,
      SavesRecord, DropHost, Report, Fault
<1>15. CASE Load BY <1>15 DEF Load, LoadAnswered, LoadFails, LoadRefused, StartFails,
      RequestFails, RequestAnswered, Refuse, Decide, SavesRecord, DropHost, Wanted, Report,
      Fault
<1>16. CASE Clip BY <1>16 DEF Clip, Refuse, Decide, SavesRecord, DropHost, Fault
<1>17. CASE Leave BY <1>17 DEF Leave, DropHost
<1>18. CASE HostDown BY <1>18 DEF HostDown, DropHost, Awake
<1>19. CASE Respawn BY <1>19 DEF Respawn, Report
<1>20. CASE Reprobe BY <1>20 DEF Reprobe, BringUp, DropHost, Awake
<1>21. CASE Retier BY <1>21 DEF Retier, BringUp, DropHost, Awake
<1>22. CASE LetGo BY <1>22 DEF LetGo, NextJob, Awake
<1>23. CASE Dictate BY <1>23 DEF Dictate, NextJob, Awake
<1>24. CASE Deliver BY <1>24 DEF Deliver, Transcribed, TranscriptionLost, RequestFails,
      RequestAnswered, Report, Fault
<1>25. CASE UNCHANGED vars BY <1>25 DEF vars
<1> QED BY <1>1, <1>2, <1>3, <1>4, <1>5, <1>6, <1>7, <1>8, <1>9, <1>10, <1>11, <1>12,
      <1>13, <1>14, <1>15, <1>16, <1>17, <1>18, <1>19, <1>20, <1>21, <1>22, <1>23, <1>24,
      <1>25
      DEF Next, Others, Works

-----------------------------------------------------------------------------
(* What is loaded is of the tier the supervisor is on. *)
LEMMA LoadingInit == Init => Loading
  BY EngineAssumption DEF Init, Loading, Setup, None, NoHost, NoJob, Tiers, MaybeTier, Records, NoRecord, TypeOK, Numbers, Control, Words

(* ... and every step keeps it so. *)
LEMMA LoadingStep ==
  ASSUME TypeOK, Loading, [Next]_vars
  PROVE  Loading'
<1> USE EngineAssumption DEF Loading, Setup, None, NoHost, NoJob, Tiers, MaybeTier, Records, NoRecord, TypeOK, Numbers,
      Control, Words
<1> USE DEF queue, supervisor, processes, disk, settings, counters, history
<1>1. CASE Submit BY <1>1 DEF Submit
<1>2. CASE SetTier BY <1>2 DEF SetTier
<1>3. CASE Notify BY <1>3 DEF Notify
<1>4. CASE AskReprobe BY <1>4 DEF AskReprobe
<1>5. CASE AskStop BY <1>5 DEF AskStop
<1>6. CASE ProcessDies BY <1>6 DEF ProcessDies, Fault
<1>7. CASE Readers BY <1>7 DEF Readers, ReaderEnds
<1>8. CASE Prepare BY <1>8 DEF Prepare, PrepareOverride, PrepareRecord, PrepareProbe,
      SavesRecord, Fault
<1>9. CASE Ensure BY <1>9 DEF Ensure, GoOn, Wanted, Report
<1>10. CASE Answer BY <1>10 DEF Answer, Report
<1>11. CASE Downloaded BY <1>11 DEF Downloaded, GoOn, Wanted, Report
<1>12. CASE DownloadFails BY <1>12 DEF DownloadFails, Report, Fault
<1>13. CASE Start BY <1>13 DEF Start, StartHost, StartFails, Report, Fault
<1>14. CASE Hello BY <1>14 DEF Hello, RequestFails, RequestAnswered, Refuse, Decide,
      SavesRecord, DropHost, Report, Fault
<1>15. CASE Load BY <1>15 DEF Load, LoadAnswered, LoadFails, LoadRefused, StartFails,
      RequestFails, RequestAnswered, Refuse, Decide, SavesRecord, DropHost, Wanted, Report,
      Fault
<1>16. CASE Clip BY <1>16 DEF Clip, Refuse, Decide, SavesRecord, DropHost, Fault
<1>17. CASE Leave BY <1>17 DEF Leave, DropHost
<1>18. CASE HostDown BY <1>18 DEF HostDown, DropHost, Awake
<1>19. CASE Respawn BY <1>19 DEF Respawn, Report
<1>20. CASE Reprobe BY <1>20 DEF Reprobe, BringUp, DropHost, Awake
<1>21. CASE Retier BY <1>21 DEF Retier, BringUp, DropHost, Awake
<1>22. CASE LetGo BY <1>22 DEF LetGo, NextJob, Awake
<1>23. CASE Dictate BY <1>23 DEF Dictate, NextJob, Awake
<1>24. CASE Deliver BY <1>24 DEF Deliver, Transcribed, TranscriptionLost, RequestFails,
      RequestAnswered, Report, Fault
<1>25. CASE UNCHANGED vars BY <1>25 DEF vars
<1> QED BY <1>1, <1>2, <1>3, <1>4, <1>5, <1>6, <1>7, <1>8, <1>9, <1>10, <1>11, <1>12,
      <1>13, <1>14, <1>15, <1>16, <1>17, <1>18, <1>19, <1>20, <1>21, <1>22, <1>23, <1>24,
      <1>25
      DEF Next, Others, Works

-----------------------------------------------------------------------------
(* Starts are counted against restarts. *)
LEMMA BudgetInit == Init => Budget
  BY EngineAssumption DEF Init, Budget, Probing, Setup, TypeOK, Numbers, Control, Words, Loading, None

(* ... and every step keeps it so. *)
LEMMA BudgetStep ==
  ASSUME TypeOK, Loading, Budget, [Next]_vars
  PROVE  Budget'
<1> USE EngineAssumption DEF Budget, Probing, Setup, TypeOK, Numbers, Control, Words, Loading, None
<1> USE DEF queue, supervisor, processes, disk, settings, counters, history
<1>1. CASE Submit BY <1>1 DEF Submit
<1>2. CASE SetTier BY <1>2 DEF SetTier
<1>3. CASE Notify BY <1>3 DEF Notify
<1>4. CASE AskReprobe BY <1>4 DEF AskReprobe
<1>5. CASE AskStop BY <1>5 DEF AskStop
<1>6. CASE ProcessDies BY <1>6 DEF ProcessDies, Fault
<1>7. CASE Readers BY <1>7 DEF Readers, ReaderEnds
<1>8. CASE Prepare BY <1>8 DEF Prepare, PrepareOverride, PrepareRecord, PrepareProbe,
      SavesRecord, Fault
<1>9. CASE Ensure BY <1>9 DEF Ensure, GoOn, Wanted, Report
<1>10. CASE Answer BY <1>10 DEF Answer, Report
<1>11. CASE Downloaded BY <1>11 DEF Downloaded, GoOn, Wanted, Report
<1>12. CASE DownloadFails BY <1>12 DEF DownloadFails, Report, Fault
<1>13. CASE Start BY <1>13 DEF Start, StartHost, StartFails, Report, Fault
<1>14. CASE Hello BY <1>14 DEF Hello, RequestFails, RequestAnswered, Refuse, Decide,
      SavesRecord, DropHost, Report, Fault
<1>15. CASE Load BY <1>15 DEF Load, LoadAnswered, LoadFails, LoadRefused, StartFails,
      RequestFails, RequestAnswered, Refuse, Decide, SavesRecord, DropHost, Wanted, Report,
      Fault
<1>16. CASE Clip BY <1>16 DEF Clip, Refuse, Decide, SavesRecord, DropHost, Fault
<1>17. CASE Leave BY <1>17 DEF Leave, DropHost
<1>18. CASE HostDown BY <1>18 DEF HostDown, DropHost, Awake
<1>19. CASE Respawn BY <1>19 DEF Respawn, Report
<1>20. CASE Reprobe BY <1>20 DEF Reprobe, BringUp, DropHost, Awake
<1>21. CASE Retier BY <1>21 DEF Retier, BringUp, DropHost, Awake
<1>22. CASE LetGo BY <1>22 DEF LetGo, NextJob, Awake
<1>23. CASE Dictate BY <1>23 DEF Dictate, NextJob, Awake
<1>24. CASE Deliver BY <1>24 DEF Deliver, Transcribed, TranscriptionLost, RequestFails,
      RequestAnswered, Report, Fault
<1>25. CASE UNCHANGED vars BY <1>25 DEF vars
<1> QED BY <1>1, <1>2, <1>3, <1>4, <1>5, <1>6, <1>7, <1>8, <1>9, <1>10, <1>11, <1>12,
      <1>13, <1>14, <1>15, <1>16, <1>17, <1>18, <1>19, <1>20, <1>21, <1>22, <1>23, <1>24,
      <1>25
      DEF Next, Others, Works

-----------------------------------------------------------------------------
(* Nothing the user has asked for is forgotten on the way. *)
LEMMA AskedInit == Init => Asked
  BY EngineAssumption DEF Init, Asked, Probing, Setup, TypeOK, Numbers, Control, Words, Loading, None

(* ... and every step keeps it so. *)
LEMMA AskedStep ==
  ASSUME TypeOK, Loading, Asked, [Next]_vars
  PROVE  Asked'
<1> USE EngineAssumption DEF Asked, Probing, Setup, TypeOK, Numbers, Control, Words, Loading, None
<1> USE DEF queue, supervisor, processes, disk, settings, counters, history
<1>1. CASE Submit BY <1>1 DEF Submit
<1>2. CASE SetTier BY <1>2 DEF SetTier
<1>3. CASE Notify BY <1>3 DEF Notify
<1>4. CASE AskReprobe BY <1>4 DEF AskReprobe
<1>5. CASE AskStop BY <1>5 DEF AskStop
<1>6. CASE ProcessDies BY <1>6 DEF ProcessDies, Fault
<1>7. CASE Readers BY <1>7 DEF Readers, ReaderEnds
<1>8. CASE Prepare BY <1>8 DEF Prepare, PrepareOverride, PrepareRecord, PrepareProbe,
      SavesRecord, Fault
<1>9. CASE Ensure BY <1>9 DEF Ensure, GoOn, Wanted, Report
<1>10. CASE Answer BY <1>10 DEF Answer, Report
<1>11. CASE Downloaded BY <1>11 DEF Downloaded, GoOn, Wanted, Report
<1>12. CASE DownloadFails BY <1>12 DEF DownloadFails, Report, Fault
<1>13. CASE Start BY <1>13 DEF Start, StartHost, StartFails, Report, Fault
<1>14. CASE Hello BY <1>14 DEF Hello, RequestFails, RequestAnswered, Refuse, Decide,
      SavesRecord, DropHost, Report, Fault
<1>15. CASE Load BY <1>15 DEF Load, LoadAnswered, LoadFails, LoadRefused, StartFails,
      RequestFails, RequestAnswered, Refuse, Decide, SavesRecord, DropHost, Wanted, Report,
      Fault
<1>16. CASE Clip BY <1>16 DEF Clip, Refuse, Decide, SavesRecord, DropHost, Fault
<1>17. CASE Leave BY <1>17 DEF Leave, DropHost
<1>18. CASE HostDown BY <1>18 DEF HostDown, DropHost, Awake
<1>19. CASE Respawn BY <1>19 DEF Respawn, Report
<1>20. CASE Reprobe BY <1>20 DEF Reprobe, BringUp, DropHost, Awake
<1>21. CASE Retier BY <1>21 DEF Retier, BringUp, DropHost, Awake
<1>22. CASE LetGo BY <1>22 DEF LetGo, NextJob, Awake
<1>23. CASE Dictate BY <1>23 DEF Dictate, NextJob, Awake
<1>24. CASE Deliver BY <1>24 DEF Deliver, Transcribed, TranscriptionLost, RequestFails,
      RequestAnswered, Report, Fault
<1>25. CASE UNCHANGED vars BY <1>25 DEF vars
<1> QED BY <1>1, <1>2, <1>3, <1>4, <1>5, <1>6, <1>7, <1>8, <1>9, <1>10, <1>11, <1>12,
      <1>13, <1>14, <1>15, <1>16, <1>17, <1>18, <1>19, <1>20, <1>21, <1>22, <1>23, <1>24,
      <1>25
      DEF Next, Others, Works

-----------------------------------------------------------------------------
IInv == TypeOK /\ Processes /\ Loading /\ Budget /\ Asked

(* All of it together is inductive. *)
THEOREM Invariance == Spec => []IInv
<1>1. Init => IInv
  BY NumbersInit, ControlInit, WordsInit, ProcessesInit, LoadingInit, BudgetInit, AskedInit
     DEF IInv, TypeOK
<1>2. IInv /\ [Next]_vars => IInv'
  BY NumbersStep, ControlStep, WordsStep, ProcessesStep, LoadingStep, BudgetStep, AskedStep
     DEF IInv, TypeOK
<1> QED BY <1>1, <1>2, PTL DEF Spec

(* Every variable of the supervisor, its queue, its processes and its files *)
(* keeps its type; a generation that is held is the current one.            *)
THEOREM TypeCorrect == Spec => []TypeOK
BY Invariance, PTL DEF IInv

(* There is never a second engine process, nor one nobody holds, nor one    *)
(* left behind by a supervisor that has gone (start_host, drop_host).       *)
THEOREM OneEngineAtATime == Spec => []OneEngine
<1>1. IInv => OneEngine BY DEF IInv, Processes, OneEngine
<1> QED BY Invariance, <1>1, PTL

(* An engine called ready is loaded with the supervisor's tier and running, *)
(* or the news of its end is on the way, in whatever order the readers of   *)
(* several processes report (host_down, run).                               *)
THEOREM ReadyIsTrueOrNoticed == Spec => []ReadyOrNoticed
<1>1. IInv => ReadyOrNoticed BY DEF IInv, Processes, Loading, ReadyOrNoticed
<1> QED BY Invariance, <1>1, PTL

(* Between two signs of life no more than MaxRestarts + 2 processes are     *)
(* started, however they fail (host_went_down).                             *)
THEOREM RespawnsAreBounded == Spec => []NotForEver
<1>1. IInv => NotForEver BY DEF IInv, Budget, NotForEver
<1> QED BY Invariance, <1>1, PTL

(* The tier the user asked for is the one in use, when every change of the  *)
(* setting has been dealt with (prepare, retier).                           *)
THEOREM TheUsersTier == Spec => []AskedTierIsUsed
<1>1. IInv => AskedTierIsUsed BY DEF IInv, Asked, AskedTierIsUsed
<1> QED BY Invariance, <1>1, PTL

-----------------------------------------------------------------------------
(* What waits is the newest recording, what is worked on is older, and     *)
(* something is worked on only while the supervisor transcribes.           *)
Jobs ==
  /\ job # NoJob => job = submitted
  /\ busy # NoJob => busy <= submitted /\ busy # job /\ pc = "transcribe"

(* The steps that say nothing about a recording. *)
Elsewhere ==
  /\ UNCHANGED <<job, busy, submitted, fate>>
  /\ pc = "transcribe" => pc' = "transcribe"

LEMMA StepsElsewhere ==
  ASSUME TypeOK, [Next]_vars
  PROVE  Submit \/ LetGo \/ Dictate \/ Deliver \/ Elsewhere
<1> USE DEF Elsewhere, queue, supervisor, processes, disk, settings, counters, history
<1>1. ASSUME Others \/ Readers \/ Answer \/ UNCHANGED vars PROVE Submit \/ Elsewhere
  BY <1>1 DEF Others, SetTier, Notify, AskReprobe, AskStop, ProcessDies, Readers, ReaderEnds,
     Answer, Fault, Report, vars
<1>2. ASSUME Prepare \/ Ensure \/ Downloaded \/ DownloadFails \/ Start PROVE Elsewhere
  BY <1>2 DEF Prepare, Ensure, Downloaded, DownloadFails, Start, StartHost
<1>3. ASSUME Hello \/ Load \/ Clip PROVE Elsewhere
  BY <1>3 DEF Hello, Load, Clip
<1>4. ASSUME Leave \/ HostDown \/ Respawn \/ Reprobe \/ Retier PROVE Elsewhere
  BY <1>4 DEF Leave, HostDown, Respawn, Reprobe, Retier, Awake, BringUp
<1> QED
  BY <1>1, <1>2, <1>3, <1>4 DEF Next, Works

LEMMA JobsStep ==
  ASSUME TypeOK, Jobs, [Next]_vars
  PROVE  Jobs'
<1> USE DEF Jobs, TypeOK, Numbers, Recordings, NoJob
<1>1. CASE Elsewhere BY <1>1 DEF Elsewhere
<1>2. CASE Submit BY <1>2 DEF Submit, supervisor
<1>3. CASE LetGo BY <1>3 DEF LetGo, NextJob, counters, supervisor
<1>4. CASE Dictate BY <1>4 DEF Dictate, NextJob, Awake, counters
<1>5. CASE Deliver BY <1>5 DEF Deliver, queue
<1> QED
  BY <1>1, <1>2, <1>3, <1>4, <1>5, StepsElsewhere

-----------------------------------------------------------------------------
(* Where each recording is, for the Transcriber. *)
Queued == TypeOK /\ Jobs

Staged ==
  \A r \in Recordings :
    /\ (r > submitted => Stages[r] = "unspoken")
    /\ (r <= submitted /\ r = busy => Stages[r] = "working")
    /\ (r <= submitted /\ r # busy /\ r = job => Stages[r] = "queued")
    /\ (r <= submitted /\ r # busy /\ r # job => Stages[r] = fate[r])
    /\ (Stages[r] = "unspoken" => r > submitted)
    /\ (Stages[r] = "working" => r = busy)
    /\ (Stages[r] = "queued" => r = job /\ r # busy)

LEMMA StagesAre == Queued => Staged
<1> SUFFICES ASSUME Queued, NEW r \in Recordings
    PROVE /\ (r > submitted => Stages[r] = "unspoken")
          /\ (r <= submitted /\ r = busy => Stages[r] = "working")
          /\ (r <= submitted /\ r # busy /\ r = job => Stages[r] = "queued")
          /\ (r <= submitted /\ r # busy /\ r # job => Stages[r] = fate[r])
          /\ (Stages[r] = "unspoken" => r > submitted)
          /\ (Stages[r] = "working" => r = busy)
          /\ (Stages[r] = "queued" => r = job /\ r # busy)
  BY DEF Staged
<1>1. r \in Nat /\ submitted \in Nat
  BY EngineAssumption DEF Queued, TypeOK, Numbers, Recordings
<1>2. fate[r] \in {"none", "shown", "closed", "replaced"}
  BY DEF Queued, TypeOK, Words
<1>3. Stages[r] = Stage(r)
  BY DEF Stages
<1>4. r > submitted <=> ~(r <= submitted)
  BY <1>1
<1>5. CASE r > submitted
  <2>1. r # NoJob /\ r # busy /\ r # job
    BY <1>1, <1>5 DEF Queued, Jobs, NoJob, Recordings
  <2> QED
    BY <1>3, <1>4, <1>5, <2>1 DEF Stage
<1>6. CASE r <= submitted /\ r = busy
  <2>1. r # NoJob /\ r # job
    BY <1>6 DEF Queued, Jobs, NoJob, Recordings
  <2> QED
    BY <1>3, <1>4, <1>6, <2>1 DEF Stage
<1>7. CASE r <= submitted /\ r # busy /\ r = job
  BY <1>3, <1>4, <1>7 DEF Stage
<1>8. CASE r <= submitted /\ r # busy /\ r # job
  <2>1. Stages[r] = fate[r]
    BY <1>3, <1>4, <1>8 DEF Stage
  <2> QED
    BY <1>2, <1>4, <1>8, <2>1
<1> QED
  BY <1>4, <1>5, <1>6, <1>7, <1>8

LEMMA StagesAreNext == Queued' => Staged'
  BY StagesAre, PTL

LEMMA StagesAreAFunction == Stages = [r \in Recordings |-> Stages[r]] /\ Stages' = [r \in Recordings |-> Stages'[r]]
  BY DEF Stages

(* Two functions of the recordings are one if they agree. *)
LEMMA SameStages ==
  ASSUME NEW f, \A r \in Recordings : Stages'[r] = f[r], f = [r \in Recordings |-> f[r]]
  PROVE  Stages' = f
  BY StagesAreAFunction

-----------------------------------------------------------------------------
(* Each step is a step of the Transcriber, or none. *)
LEMMA SubmitRefines ==
  ASSUME Queued, Queued', Submit
  PROVE  Abstract!Next
<1> DEFINE r == submitted + 1
<1>1. r \in Recordings /\ submitted \in Nat /\ submitted' = r /\ job' = r /\ busy' = busy
  BY EngineAssumption DEF Submit, Queued, TypeOK, Numbers, Recordings, supervisor
<1>2. Staged /\ Staged'
  BY StagesAre, StagesAreNext
<1>3. \A s \in Recordings : s \in Nat
  BY DEF Recordings
<1>4. busy # NoJob => busy <= submitted
  BY DEF Queued, Jobs
<1>5. busy # r /\ \A s \in Recordings : s # r => (s > submitted <=> s > r)
  BY <1>1, <1>3, <1>4 DEF NoJob
<1>6. Stages[r] = "unspoken"
  BY <1>1, <1>2 DEF Staged
<1>7. \A s \in Recordings : s < r => Stages[s] # "unspoken"
  BY <1>1, <1>2, <1>3 DEF Staged
<1>8. Stages'[r] = "queued"
  BY <1>1, <1>2, <1>5 DEF Staged
<1>9. ASSUME NEW s \in Recordings, s # r
      PROVE  Stages'[s] = IF s \in Abstract!At("queued") THEN "replaced" ELSE Stages[s]
  <2>1. s \in Nat /\ (s > submitted <=> s > r) /\ (s <= submitted <=> s <= r)
    BY <1>1, <1>3, <1>9
  <2>2. s # busy /\ s = job => fate'[s] = "replaced"
    BY <1>1, <1>9 DEF Submit, NoJob, Recordings, Queued, TypeOK, Words
  <2>3. s # job => fate'[s] = fate[s]
    BY DEF Submit, Queued, TypeOK, Words
  <2>4. s \in Abstract!At("queued") <=> Stages[s] = "queued"
    BY DEF Abstract!At
  <2>5. CASE s > submitted
    BY <1>1, <1>2, <2>1, <2>4, <2>5 DEF Staged
  <2>6. CASE s <= submitted /\ s = busy
    BY <1>1, <1>2, <2>1, <2>4, <2>6 DEF Staged
  <2>7. CASE s <= submitted /\ s # busy /\ s = job
    BY <1>1, <1>2, <1>9, <2>1, <2>2, <2>4, <2>7 DEF Staged
  <2>8. CASE s <= submitted /\ s # busy /\ s # job
    <3>1. Stages[s] = fate[s] /\ Stages[s] # "queued"
      BY <1>2, <2>8 DEF Staged
    <3>2. Stages'[s] = fate'[s]
      BY <1>1, <1>2, <1>9, <2>1, <2>8 DEF Staged
    <3> QED
      BY <2>3, <2>4, <2>8, <3>1, <3>2
  <2> QED
    BY <1>1, <2>1, <2>5, <2>6, <2>7, <2>8
<1> DEFINE f == [s \in Recordings |-> IF s = r THEN "queued"
                                       ELSE IF s \in Abstract!At("queued") THEN "replaced"
                                       ELSE Stages[s]]
<1>10. Stages' = f
  <2>1. \A s \in Recordings : Stages'[s] = f[s]
    BY <1>8, <1>9
  <2>2. f = [s \in Recordings |-> f[s]]
    OBVIOUS
  <2> HIDE DEF f
  <2> QED
    BY <2>1, <2>2, SameStages
<1> QED
  BY <1>1, <1>6, <1>7, <1>10 DEF Abstract!Next, Abstract!Submit

(* Nothing changes but one recording. *)
Only(r) ==
  /\ UNCHANGED submitted
  /\ \A s \in Recordings : s # r => (s = busy' <=> s = busy) /\ (s = job' <=> s = job)
                                    /\ fate'[s] = fate[s]

LEMMA OnlyOneMoves ==
  ASSUME Queued, Queued', NEW r \in Recordings, Only(r), NEW stage, Stages'[r] = stage
  PROVE  Stages' = [Stages EXCEPT ![r] = stage]
<1>1. Staged /\ Staged'
  BY StagesAre, StagesAreNext
<1>2. \A s \in Recordings : s \in Nat
  BY DEF Recordings
<1>3. submitted \in Nat /\ submitted' = submitted
  BY EngineAssumption DEF Only, Queued, TypeOK, Numbers
<1>4. ASSUME NEW s \in Recordings, s # r PROVE Stages'[s] = Stages[s]
  <2>1. (s = busy' <=> s = busy) /\ (s = job' <=> s = job) /\ fate'[s] = fate[s]
    BY <1>4 DEF Only
  <2>2. s > submitted \/ s <= submitted
    BY <1>2, <1>3
  <2> QED
    BY <1>1, <1>3, <2>1, <2>2 DEF Staged
<1>5. [Stages EXCEPT ![r] = stage] = [s \in Recordings |-> IF s = r THEN stage ELSE Stages[s]]
  BY StagesAreAFunction
<1> QED
  BY <1>4, <1>5, SameStages

LEMMA NextJobRefines ==
  ASSUME Queued, Queued', LetGo \/ Dictate
  PROVE  Abstract!Next
<1>1. job \in Recordings /\ job <= submitted /\ busy = NoJob /\ job' = NoJob /\ UNCHANGED submitted
  BY EngineAssumption DEF LetGo, Dictate, NextJob, Awake, counters, Queued, Jobs, TypeOK, Numbers, Recordings, NoJob
<1>2. Staged /\ Staged'
  BY StagesAre, StagesAreNext
<1>3. NoJob \notin Recordings
  BY DEF NoJob, Recordings
<1>4. Stages[job] = "queued"
  BY <1>1, <1>2, <1>3 DEF Staged
<1>5. Abstract!At("working") = {}
  BY <1>1, <1>2, <1>3 DEF Staged, Abstract!At
<1>6. CASE Dictate
  <2>1. busy' = job /\ fate' = fate
    BY <1>6 DEF Dictate, history
  <2>2. Stages'[job] = "working" /\ Only(job)
    BY <1>1, <1>2, <1>3, <2>1 DEF Staged, Only
  <2> QED
    BY <1>1, <1>4, <1>5, <2>2, OnlyOneMoves DEF Abstract!Next, Abstract!Take
<1>7. CASE LetGo
  <2>1. busy' = busy /\ fate' = [fate EXCEPT ![job] = "closed"]
    BY <1>7 DEF LetGo, supervisor
  <2>2. Stages'[job] = "closed" /\ Only(job)
    BY <1>1, <1>2, <1>3, <2>1 DEF Staged, Only, Queued, TypeOK, Words
  <2> QED
    BY <1>1, <1>4, <1>5, <2>2, OnlyOneMoves DEF Abstract!Next, Abstract!LetGo
<1> QED
  BY <1>6, <1>7

LEMMA DeliverRefines ==
  ASSUME Queued, Queued', Deliver
  PROVE  [Abstract!Next]_Stages
<1>1. busy' = NoJob /\ UNCHANGED <<job, submitted>>
  BY DEF Deliver, queue
<1>2. Staged /\ Staged'
  BY StagesAre, StagesAreNext
<1>3. NoJob \notin Recordings
  BY DEF NoJob, Recordings
<1>4. PICK end \in {"shown", "closed"} : fate' = [fate EXCEPT ![busy] = end]
  BY DEF Deliver, Transcribed, TranscriptionLost
<1>5. CASE busy \in Recordings
  <2>1. busy <= submitted /\ busy # job
    BY <1>3, <1>5 DEF Queued, Jobs
  <2>2. Stages[busy] = "working"
    BY <1>2, <1>5, <2>1 DEF Staged
  <2>3. fate'[busy] = end
    BY <1>4, <1>5 DEF Queued, TypeOK, Words
  <2>4. Stages'[busy] = end
    BY <1>1, <1>2, <1>3, <1>5, <2>1, <2>3 DEF Staged
  <2>5. Only(busy)
    BY <1>1, <1>3, <1>4 DEF Only, Queued, TypeOK, Words
  <2> QED
    BY <1>5, <2>2, <2>4, <2>5, OnlyOneMoves DEF Abstract!Next, Abstract!Settle
<1>6. CASE busy \notin Recordings
  BY <1>1, <1>4, <1>6 DEF Queued, TypeOK, Words, Stages, Stage
<1> QED
  BY <1>5, <1>6

LEMMA ElsewhereRefines ==
  ASSUME Elsewhere
  PROVE  UNCHANGED Stages
  BY DEF Elsewhere, Stages, Stage

(* Whatever becomes of the processes, the weights and the settings, each    *)
(* recording goes the way the Transcriber says: queued, replaced by a newer *)
(* one or worked on, and settled once (Queue::take, dictate).               *)
THEOREM RefinesTranscriber == Spec => ImplementsTranscriber
<1>1. Init => Jobs /\ Abstract!Init
  <2> SUFFICES ASSUME Init PROVE Jobs /\ Abstract!Init
    OBVIOUS
  <2>1. \A r \in Recordings : r > submitted /\ r # busy /\ r # job
    BY DEF Init, Recordings, NoJob
  <2>2. Stages = [r \in Recordings |-> "unspoken"]
    BY <2>1 DEF Stages, Stage
  <2> QED
    BY <2>2 DEF Init, Jobs, Abstract!Init
<1>2. TypeOK /\ Jobs /\ [Next]_vars => Jobs'
  BY JobsStep
<1>3. Queued /\ Queued' /\ [Next]_vars => [Abstract!Next]_Stages
  BY SubmitRefines, NextJobRefines, DeliverRefines, ElsewhereRefines, StepsElsewhere DEF Queued
<1> QED
  BY <1>1, <1>2, <1>3, TypeCorrect, PTL DEF Spec, Queued, ImplementsTranscriber, Abstract!Spec

-----------------------------------------------------------------------------
(* The weights of both tiers are there from the start.                     *)
AllOnDisk == WeightsAtFirst \subseteq {Tiers}

(* Then they stay, nobody is asked to fetch any, and the file the          *)
(* supervisor has in hand is its tier's but between a decision and the     *)
(* set-up that follows it.                                                 *)
Matched ==
  /\ files = Tiers /\ pc \notin {"consent", "download"}
  /\ model_file = tier \/ (pc = "ensure" /\ caller # "probe")
  /\ loaded # None => holds = [device |-> loaded, file |-> loaded]

LEMMA MatchedStep ==
  ASSUME TypeOK, Loading, Matched, [Next]_vars
  PROVE  Matched'
<1> USE DEF Matched, None
<1> USE DEF queue, supervisor, processes, disk, settings, counters, history
<1>1. CASE Others BY <1>1 DEF Others, Submit, SetTier, Notify, AskReprobe, AskStop, ProcessDies
<1>2. CASE Readers BY <1>2 DEF Readers, ReaderEnds
<1>3. CASE Answer BY <1>3 DEF Answer
<1>4. CASE Prepare
  BY <1>4 DEF Prepare, PrepareOverride, PrepareRecord, PrepareProbe
<1>5. CASE Ensure
  <2>1. Wanted \in files
    BY <1>5, Data DEF Ensure, Wanted, Loading, Setup, TypeOK, Words
  <2> QED
    BY <1>5, <2>1 DEF Ensure, GoOn, Report
<1>6. CASE Downloaded \/ DownloadFails BY <1>6 DEF Downloaded, DownloadFails
<1>7. CASE Start BY <1>7 DEF Start, StartHost, StartFails, Report
<1>8. CASE Hello
  BY <1>8 DEF Hello, Report, Refuse, Decide, DropHost, Loading
<1>9. CASE Load
  <2>1. CASE LoadAnswered
    BY <1>9, <2>1 DEF Load, LoadAnswered, Wanted, Report
  <2>2. CASE LoadFails
    BY <1>9, <2>2 DEF Load, LoadFails, StartFails, Report
  <2>3. CASE LoadRefused
    BY <1>9, <2>3 DEF Load, LoadRefused, Refuse, Decide, DropHost
  <2> QED
    BY <1>9, <2>1, <2>2, <2>3 DEF Load
<1>10. CASE Clip
  <2>1. pc' = "ensure" /\ caller' = "prepare" /\ UNCHANGED files
    BY <1>10 DEF Clip, Refuse, Decide
  <2>2. loaded' = None \/ UNCHANGED <<loaded, holds>>
    BY <1>10 DEF Clip, Refuse, DropHost
  <2> QED
    BY <2>1, <2>2
<1>11. CASE Leave \/ HostDown BY <1>11 DEF Leave, HostDown, DropHost, Awake
<1>12. CASE Respawn BY <1>12 DEF Respawn, Report, Awake
<1>13. CASE Reprobe \/ Retier BY <1>13 DEF Reprobe, Retier, BringUp, DropHost, Awake
<1>14. CASE LetGo \/ Dictate BY <1>14 DEF LetGo, Dictate, NextJob, Awake
<1>15. CASE Deliver BY <1>15 DEF Deliver, Report
<1>16. CASE UNCHANGED vars BY <1>16 DEF vars
<1> QED BY <1>1, <1>2, <1>3, <1>4, <1>5, <1>6, <1>7, <1>8, <1>9, <1>10, <1>11, <1>12,
      <1>13, <1>14, <1>15, <1>16 DEF Next, Works

(* With nothing left to download, the model in the process is the one of    *)
(* the tier the supervisor thinks is loaded, file and device, through every *)
(* probe, restart and change of the setting (load, reload).                 *)
THEOREM LoadedIsTheTiersModel == AllOnDisk => (Spec => []LoadedIsItsModel)
<1> SUFFICES ASSUME AllOnDisk PROVE Spec => []LoadedIsItsModel
  OBVIOUS
<1>1. Init => Matched
  BY DEF Init, Matched, AllOnDisk
<1>2. TypeOK /\ Loading /\ Matched /\ [Next]_vars => Matched'
  BY MatchedStep
<1>3. Matched => LoadedIsItsModel
  BY DEF Matched, LoadedIsItsModel
<1> QED
  BY <1>1, <1>2, <1>3, Invariance, PTL DEF Spec, IInv

=============================================================================
