---------------------------- MODULE HotkeyProofs ----------------------------
(***************************************************************************)
(* Proofs about HotkeyMachine and the listener around it, for every        *)
(* keyboard, every configuration, every value of the thresholds, and any   *)
(* number of events and commands waiting.                                  *)
(***************************************************************************)
EXTENDS HotkeyListener, SequenceTheorems, TLAPS

(* The machine starts idle, with every field of its type. *)
LEMMA InitIInv == Init => IInv
<1> SUFFICES ASSUME Init PROVE IInv
  OBVIOUS
<1>1. TypeOK
  <2>1. main_held \in BOOLEAN /\ recording \in BOOLEAN
        /\ suppressed \in BOOLEAN /\ panel_keys \in BOOLEAN
    BY Zenon DEF Init
  <2>2. QED
    BY <2>1, TimeAssumption DEF Init, TypeOK, Actions
<1>2. ~TriggerHeld
  BY DEF Init, TriggerHeld, ChordSatisfied
<1> QED
  BY <1>1, <1>2
     DEF Init, IInv, HeldIsAnUnsuppressedPress, RecordingIsActive,
         SuppressedOnlyMidPress, LatchNeedsAToggleChord

(* The Boolean fields of the machine. *)
Flags ==
  /\ main_held \in BOOLEAN
  /\ recording \in BOOLEAN
  /\ suppressed \in BOOLEAN
  /\ panel_keys \in BOOLEAN

LEMMA FlagsPreserved == Flags /\ [Next]_vars => Flags'
<1> SUFFICES ASSUME Flags, [Next]_vars PROVE Flags'
  OBVIOUS
<1> USE DEF Flags, press, keys
<1>1. ASSUME NEW m \in ModifierKeys, DownModifier(m) PROVE Flags'
  BY <1>1, Zenon DEF DownModifier, OnLoneKeyDown, OnChordDown, AnyOtherKey, Withdraw, Quiet, Begin, End
<1>2. ASSUME NEW m \in ModifierKeys, UpModifier(m) PROVE Flags'
  BY <1>2, Zenon DEF UpModifier, OnTriggerUp, EndActivePress, Quiet, End
<1>3. ASSUME NEW k \in MainKeys, DownMain(k) PROVE Flags'
  BY <1>3, Zenon DEF DownMain, OnChordDown, AnyOtherKey, Withdraw, Quiet, Begin, End
<1>4. ASSUME NEW k \in MainKeys, UpMain(k) PROVE Flags'
  BY <1>4, Zenon DEF UpMain, OnTriggerUp, EndActivePress, Quiet, End
<1>5. ASSUME NEW a \in PanelActions, OnPanelKey(a) PROVE Flags'
  BY <1>5, Zenon DEF OnPanelKey, AnyOtherKey, Withdraw, End
<1>6. CASE OtherKeyDown
  BY <1>6, Zenon DEF OtherKeyDown, AnyOtherKey, Withdraw, End
<1>7. ASSUME NEW b \in BOOLEAN, SetPanelKeys(b) PROVE Flags'
  BY <1>7, Zenon DEF SetPanelKeys
<1>8. CASE Rerecord
  BY <1>8, Zenon DEF Rerecord, Begin
<1>9. CASE Reset
  BY <1>9, Zenon DEF Reset, EndActivePress, End
<1>10. CASE OnTick
  BY <1>10, Zenon DEF OnTick, Quiet, End
<1>11. CASE Elapse
  BY <1>11, Zenon DEF Elapse
<1>12. CASE UNCHANGED vars
  BY <1>12, Zenon DEF vars
<1> QED
  BY <1>1, <1>2, <1>3, <1>4, <1>5, <1>6, <1>7, <1>8, <1>9, <1>10, <1>11, <1>12
     DEF Next, KeyEvent, Command

(* Every event and every command leaves every field of its type. *)
LEMMA TypePreserved == TypeOK /\ [Next]_vars => TypeOK'
<1> SUFFICES ASSUME TypeOK, [Next]_vars PROVE TypeOK'
  OBVIOUS
<1> USE TimeAssumption DEF TypeOK, press, keys, Actions, Action, PanelActions
<1> Flags'
  BY FlagsPreserved DEF Flags
<1> USE DEF Flags
<1>1. ASSUME NEW m \in ModifierKeys, DownModifier(m) PROVE TypeOK'
  BY <1>1 DEF DownModifier, OnLoneKeyDown, OnChordDown, Withdraw, Withdrawn, AnyOtherKey, Quiet, Begin, End
<1>2. ASSUME NEW m \in ModifierKeys, UpModifier(m) PROVE TypeOK'
  BY <1>2 DEF UpModifier, OnTriggerUp, EndActivePress, Quiet, End
<1>3. ASSUME NEW k \in MainKeys, DownMain(k) PROVE TypeOK'
  BY <1>3 DEF DownMain, OnChordDown, Withdraw, Withdrawn, AnyOtherKey, Quiet, Begin, End
<1>4. ASSUME NEW k \in MainKeys, UpMain(k) PROVE TypeOK'
  BY <1>4 DEF UpMain, OnTriggerUp, EndActivePress, Quiet, End
<1>5. ASSUME NEW a \in PanelActions, OnPanelKey(a) PROVE TypeOK'
  <2>1. out' \in Actions
    BY <1>5 DEF OnPanelKey, AnyOtherKey
  <2>2. QED
    BY <1>5, <2>1 DEF OnPanelKey, AnyOtherKey, Withdraw, End
<1>6. CASE OtherKeyDown
  <2>1. out' \in Actions
    BY <1>6 DEF OtherKeyDown, AnyOtherKey
  <2>2. QED
    BY <1>6, <2>1 DEF OtherKeyDown, AnyOtherKey, Withdraw, End
<1>7. ASSUME NEW b \in BOOLEAN, SetPanelKeys(b) PROVE TypeOK'
  BY <1>7 DEF SetPanelKeys
<1>8. CASE Rerecord
  BY <1>8 DEF Rerecord, Begin
<1>9. CASE Reset
  BY <1>9 DEF Reset, EndActivePress, End
<1>10. CASE OnTick
  BY <1>10 DEF OnTick, Quiet, End
<1>11. CASE Elapse
  BY <1>11 DEF Elapse
<1>12. CASE UNCHANGED vars
  BY <1>12 DEF vars
<1> QED
  BY <1>1, <1>2, <1>3, <1>4, <1>5, <1>6, <1>7, <1>8, <1>9, <1>10, <1>11, <1>12
     DEF Next, KeyEvent, Command

-----------------------------------------------------------------------------
(* The safety part of the inductive invariant. *)
Safety ==
  /\ HeldIsAnUnsuppressedPress
  /\ RecordingIsActive
  /\ SuppressedOnlyMidPress
  /\ LatchNeedsAToggleChord

(* Whether the trigger is down depends on the keys and the configuration   *)
(* alone, and the configuration never changes.                             *)
LEMMA TriggerUnchanged ==
  UNCHANGED <<config, keys>>
    => /\ TriggerHeld' <=> TriggerHeld
       /\ ChordSatisfied' <=> ChordSatisfied
       /\ IsLoneKey' <=> IsLoneKey
BY DEF keys, TriggerHeld, ChordSatisfied, IsLoneKey

(* A lone trigger is its key; a chord trigger is its chord. *)
LEMMA TriggerShape ==
  /\ IsLoneKey => (TriggerHeld <=> config.trigger.modifier \in held)
  /\ ~IsLoneKey => (TriggerHeld <=> ChordSatisfied)
BY DEF TriggerHeld, ChordSatisfied

(* The three outcomes a press can have, when the trigger is what changes.  *)
LEMMA PressBegins ==
  ASSUME TypeOK, Safety, ~TriggerHeld, TriggerHeld', config' = config,
         (IsLoneKey /\ OnLoneKeyDown) \/ (~IsLoneKey /\ OnChordDown)
  PROVE  Safety'
<1>1. ~suppressed /\ active # "Held"
  BY DEF Safety, HeldIsAnUnsuppressedPress, SuppressedOnlyMidPress
<1>2. CASE active = "None"
  <2>1. Begin("Held") /\ suppressed' = suppressed
    BY <1>1, <1>2 DEF OnLoneKeyDown, OnChordDown
  <2> QED
    BY <1>1, <2>1 DEF Begin, Safety, HeldIsAnUnsuppressedPress, RecordingIsActive,
                      SuppressedOnlyMidPress, LatchNeedsAToggleChord
<1>3. CASE active # "None"
  <2>1. active = "Latched" /\ ~IsLoneKey
    BY <1>1, <1>3 DEF TypeOK, Safety, LatchNeedsAToggleChord
  <2>2. End /\ suppressed' = TRUE
    BY <1>1, <2>1 DEF OnChordDown
  <2> QED
    BY <2>2 DEF End, Safety, HeldIsAnUnsuppressedPress, RecordingIsActive,
                SuppressedOnlyMidPress, LatchNeedsAToggleChord
<1> QED
  BY <1>2, <1>3

LEMMA PressEnds ==
  ASSUME Safety, TriggerHeld, ~TriggerHeld', config' = config,
         config.mode \in Modes, OnTriggerUp
  PROVE  Safety'
BY DEF Safety, HeldIsAnUnsuppressedPress, RecordingIsActive, SuppressedOnlyMidPress,
       LatchNeedsAToggleChord, Modes, OnTriggerUp, EndActivePress, End, press, IsLoneKey

LEMMA PressWithdrawn ==
  ASSUME Safety, TriggerHeld' <=> TriggerHeld, config' = config, Withdraw
  PROVE  Safety'
BY DEF Safety, HeldIsAnUnsuppressedPress, RecordingIsActive, SuppressedOnlyMidPress,
       LatchNeedsAToggleChord, Withdraw, Withdrawn, End, press, IsLoneKey

LEMMA PressUntouched ==
  ASSUME Safety, TriggerHeld' <=> TriggerHeld, config' = config, Quiet
  PROVE  Safety'
BY DEF Safety, HeldIsAnUnsuppressedPress, RecordingIsActive, SuppressedOnlyMidPress,
       LatchNeedsAToggleChord, Quiet, press, IsLoneKey

(* Every event and every command keeps the safety invariants.  A key       *)
(* either is the one that completes or breaks the trigger, and then the    *)
(* press begins or ends, or it leaves the trigger as it was.               *)
LEMMA SafetyPreserved == TypeOK /\ Safety /\ [Next]_vars => Safety'
<1> SUFFICES ASSUME TypeOK, Safety, [Next]_vars PROVE Safety'
  OBVIOUS
<1>m. config.mode \in Modes
  BY KeyAssumption DEF TypeOK
<1>1. ASSUME NEW m \in ModifierKeys, DownModifier(m) PROVE Safety'
  <2>1. config' = config /\ main_held' = main_held /\ held' = held \union {m}
    BY <1>1 DEF DownModifier
  <2>2. CASE m \in held
    <3>1. TriggerHeld' <=> TriggerHeld
      BY <2>1, <2>2, TriggerUnchanged, held' = held DEF keys
    <3>2. Quiet
      BY <1>1, <2>2 DEF DownModifier
    <3> QED
      BY <3>1, <3>2, <2>1, PressUntouched
  <2>3. CASE m \notin held /\ IsLoneKey /\ m = config.trigger.modifier
    <3>1. ~TriggerHeld /\ TriggerHeld'
      BY <2>1, <2>3, TriggerShape DEF TriggerHeld, IsLoneKey, ChordSatisfied
    <3>2. OnLoneKeyDown
      BY <1>1, <2>3 DEF DownModifier
    <3> QED
      BY <3>1, <3>2, <2>1, <2>3, PressBegins
  <2>4. CASE m \notin held /\ IsLoneKey /\ m # config.trigger.modifier
    <3>1. TriggerHeld' <=> TriggerHeld
      BY <2>1, <2>4 DEF TriggerHeld, IsLoneKey, ChordSatisfied
    <3>2. Withdraw
      BY <1>1, <2>4 DEF DownModifier, AnyOtherKey
    <3> QED
      BY <3>1, <3>2, <2>1, PressWithdrawn
  <2>5. CASE m \notin held /\ ~IsLoneKey /\ ChordCompleted
    <3>1. ~TriggerHeld /\ TriggerHeld'
      BY <2>5 DEF TriggerHeld, ChordCompleted
    <3>2. OnChordDown
      BY <1>1, <2>5 DEF DownModifier
    <3> QED
      BY <3>1, <3>2, <2>1, <2>5, PressBegins
  <2>6. CASE m \notin held /\ ~IsLoneKey /\ ~ChordCompleted
    <3>1. ChordSatisfied => ChordSatisfied'
      BY <2>1 DEF ChordSatisfied, IsLoneKey
    <3>2. TriggerHeld' <=> TriggerHeld
      BY <3>1, <2>1, <2>6 DEF TriggerHeld, ChordCompleted, IsLoneKey
    <3>3. Quiet
      BY <1>1, <2>6 DEF DownModifier
    <3> QED
      BY <3>2, <3>3, <2>1, PressUntouched
  <2> QED
    BY <2>2, <2>3, <2>4, <2>5, <2>6
<1>2. ASSUME NEW m \in ModifierKeys, UpModifier(m) PROVE Safety'
  <2>1. config' = config /\ main_held' = main_held /\ held' = held \ {m}
    BY <1>2 DEF UpModifier
  <2>2. CASE m \in held /\ ((IsLoneKey /\ m = config.trigger.modifier) \/ ChordBroken)
    <3>1. TriggerHeld /\ ~TriggerHeld'
      BY <2>1, <2>2 DEF TriggerHeld, ChordSatisfied, ChordBroken, IsLoneKey
    <3>2. OnTriggerUp
      BY <1>2, <2>2 DEF UpModifier
    <3> QED
      BY <3>1, <3>2, <2>1, <1>m, PressEnds
  <2>3. CASE ~(m \in held /\ ((IsLoneKey /\ m = config.trigger.modifier) \/ ChordBroken))
    <3>1. ChordSatisfied' => ChordSatisfied
      BY <2>1 DEF ChordSatisfied, IsLoneKey
    <3>2. m \notin held => held' = held
      BY <2>1
    <3>3. TriggerHeld' <=> TriggerHeld
      <4>1. CASE m \notin held
        BY <4>1, <3>2, <2>1, TriggerUnchanged DEF keys
      <4>2. CASE m \in held
        BY <4>2, <3>1, <2>1, <2>3 DEF TriggerHeld, ChordBroken, IsLoneKey
      <4> QED
        BY <4>1, <4>2
    <3>4. Quiet
      BY <1>2, <2>3 DEF UpModifier
    <3> QED
      BY <3>3, <3>4, <2>1, PressUntouched
  <2> QED
    BY <2>2, <2>3
<1>3. ASSUME NEW k \in MainKeys, DownMain(k) PROVE Safety'
  <2>1. config' = config /\ held' = held
    BY <1>3 DEF DownMain
  <2>2. CASE k # config.trigger.key
    <3>1. main_held' = main_held /\ Withdraw
      BY <1>3, <2>2 DEF DownMain, AnyOtherKey
    <3>2. TriggerHeld' <=> TriggerHeld
      BY <3>1, <2>1, TriggerUnchanged DEF keys
    <3> QED
      BY <3>1, <3>2, <2>1, PressWithdrawn
  <2>3. CASE k = config.trigger.key /\ ChordCompleted
    <3>1. ~IsLoneKey /\ ~TriggerHeld /\ TriggerHeld'
      BY <2>1, <2>3 DEF TriggerHeld, ChordCompleted, ChordSatisfied, IsLoneKey
    <3>2. OnChordDown
      BY <1>3, <2>3 DEF DownMain
    <3> QED
      BY <3>1, <3>2, <2>1, PressBegins
  <2>4. CASE k = config.trigger.key /\ ~ChordCompleted
    <3>1. main_held' = TRUE /\ Quiet
      BY <1>3, <2>4 DEF DownMain
    <3>2. ChordSatisfied => ChordSatisfied'
      BY <3>1, <2>1 DEF ChordSatisfied, IsLoneKey
    <3>3. TriggerHeld' <=> TriggerHeld
      BY <3>2, <2>1, <2>4 DEF TriggerHeld, ChordCompleted, IsLoneKey
    <3> QED
      BY <3>1, <3>3, <2>1, PressUntouched
  <2> QED
    BY <2>2, <2>3, <2>4
<1>4. ASSUME NEW k \in MainKeys, UpMain(k) PROVE Safety'
  <2>1. config' = config /\ held' = held /\ (main_held' => main_held)
    BY <1>4 DEF UpMain
  <2>2. CASE ChordBroken
    <3>1. TriggerHeld /\ ~TriggerHeld'
      BY <2>1, <2>2 DEF TriggerHeld, ChordBroken, ChordSatisfied, IsLoneKey
    <3> QED
      BY <1>4, <3>1, <2>1, <2>2, <1>m, PressEnds DEF UpMain
  <2>3. CASE ~ChordBroken
    <3>1. ChordSatisfied' => ChordSatisfied
      BY <2>1 DEF ChordSatisfied, IsLoneKey
    <3>2. TriggerHeld' <=> TriggerHeld
      BY <3>1, <2>1, <2>3 DEF TriggerHeld, ChordBroken, IsLoneKey
    <3> QED
      BY <1>4, <3>2, <2>1, <2>3, PressUntouched DEF UpMain
  <2> QED
    BY <2>2, <2>3
<1>5. ASSUME NEW a \in PanelActions, OnPanelKey(a) PROVE Safety'
  <2>1. config' = config /\ UNCHANGED <<config, keys>> /\ Withdraw
    BY <1>5 DEF OnPanelKey, AnyOtherKey
  <2> QED
    BY <2>1, TriggerUnchanged, PressWithdrawn
<1>6. CASE OtherKeyDown
  <2>1. config' = config /\ UNCHANGED <<config, keys>> /\ Withdraw
    BY <1>6 DEF OtherKeyDown, AnyOtherKey
  <2> QED
    BY <2>1, TriggerUnchanged, PressWithdrawn
<1>7. ASSUME NEW b \in BOOLEAN, SetPanelKeys(b) PROVE Safety'
  <2>1. UNCHANGED <<config, keys>> /\ UNCHANGED <<active, recording, suppressed>>
    BY <1>7 DEF SetPanelKeys, press
  <2> QED
    BY <2>1, TriggerUnchanged
       DEF Safety, HeldIsAnUnsuppressedPress, RecordingIsActive,
           SuppressedOnlyMidPress, LatchNeedsAToggleChord
<1>8. CASE Rerecord
  <2>1. UNCHANGED <<config, keys>> /\ UNCHANGED suppressed
    BY <1>8 DEF Rerecord
  <2>2. \/ Begin("Latched") /\ config.mode = "Toggle" /\ ~IsLoneKey /\ active = "None"
        \/ UNCHANGED press
    BY <1>8 DEF Rerecord
  <2> QED
    BY <2>1, <2>2, TriggerUnchanged
       DEF Safety, HeldIsAnUnsuppressedPress, RecordingIsActive,
           SuppressedOnlyMidPress, LatchNeedsAToggleChord, Begin, press
<1>9. CASE Reset
  <2>1. config' = config /\ ~suppressed' /\ ~TriggerHeld' /\ (IsLoneKey' <=> IsLoneKey)
    BY <1>9 DEF Reset, TriggerHeld, ChordSatisfied, IsLoneKey
  <2>2. EndActivePress
    BY <1>9 DEF Reset
  <2>3. active' # "Held" /\ (recording' <=> active' # "None")
    BY <2>2 DEF EndActivePress, End, press, Safety, RecordingIsActive
  <2>4. active' = "Latched" => ~IsLoneKey /\ config.mode = "Toggle"
    BY <2>2, <1>m DEF EndActivePress, End, press, Modes, Safety, LatchNeedsAToggleChord
  <2> QED
    BY <2>1, <2>3, <2>4
       DEF Safety, HeldIsAnUnsuppressedPress, RecordingIsActive,
           SuppressedOnlyMidPress, LatchNeedsAToggleChord
<1>10. CASE OnTick
  <2>1. UNCHANGED <<config, keys>> /\ config' = config
    BY <1>10 DEF OnTick
  <2>2. CASE recording /\ recording_age >= MaxHold
    <3>1. active' = "None" /\ ~recording' /\ (suppressed' <=> (suppressed \/ active = "Held"))
      BY <1>10, <2>2 DEF OnTick, End
    <3> QED
      BY <3>1, <2>1, TriggerUnchanged
         DEF Safety, HeldIsAnUnsuppressedPress, RecordingIsActive,
             SuppressedOnlyMidPress, LatchNeedsAToggleChord
  <2>3. CASE ~(recording /\ recording_age >= MaxHold)
    BY <1>10, <2>3, <2>1, TriggerUnchanged, PressUntouched DEF OnTick
  <2> QED
    BY <2>2, <2>3
<1>11. CASE Elapse
  <2>1. UNCHANGED <<config, keys>> /\ UNCHANGED <<active, recording, suppressed>>
    BY <1>11 DEF Elapse
  <2> QED
    BY <2>1, TriggerUnchanged
       DEF Safety, HeldIsAnUnsuppressedPress, RecordingIsActive,
           SuppressedOnlyMidPress, LatchNeedsAToggleChord
<1>12. CASE UNCHANGED vars
  <2>1. UNCHANGED <<config, keys>> /\ UNCHANGED <<active, recording, suppressed>>
    BY <1>12 DEF vars, keys
  <2> QED
    BY <2>1, TriggerUnchanged
       DEF Safety, HeldIsAnUnsuppressedPress, RecordingIsActive,
           SuppressedOnlyMidPress, LatchNeedsAToggleChord
<1> QED
  BY <1>1, <1>2, <1>3, <1>4, <1>5, <1>6, <1>7, <1>8, <1>9, <1>10, <1>11, <1>12
     DEF Next, KeyEvent, Command

-----------------------------------------------------------------------------
LEMMA IInvPreserved == IInv /\ [Next]_vars => IInv'
BY TypePreserved, SafetyPreserved DEF IInv, Safety

THEOREM IInvHolds == Spec => []IInv
BY InitIInv, IInvPreserved, PTL DEF Spec

(* Every reachable state of the machine has its fields in their types, and *)
(* one event never produces more than two actions (type Actions).          *)
THEOREM TypeCorrect == Spec => []TypeOK
BY IInvHolds, PTL DEF IInv

(* A press is in progress exactly while the trigger is down unsuppressed.  *)
THEOREM PressInvariant == Spec => []HeldIsAnUnsuppressedPress
BY IInvHolds, PTL DEF IInv

(* `active` and `recording_since` never disagree. *)
THEOREM RecordingInvariant == Spec => []RecordingIsActive
BY IInvHolds, PTL DEF IInv

(* The trigger is never ignored once the press it was ignored for ended.   *)
THEOREM SuppressionInvariant == Spec => []SuppressedOnlyMidPress
BY IInvHolds, PTL DEF IInv

(* Nothing but a chord in toggle mode is ever latched. *)
THEOREM LatchInvariant == Spec => []LatchNeedsAToggleChord
BY IInvHolds, PTL DEF IInv

-----------------------------------------------------------------------------
(* What the pieces of an event are to the abstract recorder. *)
LEMMA QuietIsSilent == Quiet => R!Silent
BY DEF Quiet, R!Silent, press

LEMMA TriggerDownIsAStep ==
  ASSUME IInv, OnChordDown \/ OnLoneKeyDown
  PROVE  R!Next
<1>1. CASE Quiet
  BY <1>1, QuietIsSilent DEF R!Next
<1>2. CASE active = "None" /\ Begin("Held") /\ out' = <<"StartRecording">>
  BY <1>2 DEF IInv, RecordingIsActive, Begin, R!Next, R!Start
<1>3. CASE active = "Latched" /\ End /\ out' = <<"StopRecording">>
  BY <1>3 DEF IInv, RecordingIsActive, End, R!Next, R!Stop
<1> QED
  BY <1>1, <1>2, <1>3 DEF OnChordDown, OnLoneKeyDown

LEMMA EndActivePressIsAStep ==
  ASSUME IInv, EndActivePress
  PROVE  R!Next
<1>1. CASE out' = <<>> /\ recording' = recording
  BY <1>1 DEF R!Next, R!Silent
<1>2. CASE active = "Held" /\ End /\ out' = <<"StopRecording">>
  BY <1>2 DEF IInv, RecordingIsActive, End, R!Next, R!Stop
<1>3. CASE active = "Held" /\ End /\ out' = <<"DiscardRecording", "OpenPanelIdle">>
  BY <1>3 DEF IInv, RecordingIsActive, End, R!Next, R!Discard
<1> QED
  BY <1>1, <1>2, <1>3 DEF EndActivePress, press

LEMMA TriggerUpIsAStep ==
  ASSUME IInv, OnTriggerUp
  PROVE  R!Next
<1>1. CASE out' = <<>> /\ UNCHANGED press
  BY <1>1 DEF press, R!Next, R!Silent
<1>2. CASE EndActivePress
  BY <1>2, EndActivePressIsAStep
<1> QED
  BY <1>1, <1>2 DEF OnTriggerUp

LEMMA AnyOtherKeyIsAStep ==
  ASSUME IInv, AnyOtherKey
  PROVE  R!Next
<1>1. CASE Withdrawn
  BY <1>1 DEF AnyOtherKey, Withdraw, Withdrawn, End, IInv, RecordingIsActive, R!Next, R!Discard
<1>2. CASE ~Withdrawn
  BY <1>2 DEF AnyOtherKey, Withdraw, press, R!Next, R!Silent
<1> QED
  BY <1>1, <1>2

(* Every step of the machine is a step of the recorder, or changes nothing *)
(* the recorder has.                                                       *)
LEMMA RecorderStep == IInv /\ [Next]_vars => [R!Next]_<<recording, out>>
<1> SUFFICES ASSUME IInv, [Next]_vars PROVE [R!Next]_<<recording, out>>
  OBVIOUS
<1>1. ASSUME NEW m \in ModifierKeys, DownModifier(m) PROVE R!Next
  <2>1. Quiet \/ OnLoneKeyDown \/ AnyOtherKey \/ OnChordDown
    BY <1>1 DEF DownModifier
  <2> QED
    BY <2>1, QuietIsSilent, TriggerDownIsAStep, AnyOtherKeyIsAStep DEF R!Next
<1>2. ASSUME NEW m \in ModifierKeys, UpModifier(m) PROVE R!Next
  BY <1>2, QuietIsSilent, TriggerUpIsAStep DEF UpModifier, R!Next
<1>3. ASSUME NEW k \in MainKeys, DownMain(k) PROVE R!Next
  BY <1>3, QuietIsSilent, TriggerDownIsAStep, AnyOtherKeyIsAStep DEF DownMain, R!Next
<1>4. ASSUME NEW k \in MainKeys, UpMain(k) PROVE R!Next
  BY <1>4, QuietIsSilent, TriggerUpIsAStep DEF UpMain, R!Next
<1>5. ASSUME NEW a \in PanelActions, OnPanelKey(a) PROVE R!Next
  <2>1. CASE AnyOtherKey
    BY <2>1, AnyOtherKeyIsAStep
  <2>2. CASE Withdraw /\ Withdrawn /\ out' = <<"DiscardRecording", a>>
    BY <2>2 DEF Withdraw, Withdrawn, End, IInv, RecordingIsActive, R!Next, R!Discard
  <2>3. CASE Withdraw /\ ~Withdrawn /\ out' = <<a>>
    BY <2>3 DEF Withdraw, press, R!Next, R!Panel
  <2> QED
    BY <1>5, <2>1, <2>2, <2>3 DEF OnPanelKey
<1>6. CASE OtherKeyDown
  BY <1>6, AnyOtherKeyIsAStep DEF OtherKeyDown
<1>7. ASSUME NEW b \in BOOLEAN, SetPanelKeys(b) PROVE R!Next
  BY <1>7 DEF SetPanelKeys, press, R!Next, R!Silent
<1>8. CASE Rerecord
  <2>1. CASE active = "None" /\ Begin("Latched") /\ out' = <<"StartRecording">>
    BY <2>1 DEF IInv, RecordingIsActive, Begin, R!Next, R!Start
  <2>2. CASE out' = <<>> /\ UNCHANGED press
    BY <2>2 DEF press, R!Next, R!Silent
  <2> QED
    BY <1>8, <2>1, <2>2 DEF Rerecord
<1>9. CASE Reset
  BY <1>9, EndActivePressIsAStep DEF Reset
<1>10. CASE OnTick
  <2>1. CASE recording /\ End /\ out' = <<"StopRecording">>
    BY <2>1 DEF End, R!Next, R!Stop
  <2> QED
    BY <1>10, <2>1, QuietIsSilent DEF OnTick, R!Next
<1>11. CASE Elapse
  BY <1>11 DEF Elapse, R!Next, R!Silent
<1>12. CASE UNCHANGED vars
  BY <1>12 DEF vars
<1> QED
  BY <1>1, <1>2, <1>3, <1>4, <1>5, <1>6, <1>7, <1>8, <1>9, <1>10, <1>11, <1>12
     DEF Next, KeyEvent, Command

(* The machine implements the recorder: recordings never overlap, and each *)
(* one is ended exactly once, whatever keys, ticks and commands arrive.    *)
THEOREM MachineIsARecorder == Spec => ImplementsRecorder
<1>1. Init => R!Init
  BY DEF Init, R!Init
<1> QED
  BY <1>1, RecorderStep, IInvHolds, PTL DEF Spec, ImplementsRecorder, R!Spec

(* The next tap stops a latched recording. *)
THEOREM LatchIsStopped == Spec => NextTapStopsTheLatch
<1>1. IInv /\ [Next]_vars =>
        [(active = "Latched" /\ ~TriggerHeld /\ TriggerHeld')
           => active' = "None" /\ out' = <<"StopRecording">>]_vars
  <2> SUFFICES ASSUME IInv, Next, active = "Latched", ~TriggerHeld, TriggerHeld'
               PROVE  active' = "None" /\ out' = <<"StopRecording">>
    OBVIOUS
  <2>1. ~suppressed /\ ~IsLoneKey
    BY DEF IInv, SuppressedOnlyMidPress, LatchNeedsAToggleChord
  <2>2. OnChordDown => active' = "None" /\ out' = <<"StopRecording">>
    BY <2>1 DEF OnChordDown, End
  <2>3. ~UNCHANGED <<config, keys>>
    BY TriggerUnchanged
  <2>4. ASSUME NEW m \in ModifierKeys, DownModifier(m) PROVE OnChordDown
    BY <2>1, <2>3, <2>4 DEF DownModifier, keys, TriggerHeld, ChordCompleted, IsLoneKey
  <2>5. ASSUME NEW k \in MainKeys, DownMain(k) PROVE OnChordDown
    BY <2>1, <2>3, <2>5 DEF DownMain, keys, TriggerHeld, ChordCompleted, IsLoneKey
  <2>6. ASSUME NEW m \in ModifierKeys, UpModifier(m) PROVE FALSE
    BY <2>1, <2>6 DEF UpModifier, TriggerHeld, ChordSatisfied, IsLoneKey
  <2>7. ASSUME NEW k \in MainKeys, UpMain(k) PROVE FALSE
    BY <2>1, <2>7 DEF UpMain, TriggerHeld, ChordSatisfied, IsLoneKey
  <2>8. ~Reset
    BY DEF Reset, TriggerHeld, ChordSatisfied
  <2>9. \/ \E m \in ModifierKeys : DownModifier(m) \/ UpModifier(m)
        \/ \E k \in MainKeys : DownMain(k) \/ UpMain(k)
    BY <2>3, <2>8 DEF Next, KeyEvent, Command, OnPanelKey, OtherKeyDown, SetPanelKeys,
                      Rerecord, OnTick, Elapse
  <2> QED
    BY <2>2, <2>4, <2>5, <2>6, <2>7, <2>9
<1> QED
  BY <1>1, IInvHolds, PTL DEF Spec, NextTapStopsTheLatch

-----------------------------------------------------------------------------
(* The press and its recording began at the same instant, so their ages    *)
(* agree: what ties the length of a press, which is what a release tests,  *)
(* to the length of the audio, which is what the user said.                *)
SameAge == active = "Held" => since = recording_age

LEMMA SameAgePreserved == IInv /\ SameAge /\ [Next]_vars => SameAge'
<1> SUFFICES ASSUME IInv, SameAge, [Next]_vars PROVE SameAge'
  OBVIOUS
<1> USE DEF SameAge, press, Begin, End
<1>1. Quiet => SameAge'
  BY DEF Quiet
<1>2. OnChordDown \/ OnLoneKeyDown => SameAge'
  BY DEF OnChordDown, OnLoneKeyDown, Quiet
<1>3. EndActivePress => SameAge'
  BY DEF EndActivePress
<1>4. OnTriggerUp => SameAge'
  BY <1>3 DEF OnTriggerUp
<1>5. Withdraw => SameAge'
  BY DEF Withdraw
<1>6. Elapse => SameAge'
  BY DEF Elapse, IInv, RecordingIsActive, TypeOK
<1>7. OnTick => SameAge'
  BY <1>1 DEF OnTick
<1>8. Command => SameAge'
  BY <1>3 DEF Command, SetPanelKeys, Rerecord, Reset
<1>9. KeyEvent => SameAge'
  BY <1>1, <1>2, <1>4, <1>5
     DEF KeyEvent, DownModifier, UpModifier, DownMain, UpMain, OnPanelKey, OtherKeyDown,
         AnyOtherKey
<1> QED
  BY <1>6, <1>7, <1>8, <1>9 DEF Next, vars

(* An accidental tap never dictates, however its recording came to an end. *)
THEOREM AccidentalTap == Spec => TapNeverDictates
<1> DEFINE Long == recording /\ recording_age >= PressThreshold
           Stopped == out' = <<"StopRecording">>
<1>1. Init => SameAge
  BY DEF Init, SameAge
<1>2. IInv /\ SameAge /\ [Next]_vars =>
        [Stopped /\ (IsLoneKey \/ config.mode = "Hold") => Long]_vars
  <2> SUFFICES ASSUME IInv, SameAge, Next, Stopped, IsLoneKey \/ config.mode = "Hold"
               PROVE  Long
    OBVIOUS
  <2>1. active # "Latched"
    BY DEF IInv, LatchNeedsAToggleChord
  <2>2. ~Quiet
    BY DEF Quiet
  <2>3. ~OnChordDown /\ ~OnLoneKeyDown
    BY <2>1, <2>2 DEF OnChordDown, OnLoneKeyDown
  <2>4. ~AnyOtherKey
    BY DEF AnyOtherKey
  <2>5. EndActivePress => Long
    BY TimeAssumption DEF EndActivePress, SameAge, IInv, RecordingIsActive, TypeOK
  <2>6. OnTriggerUp => Long
    BY <2>5 DEF OnTriggerUp
  <2>7. OnTick => Long
    BY <2>2, TimeAssumption DEF OnTick, IInv, TypeOK
  <2>8. ~Elapse
    BY DEF Elapse
  <2>9. Command => Long
    BY <2>5 DEF Command, SetPanelKeys, Rerecord, Reset
  <2>10. \A a \in PanelActions : ~OnPanelKey(a)
    BY <2>4 DEF OnPanelKey, PanelActions
  <2>11. KeyEvent => Long
    BY <2>2, <2>3, <2>4, <2>6, <2>10
       DEF KeyEvent, DownModifier, UpModifier, DownMain, UpMain, OtherKeyDown
  <2> QED
    BY <2>7, <2>8, <2>9, <2>11 DEF Next
<1> QED
  BY <1>1, <1>2, SameAgePreserved, IInvHolds, PTL DEF Spec, TapNeverDictates

-----------------------------------------------------------------------------
(* The listener.  Whatever it translates is an event of the machine.       *)
LEMMA TranslatedIsAnEvent ==
  ASSUME NEW e, Translate(e)
  PROVE  KeyEvent \/ UNCHANGED vars
<1>1. PanelActionsOf(e.key, e.families) \subseteq PanelActions
  BY ListenerAssumption DEF PanelActionsOf
<1>2. NamedKeys \subseteq MainKeys
  BY ListenerAssumption
<1> QED
  BY <1>1, <1>2 DEF Translate, KeyEvent

LEMMA ListenerIsAMachine ==
  ASSUME [ListenerNext]_lvars
  PROVE  [Next]_vars
<1>1. CASE Keyboard
  BY <1>1 DEF Keyboard, Press, Release, Unseen, Seen
<1>2. CASE Application
  BY <1>2 DEF Application, PanelKeysChange, Ask, PanelKeysSend, Drop
<1>3. CASE TakeCommand
  BY <1>3 DEF TakeCommand, Apply, Next, Command
<1>4. CASE NoCommand \/ HookGone
  BY <1>4 DEF NoCommand, HookGone
<1>5. CASE TakeEvent
  BY <1>5, TranslatedIsAnEvent DEF TakeEvent, Next
<1>6. CASE Tick \/ Time
  BY <1>6 DEF Tick, Time, Next
<1>7. CASE UNCHANGED lvars
  BY <1>7 DEF lvars
<1> QED
  BY <1>1, <1>2, <1>3, <1>4, <1>5, <1>6, <1>7 DEF ListenerNext, Run

(* Every step of the listener is a step of the machine, or none of its     *)
(* business: what is proved of the machine holds in the listener.          *)
THEOREM ListenerRunsTheMachine == ListenerSpec => Spec
<1>1. ListenerInit => Init
  BY DEF ListenerInit
<1> QED
  BY <1>1, ListenerIsAMachine, PTL DEF ListenerSpec, Spec

(* What the listener's own fields hold. *)
Queues ==
  /\ events \in Seq(Event) /\ commands \in Seq(Commands)
  /\ down \subseteq ModifierKeys \union MainKeys
  /\ panel \in {"idle", "Arm", "Disarm"}

LEMMA EventsAreEvents ==
  ASSUME NEW k \in Keys, NEW b \in BOOLEAN, NEW c \in BOOLEAN
  PROVE  [key |-> k, is_key_down |-> b, families |-> HeldFamilies, swallowed |-> c] \in Event
  BY KeyAssumption DEF Event, HeldFamilies

LEMMA QueuesAreKept ==
  ASSUME Queues, [ListenerNext]_lvars
  PROVE  Queues'
<1> USE DEF Queues, outer, hook
<1>1. ASSUME NEW k \in Keys, Press(k)
      PROVE  Queues'
  <2>1. [key |-> k, is_key_down |-> TRUE, families |-> HeldFamilies,
         swallowed |-> TRUE /\ Swallows(k)] \in Event
    <3>1. (TRUE /\ Swallows(k)) \in BOOLEAN
      BY DEF Swallows
    <3> QED
      BY <3>1, EventsAreEvents
  <2> QED
    BY <1>1, <2>1 DEF Press, Seen, Keys
<1>2. ASSUME NEW k \in Keys, Release(k)
      PROVE  Queues'
  <2>1. [key |-> k, is_key_down |-> FALSE, families |-> HeldFamilies,
         swallowed |-> FALSE /\ Swallows(k)] \in Event
    <3>1. (FALSE /\ Swallows(k)) \in BOOLEAN
      OBVIOUS
    <3> QED
      BY <3>1, EventsAreEvents
  <2> QED
    BY <1>2, <2>1 DEF Release, Seen
<1>3. ASSUME NEW k \in Keys, Unseen(k)
      PROVE  Queues'
  BY <1>3 DEF Unseen, Keys
<1>4. ASSUME NEW c \in {"Arm", "Disarm"}, PanelKeysChange(c)
      PROVE  Queues'
  BY <1>4 DEF PanelKeysChange
<1>5. ASSUME NEW c \in {"Reset", "Rerecord"}, Ask(c)
      PROVE  Queues'
  BY <1>5 DEF Ask, Send, Commands
<1>6. CASE PanelKeysSend
  BY <1>6 DEF PanelKeysSend, Send, Commands
<1>7. CASE Drop \/ NoCommand \/ HookGone \/ Tick \/ Time
  BY <1>7 DEF Drop, NoCommand, HookGone, Tick, Time
<1>8. CASE TakeCommand
  BY <1>8 DEF TakeCommand
<1>9. CASE TakeEvent
  BY <1>9 DEF TakeEvent
<1>10. CASE UNCHANGED lvars
  BY <1>10 DEF lvars
<1> QED
  BY <1>1, <1>2, <1>3, <1>4, <1>5, <1>6, <1>7, <1>8, <1>9, <1>10
     DEF ListenerNext, Keyboard, Application, Run

-----------------------------------------------------------------------------
(* The last word of a queue about a key: it is given, or it is not.        *)
SaysDown(q, n, k) == \E i \in 1..n :
  q[i].key = k /\ q[i].is_key_down /\ \A j \in i+1..n : q[j].key # k

Silent(q, n, k) == \A j \in 1..n : q[j].key # k

Holds(k) == k \in held \/ (main_held /\ k = config.trigger.key)

LEMMA WordsOfBelief ==
  ASSUME NEW n, NEW k \in Keys
  PROVE  k \in BelievedAfter(n) <=> SaysDown(events, n, k) \/ (Holds(k) /\ Silent(events, n, k))
  BY DEF BelievedAfter, SaysDown, Silent, Holds

(* A queue and the one with an event more agree about what came before.    *)
LEMMA WordsBefore ==
  ASSUME NEW q \in Seq(Event), NEW e \in Event, NEW n \in 0..Len(q), NEW k
  PROVE  /\ SaysDown(Append(q, e), n, k) <=> SaysDown(q, n, k)
         /\ Silent(Append(q, e), n, k) <=> Silent(q, n, k)
<1>1. \A i \in 1..n : Append(q, e)[i] = q[i]
  OBVIOUS
<1> QED
  BY <1>1 DEF SaysDown, Silent

LEMMA WordsAfterAppend ==
  ASSUME NEW q \in Seq(Event), NEW e \in Event, NEW k
  PROVE  /\ SaysDown(Append(q, e), Len(q) + 1, k) <=>
              IF e.key = k THEN e.is_key_down ELSE SaysDown(q, Len(q), k)
         /\ Silent(Append(q, e), Len(q) + 1, k) <=> e.key # k /\ Silent(q, Len(q), k)
<1> DEFINE r == Append(q, e)
           n == Len(q)
<1>1. n \in Nat /\ r[n + 1] = e /\ \A i \in 1..n : r[i] = q[i]
  OBVIOUS
<1> HIDE DEF r, n
<1>2. Silent(r, n + 1, k) <=> e.key # k /\ Silent(q, n, k)
  BY <1>1 DEF Silent
<1>3. CASE e.key = k
  <2>1. SaysDown(r, n + 1, k) => e.is_key_down
    <3> SUFFICES ASSUME NEW i \in 1..n + 1, r[i].key = k, r[i].is_key_down,
                        \A j \in i+1..n + 1 : r[j].key # k
                 PROVE  e.is_key_down
      BY DEF SaysDown
    <3>1. i = n + 1
      BY <1>1, <1>3
    <3> QED
      BY <1>1, <3>1
  <2>2. e.is_key_down => SaysDown(r, n + 1, k)
    BY <1>1, <1>3 DEF SaysDown
  <2> QED
    BY <1>2, <1>3, <2>1, <2>2 DEF r, n
<1>4. CASE e.key # k
  <2>1. SaysDown(r, n + 1, k) => SaysDown(q, n, k)
    BY <1>1, <1>4 DEF SaysDown
  <2>2. SaysDown(q, n, k) => SaysDown(r, n + 1, k)
    <3> SUFFICES ASSUME NEW i \in 1..n, q[i].key = k, q[i].is_key_down, \A j \in i+1..n : q[j].key # k
                 PROVE  SaysDown(r, n + 1, k)
      BY DEF SaysDown
    <3>1. \A j \in i+1..n + 1 : r[j].key # k
      BY <1>1, <1>4
    <3> QED
      BY <1>1, <3>1 DEF SaysDown
  <2> QED
    BY <1>2, <1>4, <2>1, <2>2 DEF r, n
<1> QED
  BY <1>3, <1>4

LEMMA WordsAfterTail ==
  ASSUME NEW q \in Seq(Event), q # <<>>, NEW n \in 0..Len(q) - 1, NEW k
  PROVE  /\ SaysDown(q, n + 1, k) <=>
              \/ SaysDown(Tail(q), n, k)
              \/ Head(q).key = k /\ Head(q).is_key_down /\ Silent(Tail(q), n, k)
         /\ Silent(q, n + 1, k) <=> Head(q).key # k /\ Silent(Tail(q), n, k)
<1> DEFINE r == Tail(q)
           e == Head(q)
<1>1. n \in Nat /\ q[1] = e /\ \A i \in 1..n : r[i] = q[i + 1]
  OBVIOUS
<1> HIDE DEF r, e
<1>2. Silent(q, n + 1, k) => e.key # k /\ Silent(r, n, k)
  BY <1>1 DEF Silent
<1>3. e.key # k /\ Silent(r, n, k) => Silent(q, n + 1, k)
  <2> SUFFICES ASSUME e.key # k, \A j \in 1..n : r[j].key # k, NEW j \in 1..n + 1
               PROVE  q[j].key # k
    BY DEF Silent
  <2>1. CASE j = 1
    BY <1>1, <2>1
  <2>2. CASE j # 1
    <3>1. j - 1 \in 1..n /\ (j - 1) + 1 = j
      BY <1>1, <2>2
    <3> QED
      BY <1>1, <3>1
  <2> QED
    BY <2>1, <2>2
<1>4. SaysDown(q, n + 1, k) => SaysDown(r, n, k) \/ (e.key = k /\ e.is_key_down /\ Silent(r, n, k))
  <2> SUFFICES ASSUME NEW i \in 1..n + 1, q[i].key = k, q[i].is_key_down,
                      \A j \in i+1..n + 1 : q[j].key # k
               PROVE  SaysDown(r, n, k) \/ (e.key = k /\ e.is_key_down /\ Silent(r, n, k))
    BY DEF SaysDown
  <2>1. CASE i = 1
    BY <1>1, <2>1 DEF Silent
  <2>2. CASE i # 1
    <3>1. i - 1 \in 1..n /\ (i - 1) + 1 = i /\ r[i - 1] = q[i]
      BY <1>1, <2>2
    <3>2. \A j \in (i - 1)+1..n : r[j].key # k
      BY <1>1, <3>1
    <3> QED
      BY <3>1, <3>2 DEF SaysDown
  <2> QED
    BY <2>1, <2>2
<1>5. SaysDown(r, n, k) => SaysDown(q, n + 1, k)
  <2> SUFFICES ASSUME NEW i \in 1..n, r[i].key = k, r[i].is_key_down, \A j \in i+1..n : r[j].key # k
               PROVE  SaysDown(q, n + 1, k)
    BY DEF SaysDown
  <2>1. \A j \in (i + 1)+1..n + 1 : q[j].key # k
    <3> SUFFICES ASSUME NEW j \in (i + 1)+1..n + 1 PROVE q[j].key # k
      OBVIOUS
    <3>1. j - 1 \in i+1..n /\ (j - 1) + 1 = j /\ j - 1 \in 1..n
      BY <1>1
    <3> QED
      BY <1>1, <3>1
  <2>2. i + 1 \in 1..n + 1 /\ q[i + 1] = r[i]
    BY <1>1
  <2> QED
    BY <2>1, <2>2 DEF SaysDown
<1>6. e.key = k /\ e.is_key_down /\ Silent(r, n, k) => SaysDown(q, n + 1, k)
  <2> SUFFICES ASSUME e.key = k, e.is_key_down, \A j \in 1..n : r[j].key # k
               PROVE  SaysDown(q, n + 1, k)
    BY DEF Silent
  <2>1. \A j \in 1+1..n + 1 : q[j].key # k
    <3> SUFFICES ASSUME NEW j \in 1+1..n + 1 PROVE q[j].key # k
      OBVIOUS
    <3>1. j - 1 \in 1..n /\ (j - 1) + 1 = j
      BY <1>1
    <3> QED
      BY <1>1, <3>1
  <2>2. 1 \in 1..n + 1
    BY <1>1
  <2> QED
    BY <1>1, <2>1, <2>2 DEF SaysDown
<1> QED
  BY <1>2, <1>3, <1>4, <1>5, <1>6 DEF r, e

-----------------------------------------------------------------------------
LEMMA ConfigIsKept ==
  ASSUME [Next]_vars
  PROVE  config' = config
<1>1. KeyEvent => config' = config
  BY DEF KeyEvent, DownModifier, UpModifier, DownMain, UpMain, OnPanelKey, OtherKeyDown
<1>2. Command => config' = config
  BY DEF Command, SetPanelKeys, Rerecord, Reset
<1> QED
  BY <1>1, <1>2 DEF Next, OnTick, Elapse, vars

(* Once an event has been translated the machine believes what it said of  *)
(* its key, and of the others what it believed.                            *)
LEMMA TranslatedIsBelieved ==
  ASSUME TypeOK, NEW e \in Event, Translate(e), NEW k \in Watched
  PROVE  Holds(k)' <=> IF e.key = k THEN e.is_key_down ELSE Holds(k)
<1> USE DEF Holds
<1>1. k \in ModifierKeys \/ (k = config.trigger.key /\ k \in NamedKeys /\ k \in MainKeys)
  BY ListenerAssumption DEF Watched
<1>2. ModifierKeys \intersect MainKeys = {} /\ held \subseteq ModifierKeys
  BY KeyAssumption DEF TypeOK
<1>3. config.trigger.key \notin ModifierKeys
  BY KeyAssumption DEF TypeOK, Triggers, LoneTriggers, ChordTriggers
<1>4. CASE e.key \in ModifierKeys /\ e.is_key_down /\ DownModifier(e.key)
  BY <1>1, <1>2, <1>3, <1>4 DEF DownModifier
<1>5. CASE e.key \in ModifierKeys /\ ~e.is_key_down /\ UpModifier(e.key)
  BY <1>1, <1>2, <1>3, <1>5 DEF UpModifier
<1>6. CASE /\ e.key = config.trigger.key /\ e.key \in NamedKeys
           /\ e.is_key_down /\ DownMain(e.key)
  BY <1>1, <1>2, <1>3, <1>6 DEF DownMain
<1>7. CASE /\ e.key = config.trigger.key /\ e.key \in NamedKeys
           /\ ~e.is_key_down /\ UpMain(e.key)
  BY <1>1, <1>2, <1>3, <1>7 DEF UpMain
<1>8. CASE /\ e.key \notin ModifierKeys /\ ~(e.key = config.trigger.key /\ e.key \in NamedKeys)
           /\ UNCHANGED <<config, keys>>
  BY <1>1, <1>8 DEF keys
<1> QED
  BY <1>4, <1>5, <1>6, <1>7, <1>8 DEF Translate, OnPanelKey, OtherKeyDown, vars, keys

(* What is believed, while no key was hidden and none forgotten: in the    *)
(* end what is down, and at each event the families that it was seen with. *)
Knows == \A k \in Watched : k \in BelievedAfter(Len(events)) <=> k \in down

FamiliesBelieved(n) == {FamilyOf[m] : m \in {k \in ModifierKeys : k \in BelievedAfter(n)}}

Recalls == \A i \in 1..Len(events) : events[i].families = FamiliesBelieved(i - 1)

Belief == sure => Knows /\ Recalls

LEMMA FamiliesOfTheSame ==
  ASSUME NEW n, NEW m, \A k \in ModifierKeys : k \in BelievedAfter(m)' <=> k \in BelievedAfter(n)
  PROVE  FamiliesBelieved(m)' = FamiliesBelieved(n)
  BY DEF FamiliesBelieved

(* An event that is seen is believed last. *)
LEMMA SeenIsBelieved ==
  ASSUME Queues, Knows, Recalls, NEW k \in Keys, NEW b \in BOOLEAN, Seen(k, b),
         down' = IF b THEN down \union ({k} \ OtherKeys) ELSE down \ {k}, events' \in Seq(Event)
  PROVE  Knows' /\ Recalls'
<1> DEFINE e == [key |-> k, is_key_down |-> b, families |-> HeldFamilies, swallowed |-> b /\ Swallows(k)]
<1>0. /\ events' = Append(events, e) /\ UNCHANGED vars
      /\ e.key = k /\ e.is_key_down = b /\ e.families = HeldFamilies
  BY DEF Seen
<1>1. e \in Event /\ events \in Seq(Event)
  <2>1. (b /\ Swallows(k)) \in BOOLEAN
    OBVIOUS
  <2> QED
    BY <2>1, EventsAreEvents DEF Queues
<1> HIDE DEF e
<1> PICK n : n = Len(events)
  OBVIOUS
<1>2. n \in Nat /\ Len(events') = n + 1
  BY <1>0, <1>1
<1>3. Watched' = Watched /\ \A l : Holds(l)' <=> Holds(l)
  BY <1>0 DEF Watched, Holds, vars
<1>4. Knows'
  <2> SUFFICES ASSUME NEW l \in Watched
               PROVE  l \in BelievedAfter(n + 1)' <=> l \in down'
    BY <1>2, <1>3 DEF Knows
  <2>1. l \in Keys /\ l \notin OtherKeys
    BY ListenerAssumption DEF Watched, Keys
  <2>2. l \in BelievedAfter(n + 1)' <=>
          SaysDown(events', n + 1, l) \/ (Holds(l)' /\ Silent(events', n + 1, l))
    BY <2>1 DEF BelievedAfter, SaysDown, Silent, Holds
  <2>3. l \in BelievedAfter(n) <=>
          SaysDown(events, n, l) \/ (Holds(l) /\ Silent(events, n, l))
    BY <2>1, WordsOfBelief
  <2>4. /\ SaysDown(events', n + 1, l) <=> IF k = l THEN b ELSE SaysDown(events, n, l)
        /\ Silent(events', n + 1, l) <=> k # l /\ Silent(events, n, l)
    BY <1>0, <1>1, WordsAfterAppend
  <2>5. l \in BelievedAfter(n) <=> l \in down
    BY DEF Knows
  <2>6. l \in down' <=> IF k = l THEN b ELSE l \in down
    BY <2>1
  <2> QED
    BY <1>3, <2>2, <2>3, <2>4, <2>5, <2>6
<1>5. \A m \in 0..n : FamiliesBelieved(m)' = FamiliesBelieved(m)
  <2> SUFFICES ASSUME NEW m \in 0..n, NEW l \in ModifierKeys
               PROVE  l \in BelievedAfter(m)' <=> l \in BelievedAfter(m)
    BY FamiliesOfTheSame
  <2>1. l \in Keys
    BY DEF Keys
  <2>2. l \in BelievedAfter(m)' <=> SaysDown(events', m, l) \/ (Holds(l)' /\ Silent(events', m, l))
    BY <2>1 DEF BelievedAfter, SaysDown, Silent, Holds
  <2> QED
    BY <1>0, <1>1, <1>3, <2>1, <2>2, WordsBefore, WordsOfBelief
<1>6. HeldFamilies = FamiliesBelieved(n)
  <2>1. \A l \in ModifierKeys : l \in BelievedAfter(n) <=> l \in down
    BY DEF Knows, Watched
  <2> QED
    BY <2>1 DEF HeldFamilies, FamiliesBelieved
<1>7. Recalls'
  <2> SUFFICES ASSUME NEW i \in 1..n + 1
               PROVE  events'[i].families = FamiliesBelieved(i - 1)'
    BY <1>2 DEF Recalls
  <2>1. CASE i \in 1..n
    <3>1. events'[i] = events[i] /\ i - 1 \in 0..n
      BY <1>0, <1>1, <2>1, AppendProperties
    <3> QED
      BY <1>5, <2>1, <3>1 DEF Recalls
  <2>2. CASE i = n + 1
    <3>1. events'[i] = e /\ i - 1 = n /\ i - 1 \in 0..n
      BY <1>0, <1>1, <1>2, <2>2, AppendProperties
    <3> QED
      BY <1>0, <1>5, <1>6, <3>1
  <2> QED
    BY <1>2, <2>1, <2>2
<1> QED
  BY <1>4, <1>7

(* An event that is translated is believed as before. *)
LEMMA TakenIsBelieved ==
  ASSUME TypeOK, Queues, Knows, Recalls, TakeEvent, config' = config
  PROVE  Knows' /\ Recalls'
<1> DEFINE e == Head(events)
<1>1. /\ events \in Seq(Event) /\ events # <<>> /\ events' = Tail(events) /\ down' = down
      /\ Translate(e) /\ e \in Event
  BY HeadTailProperties DEF TakeEvent, Queues
<1> HIDE DEF e
<1>2. Len(events) \in Nat /\ Len(events) > 0 /\ Len(events') = Len(events) - 1
  BY <1>1
<1>3. ASSUME NEW n \in 0..Len(events) - 1, NEW l \in Watched
      PROVE  l \in BelievedAfter(n)' <=> l \in BelievedAfter(n + 1)
  <2>1. l \in Keys
    BY ListenerAssumption DEF Watched, Keys
  <2>2. l \in BelievedAfter(n)' <=> SaysDown(events', n, l) \/ (Holds(l)' /\ Silent(events', n, l))
    BY <2>1 DEF BelievedAfter, SaysDown, Silent, Holds
  <2>3. l \in BelievedAfter(n + 1) <=>
          SaysDown(events, n + 1, l) \/ (Holds(l) /\ Silent(events, n + 1, l))
    BY <2>1, WordsOfBelief
  <2>4. /\ SaysDown(events, n + 1, l) <=>
              SaysDown(events', n, l) \/ (e.key = l /\ e.is_key_down /\ Silent(events', n, l))
        /\ Silent(events, n + 1, l) <=> e.key # l /\ Silent(events', n, l)
    BY <1>1, WordsAfterTail DEF e
  <2>5. Holds(l)' <=> IF e.key = l THEN e.is_key_down ELSE Holds(l)
    BY <1>1, TranslatedIsBelieved
  <2> QED
    BY <2>2, <2>3, <2>4, <2>5
<1>4. Watched' = Watched /\ ModifierKeys \subseteq Watched
  BY DEF Watched
<1>5. Knows'
  <2> PICK n \in 0..Len(events) - 1 : n + 1 = Len(events)
    <3>1. Len(events) - 1 \in 0..Len(events) - 1 /\ (Len(events) - 1) + 1 = Len(events)
      BY <1>2
    <3> QED
      BY <3>1
  <2>1. \A l \in Watched : l \in BelievedAfter(n)' <=> l \in BelievedAfter(n + 1)
    BY <1>3
  <2>2. Len(events') = n
    BY <1>2
  <2> QED
    BY <1>1, <1>4, <2>1, <2>2 DEF Knows
<1>6. Recalls'
  <2> SUFFICES ASSUME NEW i \in 1..Len(events) - 1
               PROVE  events'[i].families = FamiliesBelieved(i - 1)'
    BY <1>2 DEF Recalls
  <2>1. events'[i] = events[i + 1] /\ i + 1 \in 1..Len(events) /\ (i + 1) - 1 = i
    BY <1>1, <1>2
  <2>2. events[i + 1].families = FamiliesBelieved(i)
    BY <2>1 DEF Recalls
  <2>3. i - 1 \in 0..Len(events) - 1 /\ (i - 1) + 1 = i
    BY <1>2
  <2>4. \A l \in ModifierKeys : l \in BelievedAfter(i - 1)' <=> l \in BelievedAfter(i)
    BY <1>3, <1>4, <2>3
  <2> QED
    BY <2>1, <2>2, <2>4, FamiliesOfTheSame
<1> QED
  BY <1>5, <1>6

(* No other step touches what is believed. *)
LEMMA BeliefUntouched ==
  ASSUME Knows, Recalls, UNCHANGED <<config, keys, events, down>>
  PROVE  Knows' /\ Recalls'
<1>1. \A n : BelievedAfter(n)' = BelievedAfter(n)
  BY DEF BelievedAfter, keys
<1>2. Watched' = Watched
  BY DEF Watched
<1>3. \A n : FamiliesBelieved(n)' = FamiliesBelieved(n)
  BY <1>1, FamiliesOfTheSame
<1> QED
  BY <1>1, <1>2, <1>3 DEF Knows, Recalls

LEMMA BeliefIsKept ==
  ASSUME TypeOK, Queues, Belief, [ListenerNext]_lvars
  PROVE  Belief'
<1>0. config' = config /\ Queues'
  BY ListenerIsAMachine, ConfigIsKept, QueuesAreKept
<1> USE DEF Belief, outer, hook
<1>1. ASSUME NEW k \in Keys, Press(k)
      PROVE  Belief'
  BY <1>0, <1>1, SeenIsBelieved DEF Press, Seen, Queues
<1>2. ASSUME NEW k \in Keys, Release(k)
      PROVE  Belief'
  BY <1>0, <1>2, SeenIsBelieved DEF Release, Seen, Queues
<1>3. ASSUME NEW k \in Keys, Unseen(k)
      PROVE  Belief'
  BY <1>3 DEF Unseen
<1>4. CASE TakeEvent
  BY <1>0, <1>4, TakenIsBelieved DEF TakeEvent
<1>5. CASE TakeCommand
  <2>1. sure' => sure /\ Head(commands) # "Reset"
    BY <1>5, Zenon DEF TakeCommand
  <2>2. Head(commands) # "Reset" => UNCHANGED <<config, keys, events, down>>
    BY <1>5 DEF TakeCommand, Apply, SetPanelKeys, Rerecord, keys
  <2> QED
    BY <2>1, <2>2, BeliefUntouched
<1>6. CASE Application \/ NoCommand \/ HookGone \/ Tick \/ Time \/ UNCHANGED lvars
  <2>1. UNCHANGED <<config, keys, events, down, sure>>
    BY <1>6 DEF Application, PanelKeysChange, Ask, PanelKeysSend, Drop, NoCommand, HookGone,
       Tick, OnTick, Time, Elapse, lvars, vars, keys
  <2> QED
    BY <2>1, BeliefUntouched
<1> QED
  BY <1>1, <1>2, <1>3, <1>4, <1>5, <1>6 DEF ListenerNext, Keyboard, Run

-----------------------------------------------------------------------------
(* What the hook has swallowed: the main key of a chord that is shared     *)
(* with it, exactly with the chord's own families.                         *)
TriggerBlocked == ~Observing /\ ~IsLoneKey => "trigger" \in blocking

Fits(e) ==
  e.key = config.trigger.key /\ e.is_key_down /\ ~Observing =>
    (e.swallowed <=> e.families = config.trigger.requires)

Swallowed == TriggerBlocked /\ \A i \in 1..Len(events) : Fits(events[i])

LEMMA LoneOrNamed ==
  ASSUME TypeOK, config.trigger.key \in Keys
  PROVE  ~IsLoneKey /\ config.trigger.key \in MainKeys /\ config.trigger.key \notin OtherKeys
  BY KeyAssumption, ListenerAssumption
     DEF TypeOK, IsLoneKey, Triggers, LoneTriggers, ChordTriggers, Keys

LEMMA SeenFits ==
  ASSUME TypeOK, Queues, Swallowed, NEW k \in Keys, NEW b \in BOOLEAN, Seen(k, b)
  PROVE  Swallowed'
<1> DEFINE e == [key |-> k, is_key_down |-> b, families |-> HeldFamilies, swallowed |-> b /\ Swallows(k)]
<1>1. /\ events' = Append(events, e) /\ UNCHANGED <<config, blocking>>
      /\ e.key = k /\ e.is_key_down = b /\ e.families = HeldFamilies /\ e.swallowed = (b /\ Swallows(k))
  BY DEF Seen, vars
<1>2. e \in Event /\ events \in Seq(Event)
  <2>1. (b /\ Swallows(k)) \in BOOLEAN
    OBVIOUS
  <2> QED
    BY <2>1, EventsAreEvents DEF Queues
<1> HIDE DEF e
<1>3. Fits(e)
  <2> SUFFICES ASSUME k = config.trigger.key, b, ~Observing
               PROVE  Swallows(k) <=> HeldFamilies = config.trigger.requires
    BY <1>1 DEF Fits
  <2>1. "trigger" \in blocking /\ k \notin OtherKeys
    BY LoneOrNamed DEF Swallowed, TriggerBlocked
  <2>2. PanelActionsOf(k, HeldFamilies) = {}
    BY <2>1, ListenerAssumption DEF PanelActionsOf
  <2> QED
    BY <2>1, <2>2 DEF Swallows
<1>4. \A f : Fits(f)' <=> Fits(f)
  BY <1>1 DEF Fits, Observing, IsLoneKey
<1>5. TriggerBlocked'
  BY <1>1 DEF Swallowed, TriggerBlocked, Observing, IsLoneKey
<1>6. ASSUME NEW i \in 1..Len(events) + 1 PROVE Fits(events'[i])
  <2>1. CASE i \in 1..Len(events)
    BY <1>1, <1>2, <2>1, AppendProperties DEF Swallowed
  <2>2. CASE i = Len(events) + 1
    BY <1>1, <1>2, <1>3, <2>2, AppendProperties
  <2> QED
    BY <2>1, <2>2
<1>7. Len(events') = Len(events) + 1
  BY <1>1, <1>2, AppendProperties
<1>8. \A i \in 1..Len(events') : Fits(events'[i])
  BY <1>6, <1>7
<1> QED
  BY <1>1, <1>5, <1>8 DEF Swallowed, Fits, Observing, IsLoneKey

LEMMA SwallowedIsKept ==
  ASSUME TypeOK, Queues, Swallowed, [ListenerNext]_lvars
  PROVE  Swallowed'
<1>0. config' = config
  BY ListenerIsAMachine, ConfigIsKept
<1>1. ASSUME NEW k \in Keys, Press(k) \/ Release(k)
      PROVE  Swallowed'
  BY <1>1, SeenFits DEF Press, Release
<1>2. TriggerBlocked' \/ \E k \in Keys : Press(k) \/ Release(k)
  BY <1>0 DEF Swallowed, TriggerBlocked, Observing, IsLoneKey, ListenerNext, Keyboard, Application, Run, Unseen,
     PanelKeysChange, PanelKeysSend, Ask, Drop, TakeCommand, NoCommand, TakeEvent, Tick, HookGone, Time,
     lvars, hook
<1>3. CASE TakeEvent
  <2>1. /\ events \in Seq(Event) /\ events # <<>> /\ events' = Tail(events)
    BY <1>3 DEF TakeEvent, Queues
  <2>2. \A i \in 1..Len(events') : events'[i] = events[i + 1] /\ i + 1 \in 1..Len(events)
    BY <2>1
  <2>3. \A i \in 1..Len(events') : Fits(events'[i])
    BY <2>2 DEF Swallowed
  <2> QED
    BY <1>0, <1>1, <1>2, <2>3 DEF Swallowed, Fits, Observing, IsLoneKey
<1>4. CASE events' = events
  BY <1>0, <1>1, <1>2, <1>4 DEF Swallowed, Fits, Observing, IsLoneKey
<1>5. TakeEvent \/ events' = events \/ \E k \in Keys : Press(k) \/ Release(k)
  BY DEF ListenerNext, Keyboard, Application, Run, Unseen, PanelKeysChange, PanelKeysSend, Ask, Drop,
     TakeCommand, NoCommand, Tick, HookGone, Time, lvars, hook
<1> QED
  BY <1>1, <1>3, <1>4, <1>5

-----------------------------------------------------------------------------
(* Whose the keys are, when a command is added and when one is taken.      *)
OwnerOf(q, p) ==
  \/ \E i \in 1..Len(q) : q[i] = "Arm" /\ \A j \in i+1..Len(q) : ~Says(q[j])
  \/ p /\ \A j \in 1..Len(q) : ~Says(q[j])

LEMMA OwnerAfterAppend ==
  ASSUME NEW q \in Seq(Commands), NEW c \in Commands, NEW p \in BOOLEAN
  PROVE  OwnerOf(Append(q, c), p) <=> IF Says(c) THEN c = "Arm" ELSE OwnerOf(q, p)
<1> DEFINE r == Append(q, c)
           n == Len(q)
<1>1. /\ n \in Nat /\ Len(r) = n + 1 /\ r[n + 1] = c
      /\ \A i \in 1..n : r[i] = q[i]
  OBVIOUS
<1>2. OwnerOf(q, p) <=> \/ \E i \in 1..n : q[i] = "Arm" /\ \A j \in i+1..n : ~Says(q[j])
                        \/ p /\ \A j \in 1..n : ~Says(q[j])
  BY DEF OwnerOf
<1>3. OwnerOf(r, p) <=> \/ \E i \in 1..n + 1 : r[i] = "Arm" /\ \A j \in i+1..n + 1 : ~Says(r[j])
                        \/ p /\ \A j \in 1..n + 1 : ~Says(r[j])
  BY <1>1 DEF OwnerOf
<1>4. Says("Arm")
  BY DEF Says
<1> HIDE DEF r, n
<1>5. CASE Says(c)
  <2>1. n + 1 \in 1..n + 1 /\ \A j \in (n + 1)+1..n + 1 : ~Says(r[j])
    BY <1>1
  <2>2. OwnerOf(r, p) => c = "Arm"
    <3>1. ASSUME NEW i \in 1..n + 1, r[i] = "Arm", \A j \in i+1..n + 1 : ~Says(r[j])
          PROVE  c = "Arm"
      <4>1. i = n + 1
        BY <1>1, <1>5, <3>1
      <4> QED
        BY <1>1, <3>1, <4>1
    <3> QED
      BY <1>1, <1>3, <1>5, <2>1, <3>1
  <2> QED
    BY <1>1, <1>3, <1>5, <2>1, <2>2 DEF r
<1>6. CASE ~Says(c)
  <2>1. ASSUME NEW i \in 1..n
        PROVE  (\A j \in i+1..n + 1 : ~Says(r[j])) <=> \A j \in i+1..n : ~Says(q[j])
    BY <1>1, <1>6
  <2>2. (\A j \in 1..n + 1 : ~Says(r[j])) <=> \A j \in 1..n : ~Says(q[j])
    BY <1>1, <1>6
  <2>3. r[n + 1] # "Arm"
    BY <1>1, <1>4, <1>6
  <2>4. \A i \in 1..n + 1 : i \in 1..n \/ i = n + 1
    BY <1>1
  <2>5. \A i \in 1..n : i \in 1..n + 1
    BY <1>1
  <2> QED
    BY <1>1, <1>2, <1>3, <1>6, <2>1, <2>2, <2>3, <2>4, <2>5 DEF r
<1> QED
  BY <1>5, <1>6

LEMMA OwnerAfterTail ==
  ASSUME NEW q \in Seq(Commands), q # <<>>, NEW p \in BOOLEAN
  PROVE  OwnerOf(q, p) <=> OwnerOf(Tail(q), IF Says(Head(q)) THEN Head(q) = "Arm" ELSE p)
<1> PICK n \in Nat : n + 1 = Len(q)
  <2>1. Len(q) \in Nat /\ Len(q) > 0
    OBVIOUS
  <2>2. Len(q) - 1 \in Nat /\ (Len(q) - 1) + 1 = Len(q)
    BY <2>1
  <2> QED
    BY <2>2
<1> DEFINE r == Tail(q)
           h == Head(q)
<1>1. Len(r) = n /\ q[1] = h /\ \A i \in 1..n : r[i] = q[i + 1]
  OBVIOUS
<1>2. OwnerOf(q, p) <=> \/ \E i \in 1..n + 1 : q[i] = "Arm" /\ \A j \in i+1..n + 1 : ~Says(q[j])
                        \/ p /\ \A j \in 1..n + 1 : ~Says(q[j])
  BY DEF OwnerOf
<1>3. ASSUME NEW b \in BOOLEAN
      PROVE  OwnerOf(r, b) <=> \/ \E i \in 1..n : r[i] = "Arm" /\ \A j \in i+1..n : ~Says(r[j])
                               \/ b /\ \A j \in 1..n : ~Says(r[j])
  <2>1. Len(r) = n
    BY <1>1
  <2> HIDE DEF r
  <2> QED
    BY <2>1 DEF OwnerOf
<1> HIDE DEF r, h
<1>4. ASSUME NEW i \in 0..n
      PROVE  (\A j \in i+1..n : ~Says(r[j])) <=> \A j \in (i + 1)+1..n + 1 : ~Says(q[j])
  <2>1. ASSUME \A j \in i+1..n : ~Says(r[j]), NEW j \in (i + 1)+1..n + 1
        PROVE  ~Says(q[j])
    <3>1. j - 1 \in i+1..n /\ j - 1 \in 1..n /\ (j - 1) + 1 = j
      OBVIOUS
    <3> QED
      BY <1>1, <2>1, <3>1
  <2>2. ASSUME \A j \in (i + 1)+1..n + 1 : ~Says(q[j]), NEW j \in i+1..n
        PROVE  ~Says(r[j])
    BY <1>1, <2>2
  <2> QED
    BY <2>1, <2>2
<1>5. (\A j \in 1..n : ~Says(r[j])) <=> \A j \in 1+1..n + 1 : ~Says(q[j])
  <2>1. 0 \in 0..n /\ 0 + 1 = 1
    OBVIOUS
  <2> QED
    BY <1>4, <2>1
<1>6. (\A j \in 1..n + 1 : ~Says(q[j])) <=> ~Says(h) /\ \A j \in 1+1..n + 1 : ~Says(q[j])
  BY <1>1
<1>7. (\E i \in 1..n + 1 : q[i] = "Arm" /\ \A j \in i+1..n + 1 : ~Says(q[j])) <=>
        \/ h = "Arm" /\ \A j \in 1+1..n + 1 : ~Says(q[j])
        \/ \E i \in 1..n : r[i] = "Arm" /\ \A j \in i+1..n : ~Says(r[j])
  <2>1. ASSUME NEW i \in 1..n + 1, q[i] = "Arm", \A j \in i+1..n + 1 : ~Says(q[j]), i # 1
        PROVE  \E k \in 1..n : r[k] = "Arm" /\ \A j \in k+1..n : ~Says(r[j])
    <3>1. i - 1 \in 1..n /\ i - 1 \in 0..n /\ (i - 1) + 1 = i
      BY <2>1
    <3> QED
      BY <1>1, <1>4, <2>1, <3>1
  <2>2. ASSUME NEW i \in 1..n, r[i] = "Arm", \A j \in i+1..n : ~Says(r[j])
        PROVE  \E k \in 1..n + 1 : q[k] = "Arm" /\ \A j \in k+1..n + 1 : ~Says(q[j])
    <3>1. i \in 0..n /\ i + 1 \in 1..n + 1
      OBVIOUS
    <3> QED
      BY <1>1, <1>4, <2>2, <3>1
  <2>3. 1 \in 1..n + 1
    OBVIOUS
  <2> QED
    BY <1>1, <2>1, <2>2, <2>3
<1> DEFINE b == IF Says(h) THEN h = "Arm" ELSE p
<1>8. OwnerOf(q, p) <=> OwnerOf(r, b)
  <2>1. h = "Arm" => Says(h)
    BY DEF Says
  <2>2. b \in BOOLEAN
    OBVIOUS
  <2>3. b <=> IF Says(h) THEN h = "Arm" ELSE p
    OBVIOUS
  <2> HIDE DEF b
  <2>4. OwnerOf(r, b) <=> \/ \E i \in 1..n : r[i] = "Arm" /\ \A j \in i+1..n : ~Says(r[j])
                          \/ b /\ \A j \in 1..n : ~Says(r[j])
    BY <1>3, <2>2
  <2> QED
    BY <1>2, <1>5, <1>6, <1>7, <2>1, <2>3, <2>4
<1> QED
  BY <1>8 DEF r, h

(* The set follows the last command given, also the one half given.        *)
Blocked ==
  thread # "ended" /\ ~Observing =>
    IF panel = "idle" THEN OwnerOf(commands, panel_keys) <=> "panel" \in blocking
    ELSE "panel" \in blocking <=> panel = "Arm"

LEMMA PanelKeysOfEvents ==
  ASSUME KeyEvent \/ OnTick \/ Elapse \/ UNCHANGED vars
  PROVE  panel_keys' = panel_keys
  BY DEF KeyEvent, DownModifier, UpModifier, DownMain, UpMain, OnPanelKey, OtherKeyDown, OnTick, Elapse, vars

LEMMA BlockedIsKept ==
  ASSUME TypeOK, Queues, Blocked, [ListenerNext]_lvars
  PROVE  Blocked'
<1>0. config' = config /\ (Observing' <=> Observing) /\ panel_keys \in BOOLEAN
  BY ListenerIsAMachine, ConfigIsKept DEF Observing, IsLoneKey, TypeOK
<1> SUFFICES ASSUME thread' # "ended", ~Observing
             PROVE  IF panel' = "idle" THEN OwnerOf(commands', panel_keys') <=> "panel" \in blocking'
                    ELSE "panel" \in blocking' <=> panel' = "Arm"
  BY <1>0 DEF Blocked
<1>1. thread # "ended"
  BY DEF ListenerNext, Keyboard, Application, Run, Press, Release, Seen, Unseen, PanelKeysChange, PanelKeysSend,
     Ask, Drop, TakeCommand, NoCommand, TakeEvent, Again, Tick, HookGone, Time, lvars
<1>2. CASE Keyboard
  BY <1>1, <1>2 DEF Blocked, Keyboard, Press, Release, Seen, Unseen, outer, vars
<1>3. ASSUME NEW c \in {"Arm", "Disarm"}, PanelKeysChange(c)
      PROVE  panel' = c /\ ("panel" \in blocking' <=> c = "Arm") /\ c # "idle"
  BY <1>3 DEF PanelKeysChange
<1>4. ASSUME NEW c \in {"Reset", "Rerecord"}, Ask(c)
      PROVE  Blocked'
  <2>1. commands' = Append(commands, c) /\ c \in Commands /\ ~Says(c)
    BY <1>1, <1>4 DEF Ask, Send, Commands, Says
  <2>2. OwnerOf(commands', panel_keys) <=> OwnerOf(commands, panel_keys)
    BY <1>0, <2>1, OwnerAfterAppend DEF Queues
  <2>3. UNCHANGED <<panel, panel_keys, blocking, thread>>
    BY <1>4 DEF Ask, vars, hook
  <2> QED
    BY <1>0, <1>1, <2>2, <2>3 DEF Blocked
<1>5. CASE PanelKeysSend
  <2>1. commands' = Append(commands, panel) /\ panel \in {"Arm", "Disarm"}
    BY <1>1, <1>5 DEF PanelKeysSend, Send, Queues
  <2>2. OwnerOf(commands', panel_keys) <=> panel = "Arm"
    BY <1>0, <2>1, OwnerAfterAppend DEF Queues, Commands, Says
  <2> QED
    BY <1>1, <1>5, <2>1, <2>2 DEF PanelKeysSend, Blocked, vars, hook
<1>6. CASE Drop \/ NoCommand \/ Tick \/ HookGone \/ Time \/ UNCHANGED lvars
  <2>1. UNCHANGED <<commands, panel, blocking, panel_keys>>
    BY <1>6, PanelKeysOfEvents DEF Drop, NoCommand, Tick, HookGone, Time, lvars, outer, hook, vars
  <2> QED
    BY <1>1, <2>1 DEF Blocked
<1>7. CASE TakeEvent
  <2>1. UNCHANGED <<commands, panel, blocking, panel_keys>>
    BY <1>7, TranslatedIsAnEvent, PanelKeysOfEvents DEF TakeEvent, outer
  <2> QED
    BY <1>1, <2>1 DEF Blocked
<1>8. CASE TakeCommand
  <2> DEFINE c == Head(commands)
  <2>1. /\ commands \in Seq(Commands) /\ commands # <<>> /\ commands' = Tail(commands)
        /\ Apply(c) /\ c \in Commands /\ panel' = panel /\ blocking' = blocking
    BY <1>8, HeadTailProperties DEF TakeCommand, Queues, hook
  <2>2. CASE Says(c)
    <3>1. c \in {"Arm", "Disarm"} /\ panel_keys' = (c = "Arm")
      BY <2>1, <2>2 DEF Apply, Says, SetPanelKeys
    <3>2. OwnerOf(commands, panel_keys) <=> OwnerOf(commands', c = "Arm")
      BY <1>0, <2>1, <2>2, OwnerAfterTail
    <3> QED
      BY <1>1, <2>1, <3>1, <3>2 DEF Blocked
  <2>3. CASE ~Says(c)
    <3>1. panel_keys' = panel_keys
      BY <2>1, <2>3 DEF Apply, Says, Reset, Rerecord
    <3>2. OwnerOf(commands, panel_keys) <=> OwnerOf(commands', panel_keys)
      BY <1>0, <2>1, <2>3, OwnerAfterTail
    <3> QED
      BY <1>1, <2>1, <3>1, <3>2 DEF Blocked
  <2> QED
    BY <2>2, <2>3
<1> QED
  BY <1>0, <1>2, <1>3, <1>4, <1>5, <1>6, <1>7, <1>8 DEF ListenerNext, Application, Run, Blocked

-----------------------------------------------------------------------------
ListenerInv == IInv /\ Queues /\ Belief /\ Swallowed /\ Blocked

LEMMA ListenerInvInitially ==
  ASSUME ListenerInit
  PROVE  ListenerInv
<1>1. IInv
  BY InitIInv DEF ListenerInit
<1>2. Queues
  BY EmptySeq DEF ListenerInit, Queues
<1>3. Belief
  <2>1. Len(events) = 0 /\ held = {} /\ ~main_held /\ down = {}
    BY DEF ListenerInit, Init
  <2>2. BelievedAfter(0) = {}
    BY <2>1 DEF BelievedAfter
  <2> QED
    BY <2>1, <2>2 DEF Belief, Knows, Recalls
<1>4. Swallowed
  BY DEF ListenerInit, Swallowed, TriggerBlocked
<1>5. Blocked
  BY DEF ListenerInit, Init, Blocked, OwnerOf
<1> QED
  BY <1>1, <1>2, <1>3, <1>4, <1>5 DEF ListenerInv

(* The invariant of the listener: the machine's own, and what the queues   *)
(* between the hook, the application and the thread will make of it.       *)
THEOREM ListenerInvHolds == ListenerSpec => []ListenerInv
<1>1. ListenerInv /\ [ListenerNext]_lvars => ListenerInv'
  <2> SUFFICES ASSUME ListenerInv, [ListenerNext]_lvars PROVE ListenerInv'
    OBVIOUS
  <2>1. IInv'
    BY ListenerIsAMachine, IInvPreserved DEF ListenerInv
  <2>2. TypeOK
    BY DEF ListenerInv, IInv
  <2> QED
    BY <2>1, <2>2, QueuesAreKept, BeliefIsKept, SwallowedIsKept, BlockedIsKept DEF ListenerInv
<1> QED
  BY <1>1, ListenerInvInitially, PTL DEF ListenerSpec

(* translate and run lose no event: unless a key was hidden from the hook, *)
(* the machine comes to hold down exactly the keys that are.               *)
THEOREM ListenerBelieves == ListenerSpec => []BelievedKeysAreDown
<1>1. ListenerInv => BelievedKeysAreDown
  BY DEF ListenerInv, Belief, Knows, BelievedKeysAreDown, Believed
<1> QED
  BY <1>1, ListenerInvHolds, PTL

(* Remote::panel_keys: however arming and disarming follow each other, the *)
(* keys the hook takes are the ones the machine will report.               *)
THEOREM ListenerReportsWhatItBlocks == ListenerSpec => []BlockedIsReported
<1>1. ListenerInv => BlockedIsReported
  BY DEF ListenerInv, Blocked, BlockedIsReported, Owner, OwnerOf
<1> QED
  BY <1>1, ListenerInvHolds, PTL

(* os_modifier: the main key of a chord is swallowed in exactly the states *)
(* in which it completes the chord, and a swallowed one does.              *)
THEOREM ListenerSwallowsTheChord == ListenerSpec => ChordIsSwallowedWhereItTriggers
<1>1. ListenerInv /\ [ListenerNext]_lvars =>
        [ (TakeEvent /\ Head(events).key = config.trigger.key /\ Head(events).is_key_down
             /\ ~Observing /\ sure)
            => /\ Head(events).swallowed <=> Head(events).families = config.trigger.requires
               /\ Head(events).swallowed => TriggerHeld' ]_lvars
  <2> SUFFICES ASSUME ListenerInv, [ListenerNext]_lvars, TakeEvent, Head(events).key = config.trigger.key,
                      Head(events).is_key_down, ~Observing, sure
               PROVE  /\ Head(events).swallowed <=> Head(events).families = config.trigger.requires
                      /\ Head(events).swallowed => TriggerHeld'
    OBVIOUS
  <2> DEFINE e == Head(events)
  <2>1. events \in Seq(Event) /\ events # <<>> /\ Translate(e) /\ TypeOK /\ config' = config
    BY ListenerIsAMachine, ConfigIsKept DEF ListenerInv, IInv, Queues, TakeEvent
  <2>2. 1 \in 1..Len(events) /\ events[1] = e /\ e \in Event /\ e.key \in Keys
    <3>1. 1 \in 1..Len(events) /\ events[1] = e /\ e \in Event
      BY <2>1
    <3> QED
      BY <3>1 DEF Event
  <2>3. e.swallowed <=> e.families = config.trigger.requires
    BY <2>2 DEF ListenerInv, Swallowed, Fits
  <2>4. ~IsLoneKey /\ e.key \in MainKeys /\ e.key \in NamedKeys /\ e.key \notin ModifierKeys
    BY <2>1, <2>2, LoneOrNamed, KeyAssumption DEF Observing
  <2>5. main_held' /\ held' = held
    <3>1. DownMain(e.key)
      BY <2>4 , <2>1 DEF Translate
    <3> QED
      BY <3>1 DEF DownMain
  <2>6. e.families = {FamilyOf[m] : m \in {k \in ModifierKeys : k \in held}}
    <3>1. e.families = FamiliesBelieved(1 - 1)
      BY <2>2 DEF ListenerInv, Belief, Recalls
    <3>2. \A k \in ModifierKeys : k \in BelievedAfter(0) <=> k \in held
      BY <2>4 DEF BelievedAfter, Keys
    <3>3. FamiliesBelieved(0) = {FamilyOf[m] : m \in {k \in ModifierKeys : k \in held}}
      BY <3>2 DEF FamiliesBelieved
    <3> QED
      BY <3>1, <3>3
  <2>7. e.families = config.trigger.requires => TriggerHeld'
    <3> SUFFICES ASSUME e.families = config.trigger.requires PROVE ChordSatisfied'
      BY DEF TriggerHeld
    <3>1. \A f \in config.trigger.requires : \E m \in held : FamilyOf[m] = f
      BY <2>6
    <3> QED
      BY <2>1, <2>4, <2>5, <3>1 DEF ChordSatisfied, IsLoneKey
  <2> QED
    BY <2>3, <2>7
<1> QED
  BY <1>1, ListenerInvHolds, PTL DEF ListenerSpec, ChordIsSwallowedWhereItTriggers

=============================================================================
