--------------------------- MODULE HotkeyMachine ---------------------------
(***************************************************************************)
(* The push-to-talk trigger as a state machine: `HotkeyMachine` of         *)
(* crates/dile-hotkey/src/state.rs.  Key events go in, one action per      *)
(* kind of event, and the application actions the event produced come out  *)
(* in `out` (the Actions value on_event returns, at most two of them).     *)
(*                                                                         *)
(* The machine reads no clock: every event carries the instant it          *)
(* happened at, and all that is ever done with two instants is to subtract *)
(* them.  An instant that is remembered (`since`, `recording_since`) is    *)
(* therefore modelled by its age, which Elapse lets grow up to AgeCap.     *)
(* Ages past every threshold behave alike, so the cap loses nothing.       *)
(***************************************************************************)
EXTENDS Naturals, Sequences

CONSTANTS
  ModifierKeys,   \* the physical modifier keys (CtrlLeft, CtrlRight, ...)
  Families,       \* the modifier families a chord is written in
  FamilyOf,       \* the family of each physical modifier key
  MainKeys,       \* the keys that may complete a chord
  NoKey,          \* the absent half of a trigger
  Configs,        \* the configurations a machine may be built with
  PressThreshold, \* press_threshold_ms
  HoldTakeover,   \* hold_takeover_ms
  MaxHold,        \* max_hold_ms
  AgeCap          \* bound on a modelled age

Modes == {"Hold", "Toggle"}

(* Trigger: a lone modifier key, or a chord of families and one main key. *)
LoneTriggers  == [kind: {"lone"}, modifier: ModifierKeys, requires: {{}}, key: {NoKey}]
ChordTriggers == [kind: {"chord"}, modifier: {NoKey}, requires: SUBSET Families, key: MainKeys]
Triggers      == LoneTriggers \union ChordTriggers

(* The thresholds are a tap, a takeover and a ceiling, in that order: the  *)
(* shipped 250, 800 and 300000 ms.                                         *)
ASSUME KeyAssumption ==
  /\ FamilyOf \in [ModifierKeys -> Families]
  /\ NoKey \notin MainKeys \union ModifierKeys
  /\ ModifierKeys \intersect MainKeys = {}
  /\ Configs \subseteq [mode: Modes, trigger: Triggers]

ASSUME TimeAssumption ==
  /\ PressThreshold \in Nat
  /\ HoldTakeover \in Nat
  /\ MaxHold \in Nat
  /\ PressThreshold <= HoldTakeover
  /\ HoldTakeover <= MaxHold
  /\ AgeCap \in Nat
  /\ MaxHold <= AgeCap

PanelActions == {"PanelTransfer", "PanelCancel", "PanelCopy"}
Action == {"OpenPanelIdle", "StartRecording", "StopRecording", "DiscardRecording"}
            \union PanelActions

(* What one event produces, never more than two (type Actions).            *)
Actions == {<<>>} \union {<<a>> : a \in Action} \union {<<a, b>> : a, b \in Action}

VARIABLES
  config,         \* the configuration the machine was built with
  held,           \* modifier keys believed down
  main_held,      \* whether the chord's main key is believed down
  active,         \* what the machine is doing: None, Held or Latched
  since,          \* age of the press, while active = "Held"
  recording,      \* recording_since.is_some()
  recording_age,  \* age of recording_since, while recording
  suppressed,     \* ignore the trigger until the press in flight has ended
  panel_keys,     \* whether the review panel owns Enter, Esc and Ctrl+C
  out             \* the actions the last event produced

press == <<active, since, recording, recording_age>>
keys  == <<held, main_held>>
vars  == <<config, held, main_held, active, since, recording, recording_age,
           suppressed, panel_keys, out>>

TypeOK ==
  /\ config \in Configs
  /\ held \subseteq ModifierKeys
  /\ main_held \in BOOLEAN
  /\ active \in {"None", "Held", "Latched"}
  /\ since \in 0..AgeCap
  /\ recording \in BOOLEAN
  /\ recording_age \in 0..AgeCap
  /\ suppressed \in BOOLEAN
  /\ panel_keys \in BOOLEAN
  /\ out \in Actions

-----------------------------------------------------------------------------
IsLoneKey == config.trigger.kind = "lone"

(* The configured chord is held in full; never so for a lone key. *)
ChordSatisfied ==
  /\ ~IsLoneKey
  /\ main_held
  /\ \A f \in config.trigger.requires : \E m \in held : FamilyOf[m] = f

(* The trigger, of either shape, is believed down. *)
TriggerHeld ==
  \/ IsLoneKey /\ config.trigger.modifier \in held
  \/ ChordSatisfied

Init ==
  /\ config \in Configs
  /\ held = {}
  /\ main_held = FALSE
  /\ active = "None"
  /\ since = 0
  /\ recording = FALSE
  /\ recording_age = 0
  /\ suppressed = FALSE
  /\ panel_keys = FALSE
  /\ out = <<>>

-----------------------------------------------------------------------------
(* How a recording begins and ends. *)
Begin(how) ==
  /\ active' = how
  /\ since' = 0
  /\ recording' = TRUE
  /\ recording_age' = 0

End ==
  /\ active' = "None"
  /\ since' = 0
  /\ recording' = FALSE
  /\ recording_age' = 0

(* Nothing but the keys believed down changes, and nothing is produced. *)
Quiet ==
  /\ out' = <<>>
  /\ UNCHANGED <<press, suppressed>>

(* Mutant: the threshold is not consulted for a lone key. *)
EndAnyLonePress ==
  \/ active # "Held" /\ out' = <<>> /\ UNCHANGED press
  \/ active = "Held" /\ End /\ out' = <<"StopRecording">>

(* end_active_press: a press in progress ends the way a release ends it. *)
EndActivePress ==
  \/ /\ active # "Held"
     /\ out' = <<>>
     /\ UNCHANGED press
  \/ /\ active = "Held"
     /\ IsLoneKey \/ config.mode = "Hold"
     /\ End
     /\ out' = IF since < PressThreshold
               THEN <<"DiscardRecording", "OpenPanelIdle">>
               ELSE <<"StopRecording">>
  \/ /\ active = "Held"
     /\ ~IsLoneKey /\ config.mode # "Hold"
     /\ since >= HoldTakeover
     /\ End
     /\ out' = <<"StopRecording">>
  \/ /\ active = "Held"
     /\ ~IsLoneKey /\ config.mode # "Hold"
     /\ since < HoldTakeover
     /\ active' = "Latched"
     /\ since' = 0
     /\ out' = <<>>
     /\ UNCHANGED <<recording, recording_age>>

(* withdraw: a lone-modifier press was a modifier chord after all.  A      *)
(* chord was asked for by name, and no other key takes it back.            *)
Withdrawn == IsLoneKey /\ active = "Held"

(* Mutant: the rest of a withdrawn press is not ignored. *)
WithdrawUnsuppressed ==
  \/ Withdrawn /\ End /\ UNCHANGED suppressed
  \/ ~Withdrawn /\ UNCHANGED <<press, suppressed>>

Withdraw ==
  \/ /\ Withdrawn
     /\ End
     /\ suppressed' = TRUE
  \/ /\ ~Withdrawn
     /\ UNCHANGED <<press, suppressed>>

(* A key that is no part of the trigger went down. *)
AnyOtherKey ==
  /\ Withdraw
  /\ out' = IF Withdrawn THEN <<"DiscardRecording">> ELSE <<>>

(* Mutant: anything being recorded makes the chord a repeat. *)
OnChordDownIgnoresLatch ==
  \/ (suppressed \/ active # "None") /\ Quiet
  \/ /\ ~suppressed /\ active = "None"
     /\ Begin("Held")
     /\ out' = <<"StartRecording">>
     /\ UNCHANGED suppressed

OnChordDown ==
  \/ /\ suppressed \/ active = "Held"
     /\ Quiet
  \/ /\ ~suppressed /\ active = "Latched"
     /\ End
     /\ suppressed' = TRUE
     /\ out' = <<"StopRecording">>
  \/ /\ ~suppressed /\ active = "None"
     /\ Begin("Held")
     /\ out' = <<"StartRecording">>
     /\ UNCHANGED suppressed

OnLoneKeyDown ==
  \/ /\ suppressed \/ active # "None"
     /\ Quiet
  \/ /\ ~suppressed /\ active = "None"
     /\ Begin("Held")
     /\ out' = <<"StartRecording">>
     /\ UNCHANGED suppressed

OnTriggerUp ==
  \/ /\ suppressed
     /\ suppressed' = FALSE
     /\ out' = <<>>
     /\ UNCHANGED press
  \/ /\ ~suppressed
     /\ EndActivePress
     /\ UNCHANGED suppressed

(* The half of on_down and on_up after the bookkeeping of keys: a chord is *)
(* completed, or broken, by this very key.                                 *)
ChordCompleted == ~ChordSatisfied /\ ChordSatisfied'
ChordBroken    == ChordSatisfied /\ ~ChordSatisfied'

-----------------------------------------------------------------------------
(* on_down of a modifier key; one already down is an auto-repeat. *)
DownModifier(m) ==
  /\ UNCHANGED <<config, main_held, panel_keys>>
  /\ held' = held \union {m}
  /\ \/ m \in held /\ Quiet
     \/ /\ m \notin held
        /\ \/ IsLoneKey /\ m = config.trigger.modifier /\ OnLoneKeyDown
           \/ IsLoneKey /\ m # config.trigger.modifier /\ AnyOtherKey
           \/ ~IsLoneKey /\ ChordCompleted /\ OnChordDown
           \/ ~IsLoneKey /\ ~ChordCompleted /\ Quiet

(* on_down of a main key; one no trigger names is any other key. *)
DownMain(k) ==
  /\ UNCHANGED <<config, held, panel_keys>>
  /\ \/ /\ k # config.trigger.key
        /\ AnyOtherKey
        /\ UNCHANGED main_held
     \/ /\ k = config.trigger.key
        /\ main_held' = TRUE
        /\ \/ ChordCompleted /\ OnChordDown
           \/ ~ChordCompleted /\ Quiet

(* on_up of a modifier key; one not believed down is ignored. *)
UpModifier(m) ==
  /\ UNCHANGED <<config, main_held, panel_keys>>
  /\ held' = held \ {m}
  /\ \/ /\ m \in held
        /\ (IsLoneKey /\ m = config.trigger.modifier) \/ ChordBroken
        /\ OnTriggerUp
     \/ /\ \/ m \notin held
           \/ ~((IsLoneKey /\ m = config.trigger.modifier) \/ ChordBroken)
        /\ Quiet

UpMain(k) ==
  /\ UNCHANGED <<config, held, panel_keys>>
  /\ main_held' = (main_held /\ k # config.trigger.key)
  /\ \/ ChordBroken /\ OnTriggerUp
     \/ ~ChordBroken /\ Quiet

(* on_panel_key: the key withdraws a press like any other, and then acts. *)
OnPanelKey(a) ==
  /\ \/ ~panel_keys /\ AnyOtherKey
     \/ /\ panel_keys
        /\ Withdraw
        /\ out' = IF Withdrawn THEN <<"DiscardRecording", a>> ELSE <<a>>
  /\ UNCHANGED <<config, keys, panel_keys>>

OtherKeyDown ==
  /\ AnyOtherKey
  /\ UNCHANGED <<config, keys, panel_keys>>

(* Mutant: only a held press is capped. *)
OnTickHeldOnly ==
  /\ \/ /\ active = "Held" /\ since >= MaxHold
        /\ suppressed' = TRUE
        /\ End
        /\ out' = <<"StopRecording">>
     \/ ~(active = "Held" /\ since >= MaxHold) /\ Quiet
  /\ UNCHANGED <<config, keys, panel_keys>>

(* on_tick: the safety ceiling. *)
OnTick ==
  /\ \/ /\ recording /\ recording_age >= MaxHold
        /\ suppressed' = (suppressed \/ active = "Held")
        /\ End
        /\ out' = <<"StopRecording">>
     \/ /\ ~(recording /\ recording_age >= MaxHold)
        /\ Quiet
  /\ UNCHANGED <<config, keys, panel_keys>>

SetPanelKeys(enabled) ==
  /\ panel_keys' = enabled
  /\ out' = <<>>
  /\ UNCHANGED <<config, keys, press, suppressed>>

(* Mutant: re-record over a live recording. *)
RerecordWhileRecording ==
  /\ \/ config.mode = "Toggle" /\ ~IsLoneKey
        /\ Begin("Latched") /\ out' = <<"StartRecording">>
     \/ ~(config.mode = "Toggle" /\ ~IsLoneKey)
        /\ out' = <<>> /\ UNCHANGED press
  /\ UNCHANGED <<config, keys, suppressed, panel_keys>>

(* rerecord: the panel's button starts a latched recording, with no key. *)
Rerecord ==
  /\ \/ /\ config.mode = "Toggle" /\ ~IsLoneKey /\ active = "None"
        /\ Begin("Latched")
        /\ out' = <<"StartRecording">>
     \/ /\ ~(config.mode = "Toggle" /\ ~IsLoneKey /\ active = "None")
        /\ out' = <<>>
        /\ UNCHANGED press
  /\ UNCHANGED <<config, keys, suppressed, panel_keys>>

(* reset: every key is forgotten, and the press ends like a release. *)
Reset ==
  /\ EndActivePress
  /\ held' = {}
  /\ main_held' = FALSE
  /\ suppressed' = FALSE
  /\ UNCHANGED <<config, panel_keys>>

(* Time between two events: the remembered instants grow older. *)
Elapse ==
  /\ recording
  /\ recording_age < AgeCap
  /\ recording_age' = recording_age + 1
  /\ since' = IF active = "Held" /\ since < AgeCap THEN since + 1 ELSE since
  /\ out' = <<>>
  /\ UNCHANGED <<config, keys, active, recording, suppressed, panel_keys>>

-----------------------------------------------------------------------------
KeyEvent ==
  \/ \E m \in ModifierKeys : DownModifier(m) \/ UpModifier(m)
  \/ \E k \in MainKeys : DownMain(k) \/ UpMain(k)
  \/ \E a \in PanelActions : OnPanelKey(a)
  \/ OtherKeyDown

Command ==
  \/ \E b \in BOOLEAN : SetPanelKeys(b)
  \/ Rerecord
  \/ Reset

Next == KeyEvent \/ Command \/ OnTick \/ Elapse

(* Time passes, and the listener ticks whenever 250 ms go by without a     *)
(* key: a keyboard nobody types on without a pause forever is assumed.     *)
Fairness == WF_vars(OnTick) /\ WF_vars(Elapse)

Spec == Init /\ [][Next]_vars
FairSpec == Spec /\ Fairness

-----------------------------------------------------------------------------
(* A press is in progress exactly while the trigger is down and has not    *)
(* been told to be ignored.  The code keeps the three facts in different   *)
(* fields, written by on_down, on_up, withdraw, on_tick and reset; were    *)
(* they to part, a release would end nothing or a press would record with  *)
(* nobody holding the key (the field `suppressed`).                        *)
HeldIsAnUnsuppressedPress ==
  (active = "Held") <=> (TriggerHeld /\ ~suppressed)

(* `active` and `recording_since` agree on whether something is being      *)
(* recorded, over every one of the places that set one and then the other. *)
RecordingIsActive == recording <=> (active # "None")

(* The trigger is only ever ignored during a press that is still down: a   *)
(* suppression that outlived its press would swallow the next one, and     *)
(* the user would speak into nothing (the field `suppressed`).             *)
SuppressedOnlyMidPress == suppressed => TriggerHeld

(* Only a chord in toggle mode latches: nothing else has a second tap to   *)
(* stop what the first one started ("hold-semantics only, in both modes"). *)
LatchNeedsAToggleChord ==
  active = "Latched" => ~IsLoneKey /\ config.mode = "Toggle"

(* The four need one another, and with the types they are inductive: a     *)
(* release finds the press it ends only because Held means an unsuppressed *)
(* trigger; a reset may forget the keys only because it leaves nothing     *)
(* Held and nothing suppressed.                                            *)
IInv ==
  /\ TypeOK
  /\ HeldIsAnUnsuppressedPress
  /\ RecordingIsActive
  /\ SuppressedOnlyMidPress
  /\ LatchNeedsAToggleChord

(* "An accidental tap never dictates": where presses are                  *)
(* hold-to-talk, audio reaches transcription only from a press that lasted *)
(* the threshold, whether a release, a reset or the ceiling ended it.      *)
TapNeverDictates ==
  [][ (out' = <<"StopRecording">> /\ (IsLoneKey \/ config.mode = "Hold"))
        => recording /\ recording_age >= PressThreshold ]_vars

(* A latched recording is stopped by the very next tap, also one that the  *)
(* panel's re-record button latched while the chord was still going up     *)
(* (rerecord: "the next tap of the chord stops it").                       *)
NextTapStopsTheLatch ==
  [][ (active = "Latched" /\ ~TriggerHeld /\ TriggerHeld')
        => active' = "None" /\ out' = <<"StopRecording">> ]_vars

(* The machine implements the recorder the session is written against.     *)
R == INSTANCE Recorder WITH live <- recording, PanelAction <- PanelActions
ImplementsRecorder == R!Spec

(* The safety ceiling: every recording ends, also one whose key-up never   *)
(* came (DEFAULT_MAX_HOLD_MS in config.rs).                                *)
RecordingEnds == recording ~> ~recording

=============================================================================
