--------------------------- MODULE HotkeyListener ---------------------------
(***************************************************************************)
(* The live listener (dile-hotkey, listener.rs): the operating system's    *)
(* keyboard hook, which swallows the keys of a shared set and queues what  *)
(* it sees; the listener's thread, which drains the application's commands *)
(* and then waits for one event or a tick; and the remote, by which the    *)
(* review panel takes Enter, Esc and Ctrl+C and gives them back.  Every    *)
(* step of the thread is a step of the state machine in HotkeyMachine.     *)
(*                                                                         *)
(* The hook itself is the handy-keys library: a key is swallowed when an   *)
(* entry of the set names it and exactly the families that are down.       *)
(***************************************************************************)
EXTENDS HotkeyMachine, FiniteSets

CONSTANTS
  NamedKeys,    \* the main keys handy-keys can name (to_os_key)
  OtherKeys,    \* keys that are no modifier and no main key
  PanelKeys,    \* PANEL_KEYS: records of families, key and action
  MaxEvents,    \* bound: events waiting in the hook
  MaxCommands   \* bound: commands waiting

ASSUME ListenerAssumption ==
  /\ NamedKeys \subseteq MainKeys
  /\ OtherKeys \intersect (MainKeys \union ModifierKeys \union {NoKey}) = {}
  /\ PanelKeys \subseteq [families: SUBSET Families, key: OtherKeys, action: PanelActions]
  /\ MaxEvents \in Nat /\ MaxCommands \in Nat

Keys  == ModifierKeys \union MainKeys \union OtherKeys
Event == [key: Keys, is_key_down: BOOLEAN, families: SUBSET Families, swallowed: BOOLEAN]
Commands == {"Reset", "Arm", "Disarm", "Rerecord"}

VARIABLES
  down,      \* the modifiers and main keys that are physically down
  blocking,  \* the shared set: which entries it holds
  events,    \* what the hook has seen and the thread has not
  commands,  \* the command channel
  panel,     \* Remote::panel_keys under way: what is still to be sent
  thread,    \* where run is
  running,   \* the flag Drop clears
  sure       \* history: no key was lost, none was forgotten

hook  == <<down, blocking, events>>
outer == <<commands, panel, running>>
lvars == <<vars, hook, outer, thread, sure>>

ListenerTypeOK ==
  /\ TypeOK
  /\ down \subseteq ModifierKeys \union MainKeys
  /\ blocking \subseteq {"trigger", "panel"}
  /\ events \in Seq(Event) /\ Len(events) <= MaxEvents
  /\ commands \in Seq(Commands) /\ Len(commands) <= MaxCommands
  /\ panel \in {"idle", "Arm", "Disarm"}
  /\ thread \in {"commands", "events", "ended"}
  /\ running \in BOOLEAN /\ sure \in BOOLEAN

-----------------------------------------------------------------------------
(* blocking_set: a chord no name can be found for is only observed. *)
Observing == ~IsLoneKey /\ config.trigger.key \notin NamedKeys

(* HotkeyListener::spawn: the hook is in place and no key is believed down. *)
ListenerInit ==
  /\ Init
  /\ down = {} /\ events = <<>> /\ commands = <<>> /\ panel = "idle"
  /\ blocking = IF IsLoneKey \/ Observing THEN {} ELSE {"trigger"}
  /\ thread = "commands" /\ running = TRUE
  /\ sure = TRUE

HeldFamilies == {FamilyOf[m] : m \in down \intersect ModifierKeys}

(* panel_key_of: the panel's keys with exactly these families. *)
PanelActionsOf(key, families) ==
  {p.action : p \in {q \in PanelKeys : q.key = key /\ q.families = families}}

(* The hook's own decision, by the set as it is at this moment. *)
Swallows(key) ==
  \/ /\ "trigger" \in blocking
     /\ key = config.trigger.key /\ HeldFamilies = config.trigger.requires
  \/ /\ "panel" \in blocking
     /\ PanelActionsOf(key, HeldFamilies) # {}

Seen(k, is_down) ==
  /\ Len(events) < MaxEvents
  /\ events' = Append(events, [key |-> k, is_key_down |-> is_down, families |-> HeldFamilies,
                               swallowed |-> is_down /\ Swallows(k)])
  /\ UNCHANGED <<vars, blocking, outer, thread, sure>>

(* A key goes down, or repeats while it is held, and goes up. *)
Press(k) == down' = down \union ({k} \ OtherKeys) /\ Seen(k, TRUE)
Release(k) == k \in down \union OtherKeys /\ down' = down \ {k} /\ Seen(k, FALSE)

(* The same where the hook does not see it: a locked session, an elevated  *)
(* window.                                                                 *)
Unseen(k) ==
  /\ k \notin OtherKeys
  /\ down' = IF k \in down THEN down \ {k} ELSE down \union {k}
  /\ sure' = FALSE
  /\ UNCHANGED <<vars, blocking, events, outer, thread>>

-----------------------------------------------------------------------------
(* A command to a thread that has ended is an error (NotRunning). *)
Send(c) ==
  IF thread = "ended" THEN UNCHANGED commands
  ELSE Len(commands) < MaxCommands /\ commands' = Append(commands, c)

(* Mutant: giving the keys back empties the set. *)
PanelKeysClears(c) ==
  /\ panel = "idle" /\ running
  /\ panel' = c
  /\ blocking' = IF Observing THEN blocking
                 ELSE IF c = "Arm" THEN blocking \union {"panel"} ELSE {}
  /\ UNCHANGED <<vars, down, events, commands, running, thread, sure>>

(* Remote::panel_keys: the set first, which the hook reads at once, and    *)
(* then the command.  The panel calls it under a lock of its own.          *)
PanelKeysChange(c) ==
  /\ panel = "idle" /\ running
  /\ panel' = c
  /\ blocking' = IF Observing THEN blocking
                 ELSE IF c = "Arm" THEN blocking \union {"panel"} ELSE blocking \ {"panel"}
  /\ UNCHANGED <<vars, down, events, commands, running, thread, sure>>

PanelKeysSend ==
  /\ panel # "idle"
  /\ Send(panel)
  /\ panel' = "idle"
  /\ UNCHANGED <<vars, hook, running, thread, sure>>

Ask(c) ==
  /\ c \in {"Reset", "Rerecord"} /\ running
  /\ Send(c)
  /\ UNCHANGED <<vars, hook, panel, running, thread, sure>>

Drop ==
  /\ running
  /\ running' = FALSE
  /\ UNCHANGED <<vars, hook, commands, panel, thread, sure>>

-----------------------------------------------------------------------------
(* Mutant: the keys are not given back while something is recorded. *)
ApplyUnlessRecording(c) ==
  \/ c = "Reset" /\ Reset
  \/ c = "Arm" /\ SetPanelKeys(TRUE)
  \/ c = "Disarm" /\ SetPanelKeys(panel_keys /\ recording)
  \/ c = "Rerecord" /\ Rerecord

Apply(c) ==
  \/ c = "Reset" /\ Reset
  \/ c = "Arm" /\ SetPanelKeys(TRUE)
  \/ c = "Disarm" /\ SetPanelKeys(FALSE)
  \/ c = "Rerecord" /\ Rerecord

(* run's inner loop: the commands, until there is none. *)
TakeCommand ==
  /\ thread = "commands" /\ commands # <<>>
  /\ Apply(Head(commands))
  /\ commands' = Tail(commands)
  /\ sure' = (sure /\ Head(commands) # "Reset")
  /\ UNCHANGED <<hook, panel, running, thread>>

NoCommand ==
  /\ thread = "commands" /\ commands = <<>>
  /\ thread' = "events"
  /\ UNCHANGED <<vars, hook, outer, sure>>

(* Mutant: the release of a key counts only while nothing is recorded. *)
TranslateUnlessRecording(e) ==
  \/ /\ e.key \in ModifierKeys
     /\ \/ e.is_key_down /\ DownModifier(e.key)
        \/ ~e.is_key_down /\ active # "Latched" /\ UpModifier(e.key)
        \/ ~e.is_key_down /\ active = "Latched" /\ UNCHANGED vars
  \/ /\ e.key \notin ModifierKeys
     /\ \/ e.key = config.trigger.key /\ e.is_key_down /\ DownMain(e.key)
        \/ e.key = config.trigger.key /\ ~e.is_key_down /\ UpMain(e.key)
        \/ e.key # config.trigger.key /\ e.is_key_down /\ OtherKeyDown
        \/ e.key # config.trigger.key /\ ~e.is_key_down /\ UNCHANGED vars

(* translate, and the machine's answer: a modifier; the trigger's main key *)
(* where it has a name; one of the panel's keys; any other key, of which   *)
(* only the press matters.                                                 *)
Translate(e) ==
  LET isTrigger == e.key = config.trigger.key /\ e.key \in NamedKeys
      actions   == PanelActionsOf(e.key, e.families)
      plain     == e.key \notin ModifierKeys /\ ~isTrigger
  IN \/ e.key \in ModifierKeys /\ e.is_key_down /\ DownModifier(e.key)
     \/ e.key \in ModifierKeys /\ ~e.is_key_down /\ UpModifier(e.key)
     \/ isTrigger /\ e.is_key_down /\ DownMain(e.key)
     \/ isTrigger /\ ~e.is_key_down /\ UpMain(e.key)
     \/ plain /\ e.is_key_down /\ \E a \in actions : OnPanelKey(a)
     \/ plain /\ e.is_key_down /\ actions = {} /\ OtherKeyDown
     \/ plain /\ ~e.is_key_down /\ UNCHANGED vars

(* Mutant: only the hook ends the loop. *)
GoOn == thread' = "commands"

Again == thread' = IF running THEN "commands" ELSE "ended"

TakeEvent ==
  /\ thread = "events" /\ events # <<>>
  /\ Translate(Head(events))
  /\ events' = Tail(events)
  /\ Again
  /\ UNCHANGED <<down, blocking, outer, sure>>

(* TICK_INTERVAL has passed without a key. *)
Tick ==
  /\ thread = "events" /\ events = <<>>
  /\ OnTick
  /\ Again
  /\ UNCHANGED <<hook, outer, sure>>

(* The hook is gone, and nothing this thread does can bring it back. *)
HookGone ==
  /\ thread = "events"
  /\ thread' = "ended"
  /\ UNCHANGED <<vars, hook, outer, sure>>

Time == Elapse /\ UNCHANGED <<hook, outer, thread, sure>>

-----------------------------------------------------------------------------
Keyboard == \E k \in Keys : Press(k) \/ Release(k) \/ Unseen(k)

Application ==
  \/ \E c \in {"Arm", "Disarm"} : PanelKeysChange(c)
  \/ \E c \in {"Reset", "Rerecord"} : Ask(c)
  \/ PanelKeysSend
  \/ Drop

Run == TakeCommand \/ NoCommand \/ TakeEvent

ListenerNext == Keyboard \/ Application \/ Run \/ Tick \/ HookGone \/ Time

ListenerSpec == ListenerInit /\ [][ListenerNext]_lvars

(* The thread goes on.  Nothing makes a tick come while keys are typed     *)
(* without a pause, so the ceiling is not promised here (HotkeyMachine).   *)
ListenerFairSpec == ListenerSpec /\ WF_lvars(Run \/ Tick)

-----------------------------------------------------------------------------
(* What the machine will believe once it has seen the first n events that  *)
(* wait: the last word about a key decides, or else what it believes now.  *)
BelievedAfter(n) == {k \in Keys :
  \/ \E i \in 1..n : /\ events[i].key = k /\ events[i].is_key_down
                     /\ \A j \in i+1..n : events[j].key # k
  \/ /\ k \in held \/ (main_held /\ k = config.trigger.key)
     /\ \A j \in 1..n : events[j].key # k}

Believed == BelievedAfter(Len(events))

Watched == ModifierKeys \union ({config.trigger.key} \intersect NamedKeys)

(* The machine's keys are the keyboard's, once the queue has been worked   *)
(* off, for as long as none was hidden from the hook and none forgotten:   *)
(* a press never records with nobody holding it because an event was       *)
(* dropped on the way (translate, run).                                    *)
BelievedKeysAreDown == sure => Believed \intersect Watched = down \intersect Watched

(* The hook and the machine agree about the chord: the main key was        *)
(* swallowed exactly if the chord's own modifiers were down with it, and   *)
(* then the machine holds the trigger for held (os_modifier).              *)
ChordIsSwallowedWhereItTriggers ==
  [][ (TakeEvent /\ Head(events).key = config.trigger.key /\ Head(events).is_key_down
         /\ ~Observing /\ sure)
        => /\ Head(events).swallowed <=> Head(events).families = config.trigger.requires
           /\ Head(events).swallowed => TriggerHeld' ]_lvars

(* Whose the three keys are, as the machine will see it. *)
Says(c) == c \in {"Arm", "Disarm"}

Owner ==
  \/ \E i \in 1..Len(commands) : /\ commands[i] = "Arm"
                                 /\ \A j \in i+1..Len(commands) : ~Says(commands[j])
  \/ panel_keys /\ \A j \in 1..Len(commands) : ~Says(commands[j])

(* The keys the hook takes from everyone and the ones the machine reports  *)
(* are the same once the commands have been read, however arming and       *)
(* disarming follow each other (panel_keys, "two things happen, and both   *)
(* have to").                                                              *)
BlockedIsReported ==
  (panel = "idle" /\ thread # "ended" /\ ~Observing) => (Owner <=> "panel" \in blocking)

(* A listener that is dropped ends, whatever is being typed and however    *)
(* many commands are waiting (Drop joins the thread).                      *)
ListenerEnds == ~running ~> thread = "ended"

=============================================================================
