---------------------------- MODULE PanelWindow ----------------------------
(***************************************************************************)
(* The window of the review panel (panel.rs): showing and hiding it, where *)
(* it opens and what is remembered of that, and the three keys the hook    *)
(* gives it meanwhile, as the threads that open and close the card go      *)
(* through show and hide step by step, with no lock around them.           *)
(*                                                                         *)
(* A position is the monitor it is on and a spot; a spot outside the       *)
(* monitor it is counted from is clamped to its edge.                      *)
(***************************************************************************)
EXTENDS Naturals, SequencesExt

CONSTANTS
  Threads,   \* the threads that open and close the card
  Monitors,
  Spots,     \* where on a monitor the card can be dragged to
  Systems,   \* WindowSystem: "windows", "x11", "wayland"
  MaxOpens, MaxMoves,  \* bounds: cards opened; moves of the user's not handled yet
  Overlap    \* a method may begin while another is under way

Top  == "top"   \* top_centre
Edge == "edge"  \* where clamp_into leaves what lies outside
NoPlace == <<"nowhere", Top>>

VARIABLES
  system,
  mode, on_screen, monitor, dragged, placed,  \* Held
  aimed,      \* the monitor of the window the dictation is aimed at
  window,     \* "unbuilt", "up" or "down", and where it is
  at_place,
  keys,       \* the hook swallows the panel's three keys
  remembered, \* settings.ui.panel_position: for each monitor a spot or none
  moves,      \* Moved events the main loop has not handled
  at,         \* for each thread: its step within show or hide
  opens,      \* for the bound
  chosen,     \* history: spots the user dragged the card to, by monitor
  belated     \* history: a card was placed with moves of the last one still waiting

held == <<mode, on_screen, monitor, dragged, placed>>
desktop == <<window, at_place, keys, moves>>
vars == <<system, held, aimed, desktop, remembered, at, opens, chosen, belated>>

Minimizes == system = "x11"               \* platform::closing
RemembersPosition == system # "wayland"   \* platform::remembers_position

Idle == \A t \in Threads : at[t] = "idle"

Goto(t, step) == at' = [at EXCEPT ![t] = step]

-----------------------------------------------------------------------------
(* begin, open_idle, show_result: the mode first, and then show.           *)
Open(t) ==
  /\ at[t] = "idle" /\ (Overlap \/ Idle)
  /\ opens < MaxOpens /\ opens' = opens + 1
  /\ mode' = "open"
  /\ \/ aimed' \in Monitors \/ UNCHANGED aimed
  /\ Goto(t, "look")
  /\ UNCHANGED <<system, on_screen, monitor, dragged, placed, desktop, remembered, chosen, belated>>

(* show: a card that is up is left as it is. *)
Look(t) ==
  /\ at[t] = "look"
  /\ Goto(t, IF on_screen THEN "idle" ELSE IF window # "unbuilt" /\ Minimizes THEN "map" ELSE "place")
  /\ UNCHANGED <<system, held, aimed, desktop, remembered, opens, chosen, belated>>

Position == IF remembered[aimed] = "none" THEN <<aimed, Top>> ELSE <<aimed, remembered[aimed]>>

(* Mutant: where the application put the window is not kept. *)
PlaceUnrecorded(t) ==
  /\ at[t] = "place" /\ belated' = (belated \/ moves # <<>>)
  /\ monitor' = aimed /\ dragged' = NoPlace
  /\ at_place' = Position /\ moves' = Append(moves, Position)
  /\ Goto(t, "map")
  /\ UNCHANGED <<system, mode, on_screen, placed, aimed, window, keys, remembered, opens, chosen>>

(* place: where it was left on this monitor, or at its top.  The window    *)
(* system reports the move, later: moves of the card before may still wait.*)
Place(t) ==
  /\ at[t] = "place" /\ belated' = (belated \/ moves # <<>>)
  /\ monitor' = aimed /\ dragged' = NoPlace /\ placed' = Position
  /\ at_place' = Position /\ moves' = Append(moves, Position)
  /\ Goto(t, "map")
  /\ UNCHANGED <<system, mode, on_screen, aimed, window, keys, remembered, opens, chosen>>

Map(t) ==
  /\ at[t] = "map" /\ window' = "up" /\ Goto(t, "mark")
  /\ UNCHANGED <<system, held, aimed, at_place, keys, moves, remembered, opens, chosen, belated>>

Mark(t) ==
  /\ at[t] = "mark" /\ on_screen' = TRUE /\ Goto(t, "arm")
  /\ UNCHANGED <<system, mode, monitor, dragged, placed, aimed, desktop, remembered, opens, chosen, belated>>

Arm(t) ==
  /\ at[t] = "arm" /\ keys' = TRUE /\ Goto(t, "idle")
  /\ UNCHANGED <<system, held, aimed, window, at_place, moves, remembered, opens, chosen, belated>>

-----------------------------------------------------------------------------
(* close, and with it cancel, copy, transfer and rerecord: the mode first, *)
(* and then hide.                                                          *)
Close(t) ==
  /\ at[t] = "idle" /\ (Overlap \/ Idle)
  /\ mode' = "closed" /\ Goto(t, "disarm")
  /\ UNCHANGED <<system, on_screen, monitor, dragged, placed, aimed, desktop, remembered, opens, chosen, belated>>

Disarm(t) ==
  /\ at[t] = "disarm" /\ keys' = FALSE /\ Goto(t, "persist")
  /\ UNCHANGED <<system, held, aimed, window, at_place, moves, remembered, opens, chosen, belated>>

(* persist_position: counted from the monitor the card was placed on. *)
Persist(t) ==
  /\ at[t] = "persist" /\ dragged' = NoPlace /\ Goto(t, "unmark")
  /\ IF dragged = NoPlace \/ monitor = "none" THEN UNCHANGED remembered
     ELSE remembered' = [remembered EXCEPT ![monitor] = IF dragged[1] = monitor THEN dragged[2] ELSE Edge]
  /\ UNCHANGED <<system, mode, on_screen, monitor, placed, aimed, desktop, opens, chosen, belated>>

Unmark(t) ==
  /\ at[t] = "unmark" /\ on_screen' = FALSE /\ Goto(t, "unmap")
  /\ UNCHANGED <<system, mode, monitor, dragged, placed, aimed, desktop, remembered, opens, chosen, belated>>

Unmap(t) ==
  /\ at[t] = "unmap" /\ Goto(t, "idle")
  /\ window' = IF window = "up" THEN "down" ELSE window
  /\ UNCHANGED <<system, held, aimed, at_place, keys, moves, remembered, opens, chosen, belated>>

-----------------------------------------------------------------------------
(* The user drags the card, onto another monitor too. *)
Drag ==
  /\ window = "up" /\ Len(moves) < MaxMoves
  /\ \E place \in Monitors \X Spots :
       /\ place # at_place
       /\ at_place' = place /\ moves' = Append(moves, place)
       /\ chosen' = IF monitor \in Monitors
                    THEN chosen \union {<<monitor, IF place[1] = monitor THEN place[2] ELSE Edge>>}
                    ELSE chosen
  /\ UNCHANGED <<system, held, aimed, window, keys, remembered, at, opens, belated>>

(* remember, for a Moved event: the application's own move is none of the  *)
(* user's.                                                                 *)
Remember ==
  /\ moves # <<>> /\ moves' = Tail(moves)
  /\ dragged' = IF RemembersPosition /\ placed # Head(moves) THEN Head(moves) ELSE dragged
  /\ UNCHANGED <<system, mode, on_screen, monitor, placed, aimed, window, at_place, keys, remembered,
                 at, opens, chosen, belated>>

Init ==
  /\ system \in Systems
  /\ mode = "closed" /\ on_screen = FALSE /\ monitor = "none" /\ dragged = NoPlace /\ placed = NoPlace
  /\ aimed \in Monitors /\ window = "unbuilt" /\ at_place = NoPlace /\ keys = FALSE
  /\ remembered = [m \in Monitors |-> "none"] /\ moves = <<>>
  /\ at = [t \in Threads |-> "idle"] /\ opens = 0 /\ chosen = {} /\ belated = FALSE

Show(t) == Look(t) \/ Place(t) \/ Map(t) \/ Mark(t) \/ Arm(t)
Hide(t) == Disarm(t) \/ Persist(t) \/ Unmark(t) \/ Unmap(t)

Next == (\E t \in Threads : Open(t) \/ Show(t) \/ Close(t) \/ Hide(t)) \/ Drag \/ Remember

Spec == Init /\ [][Next]_vars

-----------------------------------------------------------------------------
(* panel.rs:223, 849, 891: when no thread is within a method, a card is up *)
(* exactly when the panel takes it to be, and then alone the hook keeps    *)
(* its three keys from the rest of the machine.                            *)
KeysGoWithTheCard ==
  Idle => /\ on_screen = (window = "up") /\ keys = on_screen
          /\ on_screen = (mode = "open")

(* panel.rs:207-212: only what the user chose is remembered, for the       *)
(* monitor the card was on, never the application's own move: unless a     *)
(* move was still to be handled when the next card was placed, which is    *)
(* then compared with the wrong place.                                     *)
PlacesAreChosen ==
  ~belated => \A m \in Monitors : remembered[m] # "none" => <<m, remembered[m]>> \in chosen

(* panel.rs:354, 932: a card nobody has moved since it opened is where the *)
(* last one was left on this monitor.  One that was minimized is where it  *)
(* was left, on any, and Wayland remembers nothing.                        *)
OpensWhereItWasLeft ==
  Idle /\ on_screen /\ moves = <<>> /\ dragged = NoPlace /\ system = "windows" =>
    at_place = <<monitor, IF remembered[monitor] = "none" THEN Top ELSE remembered[monitor]>>
=============================================================================
