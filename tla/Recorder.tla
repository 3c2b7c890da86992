------------------------------ MODULE Recorder ------------------------------
(***************************************************************************)
(* What the hotkey promises the session, and nothing about keys or time:   *)
(* recordings never overlap, each one is ended exactly once, by a stop or  *)
(* by a discard, the idle panel only ever follows a discard, and one event *)
(* never produces more than two actions (crates/dile-hotkey/src/state.rs,  *)
(* the documentation of `Action` and `Actions`).                           *)
(***************************************************************************)
EXTENDS Sequences

CONSTANT PanelAction   \* Transfer, Cancel and Copy

VARIABLES
  live,  \* a recording is in progress
  out    \* the actions the last event produced

Init == live = FALSE /\ out = <<>>

Start ==
  /\ ~live
  /\ live' = TRUE
  /\ out' = <<"StartRecording">>

Stop ==
  /\ live
  /\ live' = FALSE
  /\ out' = <<"StopRecording">>

Discard ==
  /\ live
  /\ live' = FALSE
  /\ \/ out' = <<"DiscardRecording">>
     \/ out' = <<"DiscardRecording", "OpenPanelIdle">>
     \/ \E a \in PanelAction : out' = <<"DiscardRecording", a>>

Panel ==
  /\ \E a \in PanelAction : out' = <<a>>
  /\ UNCHANGED live

Silent ==
  /\ out' = <<>>
  /\ UNCHANGED live

Next == Start \/ Stop \/ Discard \/ Panel \/ Silent

Spec == Init /\ [][Next]_<<live, out>>

=============================================================================
