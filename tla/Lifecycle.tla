----------------------------- MODULE Lifecycle -----------------------------
(***************************************************************************)
(* What Dile promises about each dictation, whatever threads and windows   *)
(* it is made of: it is spoken, it is worked on, it is shown, it lands; at *)
(* every point before it has landed it may be dropped instead, and that is *)
(* final.  One is recorded at a time, results are shown in the order they  *)
(* were spoken in, and nothing lands that was not shown ("Dile does not    *)
(* paste blind", docs/PROJECT.md).                                         *)
(***************************************************************************)
EXTENDS Naturals

CONSTANT Dictations   \* 1..n, in the order they are spoken

VARIABLE stage

Stages == {"unspoken", "recording", "working", "shown", "landed", "dropped"}

Init == stage = [d \in Dictations |-> "unspoken"]

Earlier(d) == {e \in Dictations : e < d}
Unfinished == {"recording", "working", "shown"}

(* Moves d forward, and drops some of the others. *)
Move(d, to, others) ==
  \E lost \in SUBSET others :
    stage' = [e \in Dictations |-> IF e = d THEN to
                                  ELSE IF e \in lost THEN "dropped"
                                  ELSE stage[e]]

At(s) == {e \in Dictations : stage[e] = s}

(* A new recording drops a result that is still on screen. *)
Speak(d) ==
  /\ stage[d] = "unspoken"
  /\ At("recording") = {}
  /\ \A e \in Earlier(d) : stage[e] # "unspoken"
  /\ Move(d, "recording", At("shown"))

(* The engine's queue is one deep: handing one over may drop another. *)
HandOver(d) ==
  /\ stage[d] = "recording"
  /\ Move(d, "working", At("working"))

(* There is one card: showing one drops the other. *)
Show(d) ==
  /\ stage[d] = "working"
  /\ \A e \in Earlier(d) : stage[e] \notin {"recording", "working"}
  /\ Move(d, "shown", At("shown"))

Land(d) ==
  /\ stage[d] = "shown"
  /\ stage' = [stage EXCEPT ![d] = "landed"]

Drop(d) ==
  /\ stage[d] \in Unfinished
  /\ stage' = [stage EXCEPT ![d] = "dropped"]

Next == \E d \in Dictations : Speak(d) \/ HandOver(d) \/ Show(d) \/ Land(d) \/ Drop(d)

Spec == Init /\ [][Next]_stage

=============================================================================
