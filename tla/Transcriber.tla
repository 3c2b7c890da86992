---------------------------- MODULE Transcriber ----------------------------
(***************************************************************************)
(* What the engine promises the session, whatever processes, downloads and *)
(* restarts it is made of (the queue's and dictate's comments in           *)
(* engine/mod.rs): one recording waits, a newer one replaces it; one is    *)
(* worked on at a time, in the order they were made; and each that is      *)
(* taken is settled once, with a text on the card or with the card taken   *)
(* down.  Nothing is worked on that was not queued, and what is settled or *)
(* replaced does not come back.                                            *)
(***************************************************************************)
EXTENDS Naturals

CONSTANT Recordings   \* 1..n, in the order they are made

VARIABLE stage

Stages == {"unspoken", "queued", "working", "shown", "closed", "replaced"}

At(s) == {r \in Recordings : stage[r] = s}

Init == stage = [r \in Recordings |-> "unspoken"]

Submit(r) ==
  /\ stage[r] = "unspoken"
  /\ \A s \in Recordings : s < r => stage[s] # "unspoken"
  /\ stage' = [s \in Recordings |-> IF s = r THEN "queued"
                                    ELSE IF s \in At("queued") THEN "replaced"
                                    ELSE stage[s]]

Take(r) ==
  /\ stage[r] = "queued"
  /\ At("working") = {}
  /\ stage' = [stage EXCEPT ![r] = "working"]

(* With no engine to give it to, a recording is let go of at once. *)
LetGo(r) ==
  /\ stage[r] = "queued"
  /\ At("working") = {}
  /\ stage' = [stage EXCEPT ![r] = "closed"]

Settle(r) ==
  /\ stage[r] = "working"
  /\ \E s \in {"shown", "closed"} : stage' = [stage EXCEPT ![r] = s]

Next == \E r \in Recordings : Submit(r) \/ Take(r) \/ LetGo(r) \/ Settle(r)

Spec == Init /\ [][Next]_stage

=============================================================================
