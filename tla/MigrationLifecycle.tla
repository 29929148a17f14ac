-------------------------- MODULE MigrationLifecycle --------------------------
(***************************************************************************)
(* What a bulk migration promises its operator, whoever does the work: an  *)
(* item's outcome is decided while the job is under way, is only undone by *)
(* a cancellation, and is final once the job is.  A finished job has       *)
(* decided every item; a withdrawn one has migrated none.                  *)
(***************************************************************************)
CONSTANT Items

VARIABLES
  phase,    \* planned, active, held, unwinding, finished or withdrawn
  outcome   \* [Items -> open, migrated, undone or review]

lifecycle == <<phase, outcome>>

Phases   == {"planned", "active", "held", "unwinding", "finished", "withdrawn"}
Outcomes == {"open", "migrated", "undone", "review"}

Init ==
  /\ phase = "planned"
  /\ outcome \in [Items -> {"open", "review"}]

Start   == phase = "planned" /\ phase' = "active" /\ UNCHANGED outcome
Hold    == phase \in {"planned", "active"} /\ phase' = "held" /\ UNCHANGED outcome
Release == phase = "held" /\ phase' = "active" /\ UNCHANGED outcome

(* A cancellation also takes up a job that has finished. *)
Unwind ==
  /\ phase \in {"planned", "active", "held", "finished"}
  /\ phase' = "unwinding"
  /\ UNCHANGED outcome

(* A mutation that was under way may still be settled when the job has been *)
(* held, or is being canceled.                                              *)
Settle(i) ==
  /\ phase \in {"active", "held", "unwinding"}
  /\ outcome[i] = "open"
  /\ \E o \in {"migrated", "review"} : outcome' = [outcome EXCEPT ![i] = o]
  /\ UNCHANGED phase

Undo(i) ==
  /\ phase = "unwinding"
  /\ outcome[i] \in {"open", "migrated"}
  /\ \E o \in {"undone", "review"} : outcome' = [outcome EXCEPT ![i] = o]
  /\ UNCHANGED phase

Finish ==
  /\ phase = "active"
  /\ \A i \in Items : outcome[i] # "open"
  /\ phase' = "finished"
  /\ UNCHANGED outcome

Withdraw ==
  /\ phase = "unwinding"
  /\ \A i \in Items : outcome[i] \in {"undone", "review"}
  /\ phase' = "withdrawn"
  /\ UNCHANGED outcome

Next ==
  \/ Start \/ Hold \/ Release \/ Unwind \/ Finish \/ Withdraw
  \/ \E i \in Items : Settle(i) \/ Undo(i)

Spec == Init /\ [][Next]_lifecycle
=============================================================================
