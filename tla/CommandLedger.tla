---------------------------- MODULE CommandLedger ----------------------------
(***************************************************************************)
(* What the callers of the Stripe commands may rely on, for one operation: *)
(* one dimension of one resource.  Its commands are taken one at a time in *)
(* the order of their revisions; a revision is shown in the catalogue in   *)
(* the very step that grants its command, never before and never without   *)
(* it; an operation that refused a command takes no other.                 *)
(***************************************************************************)
EXTENDS Integers

CONSTANT Revisions  \* revisions that commands carry

VARIABLES
  taken,  \* the revision of the last command taken, 0 for none
  state,  \* what became of it: "granted", "open" or "refused"
  shown   \* the revision the catalogue shows, 0 for none

ledger == <<taken, state, shown>>

Init ==
  /\ taken \in Revisions \cup {0} /\ shown = taken
  /\ state = "granted"

Take ==
  /\ state = "granted"
  /\ taken' \in {r \in Revisions : r > taken}
  /\ state' = "open"
  /\ UNCHANGED shown

Grant ==
  /\ state = "open" /\ state' = "granted"
  /\ shown' = taken
  /\ UNCHANGED taken

Refuse ==
  /\ state = "open" /\ state' = "refused"
  /\ UNCHANGED <<taken, shown>>

Next == Take \/ Grant \/ Refuse

Spec == Init /\ [][Next]_ledger
=============================================================================
