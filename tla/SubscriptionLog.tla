--------------------------- MODULE SubscriptionLog ---------------------------
(***************************************************************************)
(* What the consumers of a subscription's events may rely on: the events   *)
(* are a log that only grows, entries are ordered by the time and id of    *)
(* the Stripe event they stem from, no Stripe event is entered twice, and  *)
(* after the entry that tells of the cancellation no other tells of a      *)
(* subscription that lives.  Two entries may tell the same.                *)
(***************************************************************************)
EXTENDS Integers, Sequences

CONSTANTS
  Events,    \* ids of the Stripe events
  Tellings,  \* what an entry tells of the subscription
  Canceled,  \* what it tells of one that is canceled
  MaxClock   \* the last second told

VARIABLE log

Entries == [event : Events, created : 0..MaxClock, tells : Tellings]

Before(x, y) ==
  x.created < y.created \/ (x.created = y.created /\ x.event < y.event)

Init == log = <<>>

Enter(x) ==
  /\ log # <<>> => LET last == log[Len(log)]
                   IN  /\ Before(last, x)
                       /\ last.tells \in Canceled => x.tells \in Canceled
  /\ log' = Append(log, x)

Next == log' # log /\ \E x \in Entries : Enter(x)

Spec == Init /\ [][Next]_log
=============================================================================
