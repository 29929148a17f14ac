------------------------ MODULE MCConnectionRegistry ------------------------
(* A small registry for TLC: one connection by OAuth, one by a controlled    *)
(* account, and two SMTP connections, each of a sending domain of its own;   *)
(* two of the three credentials belong to one mail account.                  *)
EXTENDS ConnectionRegistry, TLC

CONSTANTS key1, key2, key3, mailbox1, mailbox2

MCMailAccount == key1 :> mailbox1 @@ key2 :> mailbox1 @@ key3 :> mailbox2
MCDomain      == [c \in Smtp |-> c]

\* SMTP and Stripe connections touch no common entry of any variable, so that
\* every step of one commutes with every step of the other: the states in which
\* only one of the two has begun show all that either can do.
OneHalf ==
  \/ \A c \in Smtp : conn[c].status = "unregistered"
  \/ \A c \in Stripe : conn[c].status = "unregistered"

\* Told apart by nothing but equality: accounts, onboarding states, the two
\* SMTP connections, and the two credentials of one mail account.
Symmetric == Permutations(Accounts) \cup Permutations(Tokens)
               \cup Permutations(Smtp) \cup Permutations({key1, key2})
=============================================================================
