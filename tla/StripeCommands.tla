---------------------------- MODULE StripeCommands ----------------------------
(***************************************************************************)
(* The Stripe commands other services send: offers, their presentation,    *)
(* discounts, checkouts, changes of a subscription, portal sessions.       *)
(*                                                                         *)
(* An invocation claims the command (a receipt for its idempotency key and *)
(* a claim on the operation it belongs to), reads mappings, calls Stripe   *)
(* with the command's key, and completes receipt, claim and mappings in    *)
(* one transaction.  Any number of invocations may handle one command at a *)
(* time, each may die between two of these steps, and the answer of Stripe *)
(* may be lost.  Idempotency keys derive from operation, resource,         *)
(* revision and content, so a command stands here for its key.             *)
(*                                                                         *)
(* The connection is taken to resolve; see ConnectionRegistry.             *)
(***************************************************************************)
EXTENDS Integers, FiniteSets

CONSTANTS
  Workers,        \* invocations that may overlap
  Offers, Discounts, Checkouts, Portals,  \* the resources of one connection
  Configuration,  \* the portal configuration all portal sessions share
  Commands,       \* names of commands
  Revisions,      \* the revisions they carry
  Scenarios,      \* the commands of a run: what they ask (see Shape), which of
                  \* them callers send, and which were completed before
  Codes, Code,    \* [Discounts -> the customer's code, or NoCode]
  MaxSource,      \* bound: revisions of a subscription's projection
  NoCode, NoCommand

Resources  == Offers \cup Discounts \cup Checkouts \cup Portals \cup {Configuration}
Dimensions == {"immutable", "presentation", "lifecycle"}
Kinds ==
  {"provision", "deactivate", "product-presentation", "discount",
   "discount-presentation", "discount-lifecycle", "checkout",
   "subscription-change", "subscription-discount", "subscription-pause",
   "customer-portal"}

\* What a command asks.  Its content is told apart by a word, which is the target state of a
\* discount-lifecycle and the action on a subscription; it uses other resources
\* at a revision (of an offer line; 0 where the code asks for none).
Shape ==
  [kind : Kinds, on : Resources, revision : Revisions, content : STRING,
   uses : SUBSET (Resources \X Nat)]

ASSUME CommandAssumption ==
  /\ NoCommand \notin Commands /\ Revisions \subseteq Nat \ {0}
  /\ \A s \in Scenarios :
       /\ s.sent \cup s.done \subseteq Commands /\ s.sent \cap s.done = {}
       /\ s.asked \in [s.sent \cup s.done -> Shape]
  /\ Code \in [Discounts -> Codes \cup {NoCode}] /\ NoCode \notin Codes \cup Discounts
  /\ MaxSource \in Nat

\* What a kind of command is on, as its contract says.
Subjects(kind) ==
  CASE kind \in {"provision", "deactivate", "product-presentation"} -> Offers
    [] kind \in {"discount", "discount-presentation", "discount-lifecycle"} -> Discounts
    [] kind = "customer-portal" -> Portals
    [] OTHER -> Checkouts
Lifecycles == {"active", "existing_only", "retired"}
Creators == {"provision", "discount", "checkout"}

\* Commands keep to their contract, and those completed before each created a
\* resource, no two the same or with one code.
ASSUME ScenarioAssumption ==
  /\ Offers \cap Discounts = {} /\ Checkouts \cap (Offers \cup Discounts) = {}
  /\ Portals \cap (Offers \cup Discounts \cup Checkouts) = {}
  /\ Configuration \notin Offers \cup Discounts \cup Checkouts \cup Portals
  /\ \A s \in Scenarios :
       /\ \A c \in s.sent \cup s.done :
            /\ s.asked[c].on \in Subjects(s.asked[c].kind)
            /\ s.asked[c].kind = "discount-lifecycle" => s.asked[c].content \in Lifecycles
       /\ \A c \in s.done : s.asked[c].kind \in Creators
       /\ \A c, d \in s.done : s.asked[c].on = s.asked[d].on => c = d
       /\ \A c, d \in s.done :
            /\ s.asked[c].kind = "discount" /\ s.asked[d].kind = "discount"
            /\ Code[s.asked[c].on] = Code[s.asked[d].on] /\ Code[s.asked[c].on] # NoCode
            => c = d

VARIABLES
  asked,    \* [commands of this run -> what each asks]
  sent,     \* those that callers send, again and again
  receipt,  \* [commands -> status of its StripeCommandReceipt, or "none"]
  claim,    \* [Operations -> the StripeOperationClaim]
  late,     \* commands first attempted 24 hours ago or earlier
  run,      \* [Workers -> an invocation of execute]
  mapping,  \* [Resources -> the StripeResourceMapping]
  code,     \* [Codes -> the discount of the StripeDiscountCodeClaim, or NoCode]
  source,   \* [Checkouts -> sourceRevision of the projection, 0 for none]
  effect,   \* [commands -> what Stripe did under its key]
  answers   \* history: [commands -> what callers were told once it was claimed]

commandVars == <<asked, sent, receipt, claim, late, run, mapping, code, source, effect,
                 answers>>

-----------------------------------------------------------------------------
(* Records *)

Kind(c)     == asked[c].kind
On(c)       == asked[c].on
Revision(c) == asked[c].revision
Content(c)  == asked[c].content
Uses(c)     == asked[c].uses

Open    == {"pending", "unknown"}
Settled == {"accepted", "rejected", "needs_review"}

\* A caller is told how its command was settled, or that it conflicts, which is
\* all the caller of a rejected command is told as well: the 409 of either reads
\* the same.
Answers == Settled \cup {"conflict"}
Told(c) == answers[c] \cap Settled

Unmapped  == [status |-> "none", immutable |-> 0, presentation |-> 0,
              lifecycle |-> 0, content |-> "none", linked |-> FALSE]
Unclaimed == [command |-> NoCommand, status |-> "none"]
Nothing   == [r \in {} |-> Unmapped]
Idle      == [pc |-> "idle", command |-> NoCommand, next |-> Nothing]

Dimension(c) ==
  CASE Kind(c) \in {"provision", "discount", "checkout", "customer-portal"} -> "immutable"
    [] Kind(c) \in {"product-presentation", "discount-presentation"} -> "presentation"
    [] Kind(c) \in {"deactivate", "discount-lifecycle"} -> "lifecycle"
    [] OTHER -> "mutation"

\* What at most one command at a time may be open for: one dimension of a
\* resource, or the change of a subscription as its caller saw it.
Operation(c) ==
  <<On(c), Dimension(c), IF Dimension(c) = "mutation" THEN Revision(c) ELSE 0>>
Operations   == {Operation(c) : c \in DOMAIN asked}
Active(r)    == mapping[r].status = "active"

\* The mapping a command creates.
Created(c) ==
  [Unmapped EXCEPT !.status = IF Kind(c) = "checkout" THEN "pending" ELSE "active",
                   !.immutable = Revision(c), !.content = Content(c)]

-----------------------------------------------------------------------------
(* _perform: what an invocation decides from the mappings it reads.  A plan *)
(* is the step the invocation takes next and the mappings it means to write.*)

Plan(pc, next)   == [pc |-> pc, next |-> next]
Write(r, m)      == [x \in {r} |-> m]
Call(next)       == Plan("call", next)
Store(next)      == Plan("record", next)
Done             == Store(Nothing)
Refuse           == Plan("refuse", Nothing)
Review           == Plan("review", Nothing)
Unsure           == Plan("unsure", Nothing)

\* A version that is mapped already: other content, a lower revision or a
\* resource no longer sold is refused, a higher revision is recorded.
Renew(c) ==
  LET m == mapping[On(c)] IN
  IF Content(c) # m.content \/ Revision(c) < m.immutable \/ ~Active(On(c)) THEN Refuse
  ELSE IF Revision(c) = m.immutable THEN Done
  ELSE Store(Write(On(c), [m EXCEPT !.immutable = Revision(c)]))

Provision(c) ==
  IF mapping[On(c)].status = "none" THEN Call(Write(On(c), Created(c))) ELSE Renew(c)

OutdatedIfMapped(c) ==
  LET m == mapping[On(c)] IN
  Revision(c) <= IF m.lifecycle > 0 THEN m.lifecycle ELSE m.immutable
Outdated(c) ==
  LET m == mapping[On(c)] IN
  \/ m.status = "none"
  \/ Revision(c) <= IF m.lifecycle > 0 THEN m.lifecycle ELSE m.immutable

Retired(c, status) ==
  Write(On(c), [mapping[On(c)] EXCEPT !.status = status, !.lifecycle = Revision(c)])

\* The reference guard never lets an offer be deactivated at Stripe.
Deactivate(c) ==
  IF mapping[On(c)].lifecycle = Revision(c) THEN Done
  ELSE IF Outdated(c) THEN Refuse
  ELSE Store(Retired(c, "existing_only"))

Presentation(c) ==
  LET m == mapping[On(c)] IN
  IF ~Active(On(c)) \/ Revision(c) < m.presentation THEN Refuse
  ELSE IF Revision(c) = m.presentation THEN Done
  ELSE Call(Write(On(c), [m EXCEPT !.presentation = Revision(c)]))

CodeTaken(c) == Code[On(c)] # NoCode /\ code[Code[On(c)]] \notin {NoCode, On(c)}

Discount(c) ==
  IF CodeTaken(c) THEN Refuse
  ELSE IF mapping[On(c)].status # "none" THEN Renew(c)
  ELSE IF \E use \in Uses(c) : ~Active(use[1]) THEN Refuse
  ELSE Call(Write(On(c), Created(c)))

DiscountLifecycle(c) ==
  LET m == mapping[On(c)] IN
  IF m.lifecycle = Revision(c) /\ m.status = Content(c) THEN Done
  ELSE IF Outdated(c) \/ (Content(c) = "active" /\ ~Active(On(c))) THEN Refuse
  ELSE Call(Retired(c, Content(c)))

Sellable(use) ==
  Active(use[1]) /\ (use[1] \in Offers => mapping[use[1]].immutable = use[2])

\* The session's own expiry, and a discount's, may be over in any case.
Checkout(c) ==
  LET m == mapping[On(c)] IN
  {Refuse,
   IF m.status # "none"
   THEN IF m.content = Content(c) /\ m.immutable = Revision(c) THEN Done ELSE Refuse
   ELSE IF \A use \in Uses(c) : Sellable(use) THEN Call(Write(On(c), Created(c)))
   ELSE Refuse}

\* The subscription is reviewed unless its projection is at the revision the
\* caller saw, its checkout is linked and Stripe, asked for its state, shows it
\* fit for the plans; tax settings that do not fit send it to review too.
Subscription(s, c, enforced, plans) ==
  IF source[s] = 0 \/ (enforced /\ source[s] # Revision(c)) THEN {Refuse}
  ELSE IF ~mapping[s].linked THEN {Review}
  ELSE {Review} \cup plans

SubscriptionChange(c) ==
  Subscription(On(c), c, TRUE,
    IF \A use \in Uses(c) : Active(use[1]) THEN {Call(Nothing)} ELSE {})

\* The discount may be there, or be gone, already.
SubscriptionDiscount(c) ==
  Subscription(On(c), c, TRUE,
    IF \A use \in Uses(c) : Active(use[1]) THEN {Done, Call(Nothing)} ELSE {})

SubscriptionPause(c) ==
  Subscription(On(c), c, TRUE,
    {Call(Nothing)} \cup IF Content(c) = "resume" THEN {Done} ELSE {})

CustomerPortal(c) ==
  LET session == Write(On(c), Created(c))
      both == [r \in {On(c), Configuration} |->
                IF r = On(c) THEN Created(c)
                ELSE [Unmapped EXCEPT !.status = "active", !.immutable = 1]]
  IN  UNION {Subscription(use[1], c, FALSE,
               {Call(IF mapping[Configuration].status = "none" THEN both ELSE session)})
             : use \in Uses(c)}

Plans(c) ==
  CASE Kind(c) = "provision"             -> {Provision(c)}
    [] Kind(c) = "deactivate"            -> {Deactivate(c)}
    [] Kind(c) = "product-presentation"  -> {Presentation(c)}
    [] Kind(c) = "discount"              -> {Discount(c)}
    [] Kind(c) = "discount-presentation" -> {Presentation(c)}
    [] Kind(c) = "discount-lifecycle"    -> {DiscountLifecycle(c)}
    [] Kind(c) = "checkout"              -> Checkout(c)
    [] Kind(c) = "subscription-change"   -> SubscriptionChange(c)
    [] Kind(c) = "subscription-discount" -> SubscriptionDiscount(c)
    [] Kind(c) = "subscription-pause"    -> SubscriptionPause(c)
    [] Kind(c) = "customer-portal"       -> CustomerPortal(c)

-----------------------------------------------------------------------------
(* The store: claim, complete and the transitions of a command *)

ClaimableOnceSettled(c) ==
  LET held == claim[Operation(c)] IN
  /\ receipt[c] = "none"
  /\ held.command # NoCommand =>
       held.status \in Settled /\ Revision(held.command) < Revision(c)
Claimable(c) ==
  LET held == claim[Operation(c)] IN
  /\ receipt[c] = "none"
  /\ held.command # NoCommand =>
       held.status = "accepted" /\ Revision(held.command) < Revision(c)

\* A known command answers by its receipt, or, when that has expired and the
\* operation is still at this command, by a copy of the claim.
Known(c)  == receipt[c] # "none" \/ claim[Operation(c)].command = c
Status(c) == IF receipt[c] # "none" THEN receipt[c] ELSE claim[Operation(c)].status

StillOpenByCommand(c) == claim[Operation(c)].command = c
StillOpen(c) ==
  /\ receipt[c] \in Open
  /\ claim[Operation(c)].command = c /\ claim[Operation(c)].status \in Open

SetStatusOfReceipt(c, status) ==
  receipt' = [receipt EXCEPT ![c] = status] /\ UNCHANGED claim
SetStatus(c, status) ==
  /\ receipt' = [receipt EXCEPT ![c] = status]
  /\ claim'   = [claim EXCEPT ![Operation(c)].status = status]

\* A mapping that exists is written only if it advances in one dimension, and
\* then in the fields of that dimension alone.
Advanced(r, m) == {d \in Dimensions : m[d] > mapping[r][d]}
Writable(r, m) == mapping[r].status = "none" \/ Cardinality(Advanced(r, m)) = 1
WrittenOnce(r, m)  == IF mapping[r].status = "none" THEN m ELSE mapping[r]
WrittenWhole(r, m) == m
Written(r, m) ==
  LET d == CHOOSE x \in Advanced(r, m) : TRUE IN
  IF mapping[r].status = "none" THEN m
  ELSE IF d = "lifecycle"
       THEN [mapping[r] EXCEPT !.lifecycle = m.lifecycle, !.status = m.status]
       ELSE [mapping[r] EXCEPT ![d] = m[d]]

\* The code a completion claims, and the codes it gives back.
Takes(c, next) ==
  IF \/ DOMAIN next = {} \/ On(c) \notin Discounts
     \/ ~(Kind(c) = "discount" \/ (Kind(c) = "discount-lifecycle" /\ Content(c) = "active"))
  THEN NoCode ELSE Code[On(c)]

ReleasesOfAnyStatus(c, next) ==
  {Code[d] : d \in Discounts \cap DOMAIN next} \ {NoCode}
Releases(c, next) ==
  IF Takes(c, next) # NoCode THEN {}
  ELSE {Code[d] : d \in {x \in Discounts \cap DOMAIN next :
                          Code[x] # NoCode /\ next[x].status # "active"}}

AllWritable(next) == \A r \in DOMAIN next : Writable(r, next[r])
Completable(c, next) ==
  /\ StillOpen(c)
  /\ AllWritable(next)
  /\ Takes(c, next) # NoCode => code[Takes(c, next)] \in {NoCode, On(c)}
  /\ \A k \in Releases(c, next) : code[k] = On(c)

-----------------------------------------------------------------------------
(* An invocation of execute *)

Step(w, plan) ==
  run' = [run EXCEPT ![w].pc = plan.pc, ![w].next = plan.next]
End(w) == run' = [run EXCEPT ![w] = Idle]
Give(c, answer) == answers' = [answers EXCEPT ![c] = @ \cup {answer}]

Begin(w, c, pc) == run' = [run EXCEPT ![w] = [pc |-> pc, command |-> c, next |-> Nothing]]

\* A new command is claimed.  One the claim forbids is told it conflicts, and no
\* record of it is made: it may be sent again, and is not among the answers.
Start(w, c) ==
  /\ run[w].pc = "idle" /\ Claimable(c)
  /\ receipt' = [receipt EXCEPT ![c] = "pending"]
  /\ claim' = [claim EXCEPT ![Operation(c)] = [command |-> c, status |-> "pending"]]
  /\ Begin(w, c, "perform")
  /\ UNCHANGED <<asked, sent, late, mapping, code, source, effect, answers>>

\* A known command that is settled is answered as it was; an accepted portal
\* session that has run out since sends its caller to review.
Replay(c) ==
  /\ Known(c) /\ Status(c) \in Settled
  /\ receipt' = [receipt EXCEPT ![c] = Status(c)]
  /\ \/ Give(c, Status(c))
     \/ /\ Kind(c) = "customer-portal" /\ Status(c) = "accepted"
        /\ Give(c, "needs_review")
  /\ UNCHANGED <<asked, sent, claim, late, run, mapping, code, source, effect>>

ResumableForever(c) == Status(c) = "unknown"
Resumable(c) == c \notin late /\ Status(c) = "unknown"

\* A known command that is open: after 24 hours it goes to review; before, one
\* whose last attempt ended unknown is performed again, under the same key.
Resume(w, c) ==
  /\ run[w].pc = "idle" /\ Known(c) /\ Status(c) \in Open
  /\ receipt' = [receipt EXCEPT ![c] = Status(c)]
  /\ \/ /\ c \in late
        /\ Begin(w, c, "review")
     \/ /\ Resumable(c)
        /\ Begin(w, c, "perform")
  /\ UNCHANGED <<asked, sent, claim, late, mapping, code, source, effect, answers>>

\* Any read may fail, which leaves the command unknown.
Perform(w) ==
  /\ run[w].pc = "perform"
  /\ \E plan \in Plans(run[w].command) \cup {Unsure} : Step(w, plan)
  /\ UNCHANGED <<asked, sent, receipt, claim, late, mapping, code, source, effect, answers>>

\* Stripe does what a key asks once while it remembers the key.
CallStripe(w) ==
  /\ run[w].pc = "call"
  /\ LET c == run[w].command IN
     effect' = [effect EXCEPT ![c] =
       IF @ = "none" THEN "done" ELSE IF @ = "forgotten" THEN "twice" ELSE @]
  /\ \/ Step(w, Store(run[w].next))
     \/ Step(w, Unsure)
     \/ Kind(run[w].command) = "customer-portal" /\ Step(w, Review)
  /\ UNCHANGED <<asked, sent, receipt, claim, late, mapping, code, source, answers>>

\* mark_rejected, mark_needs_review, mark_unknown: the transition is made once,
\* or found made; otherwise the store is unavailable to this invocation.
Target == [refuse |-> "rejected", review |-> "needs_review", unsure |-> "unknown"]

Transition(w) ==
  /\ run[w].pc \in DOMAIN Target
  /\ LET c == run[w].command
         target == Target[run[w].pc]
         made == receipt[c] = target /\ claim[Operation(c)] = [command |-> c, status |-> target]
     IN  /\ IF StillOpen(c) THEN SetStatus(c, target) ELSE UNCHANGED <<receipt, claim>>
         /\ IF (StillOpen(c) \/ made) /\ target # "unknown"
            THEN Give(c, target) ELSE UNCHANGED answers
  /\ End(w)
  /\ UNCHANGED <<asked, sent, late, mapping, code, source, effect>>

\* complete: all or nothing.  When a mapping cannot advance, the conflict is raised
\* before there is a transaction; one that fails is looked into, and the caller of
\* a command that is accepted by now is told so.  The mapping may have been read
\* before another invocation accepted the command.
Complete(w) ==
  /\ run[w].pc = "record"
  /\ LET c == run[w].command
         next == run[w].next
         taken == Takes(c, next)
         freed == Releases(c, next)
     IN  \/ /\ Completable(c, next)
            /\ SetStatus(c, "accepted")
            /\ mapping' = [r \in Resources |->
                 IF r \in DOMAIN next THEN Written(r, next[r]) ELSE mapping[r]]
            /\ code' = [k \in Codes |->
                 IF k = taken THEN On(c) ELSE IF k \in freed THEN NoCode ELSE code[k]]
            /\ Give(c, "accepted")
         \/ /\ ~Completable(c, next)
            /\ \/ receipt[c] = "accepted" /\ Give(c, "accepted")
               \/ /\ receipt[c] = "accepted" => ~AllWritable(next)
                  /\ Give(c, "conflict")
            /\ UNCHANGED <<receipt, claim, mapping, code>>
  /\ End(w)
  /\ UNCHANGED <<asked, sent, late, source, effect>>

\* The invocation dies, or the store does not take its last transaction.
Crash(w) ==
  /\ run[w].pc # "idle"
  /\ End(w)
  /\ UNCHANGED <<asked, sent, receipt, claim, late, mapping, code, source, effect, answers>>

-----------------------------------------------------------------------------
(* Time, and what others write *)

Performing(c) == \E w \in Workers : run[w].command = c

\* Twenty-four hours after the first attempt.
Age(c) ==
  /\ receipt[c] \in Open /\ c \notin late
  /\ late' = late \cup {c}
  /\ UNCHANGED <<asked, sent, receipt, claim, run, mapping, code, source, effect, answers>>

\* Stripe drops a key some time after that, later than an invocation lasts.
Forget(c) ==
  /\ receipt[c] \in Open /\ c \in late /\ effect[c] = "done" /\ ~Performing(c)
  /\ effect' = [effect EXCEPT ![c] = "forgotten"]
  /\ UNCHANGED <<asked, sent, receipt, claim, late, run, mapping, code, source, answers>>

\* A receipt expires after days, when Stripe has long dropped the key; the
\* claim on the operation never expires.
Expire(c) ==
  /\ receipt[c] # "none" /\ ~Performing(c)
  /\ receipt' = [receipt EXCEPT ![c] = "none"]
  /\ late' = late \cup {c}
  /\ effect' = [effect EXCEPT ![c] = IF @ = "done" THEN "forgotten" ELSE @]
  /\ UNCHANGED <<asked, sent, claim, run, mapping, code, source, answers>>

\* bind_checkout_objects, called by the webhook worker.
BindCheckout(a) ==
  /\ mapping[a].status # "none" /\ ~mapping[a].linked
  /\ mapping' = [mapping EXCEPT ![a].linked = TRUE]
  /\ UNCHANGED <<asked, sent, receipt, claim, late, run, code, source, effect, answers>>

\* The webhook worker projects a change of the subscription.
Project(a) ==
  /\ mapping[a].linked /\ source[a] < MaxSource
  /\ source' = [source EXCEPT ![a] = @ + 1]
  /\ UNCHANGED <<asked, sent, receipt, claim, late, run, mapping, code, effect, answers>>

-----------------------------------------------------------------------------

\* The commands of one scenario are sent, those it builds on are completed.
Init ==
  \E s \in Scenarios :
    /\ asked = s.asked /\ sent = s.sent
    /\ receipt = [c \in DOMAIN asked |-> IF c \in s.done THEN "accepted" ELSE "none"]
    /\ claim = [o \in Operations |->
         IF \E c \in s.done : Operation(c) = o
         THEN [command |-> CHOOSE c \in s.done : Operation(c) = o, status |-> "accepted"]
         ELSE Unclaimed]
    /\ late = {}
    /\ run = [w \in Workers |-> Idle]
    /\ mapping = [r \in Resources |->
         IF \E c \in s.done : On(c) = r
         THEN Created(CHOOSE c \in s.done : On(c) = r) ELSE Unmapped]
    /\ code = [k \in Codes |->
         IF \E c \in s.done : On(c) \in Discounts /\ Code[On(c)] = k
         THEN On(CHOOSE c \in s.done : On(c) \in Discounts /\ Code[On(c)] = k)
         ELSE NoCode]
    /\ source = [a \in Checkouts |-> 0]
    /\ effect = [c \in DOMAIN asked |-> IF c \in s.done THEN "done" ELSE "none"]
    /\ answers = [c \in DOMAIN asked |-> IF c \in s.done THEN {"accepted"} ELSE {}]

Invocation(w) ==
  \/ \E c \in sent : Start(w, c) \/ Resume(w, c)
  \/ Perform(w) \/ CallStripe(w) \/ Transition(w) \/ Complete(w) \/ Crash(w)

Clock(c) == Age(c) \/ Forget(c) \/ Expire(c)

Next ==
  \/ \E w \in Workers : Invocation(w)
  \/ \E c \in sent : Replay(c) \/ Clock(c)
  \/ \E a \in Checkouts : BindCheckout(a) \/ Project(a)

Spec == Init /\ [][Next]_commandVars

-----------------------------------------------------------------------------
(* Properties *)

\* Type correctness of receipts, claims, invocations, mappings and histories.
CommandTypeOK ==
  /\ DOMAIN asked \subseteq Commands
  /\ sent \subseteq DOMAIN asked /\ late \subseteq DOMAIN asked
  /\ receipt \in [DOMAIN asked -> Open \cup Settled \cup {"none"}]
  /\ claim \in [Operations -> [command : DOMAIN asked \cup {NoCommand},
                               status : Open \cup Settled \cup {"none"}]]
  /\ \A w \in Workers :
       /\ run[w].pc \in {"idle", "perform", "call", "record"} \cup DOMAIN Target
       /\ run[w].command \in DOMAIN asked \cup {NoCommand}
       /\ DOMAIN run[w].next \subseteq Resources
  /\ \A r \in Resources : mapping[r].status # "none" => mapping[r].immutable > 0
  /\ code \in [Codes -> Discounts \cup {NoCode}]
  /\ source \in [Checkouts -> 0..MaxSource]
  /\ effect \in [DOMAIN asked -> {"none", "done", "forgotten", "twice"}]
  /\ answers \in [DOMAIN asked -> SUBSET Answers]

\* A receipt that is open, or is of the command its operation is at, tells the
\* status of the operation's claim: no transition ever moves one without the
\* other, not even a late one, and at most one command of an operation is open.
ReceiptMatchesClaim ==
  \A c \in DOMAIN asked :
    LET held == claim[Operation(c)] IN
    receipt[c] \in Open \/ (receipt[c] # "none" /\ held.command = c) =>
      held = [command |-> c, status |-> receipt[c]]

\* Retries, overlapping invocations and expired receipts never make Stripe do
\* what a command asks a second time.
ProviderOnce == \A c \in DOMAIN asked : effect[c] # "twice"

\* No caller is told accepted of a command that another caller, or the same one
\* before, was told is in review, or was told conflicts because it is rejected.
\* Of two overlapping invocations of a command one may still be told that it
\* conflicts while the other is told it is accepted: that answer settles nothing.
\* A portal session that was accepted runs out, and goes to review.
AnswersAgree ==
  \A c \in DOMAIN asked :
    Kind(c) # "customer-portal" => Cardinality(Told(c)) <= 1

\* A command answered accepted is in the catalogue, at its revision or a later
\* one, and a command that creates what it is on has had its effect at Stripe.
AcceptedIsRecorded ==
  \A c \in DOMAIN asked :
    "accepted" \in answers[c] /\ Dimension(c) # "mutation" =>
      /\ mapping[On(c)][Dimension(c)] >= Revision(c)
      /\ \E x \in DOMAIN asked :
           On(x) = On(c) /\ Dimension(x) = "immutable" /\ effect[x] # "none"

\* Two discounts on sale never share a customer's code: one that is active
\* holds the claim on its code.
CodeExclusive ==
  \A d \in Discounts : Active(d) /\ Code[d] # NoCode => code[Code[d]] = d

\* A resource that is no longer sold is never sold again, though invocations
\* write mappings they read before it was retired.
NeverRevived ==
  [][\A r \in Resources :
       mapping[r].status \notin {"none", "active"} => mapping'[r].status # "active"]_commandVars

\* The ledger an operation is, for the dimensions the catalogue shows.
Catalogued == {o \in Operations : o[2] # "mutation"}

Taken(o) == IF claim[o].command = NoCommand THEN 0 ELSE Revision(claim[o].command)
Outcome(o) ==
  CASE claim[o].status \in {"none", "accepted"} -> "granted"
    [] claim[o].status \in Open -> "open"
    [] OTHER -> "refused"
Shown(o) == mapping[o[1]][o[2]]

Ledger(o) == INSTANCE CommandLedger WITH
  taken <- Taken(o), state <- Outcome(o), shown <- Shown(o)

\* Every step of the commands is one of each operation's ledger, or none: a
\* dimension advances in the step that accepts the command which asked for it.
ImplementsLedger ==
  /\ \A o \in Catalogued : Ledger(o)!Init
  /\ [][\A o \in Catalogued : UNCHANGED (Ledger(o)!ledger) \/ Ledger(o)!Next]_commandVars
=============================================================================
