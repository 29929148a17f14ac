--------------------------- MODULE WebhookPipeline ---------------------------
(***************************************************************************)
(* Stripe webhooks, from the signed delivery to the event published for    *)
(* other services: the HTTP handler that records a receipt and an ingress  *)
(* record, the stream worker that reads the canonical state from Stripe,   *)
(* projects it and completes the event, and the relay that publishes the   *)
(* outgoing event.  It runs beside the connection registry, whose records  *)
(* route a delivery and which a deauthorisation changes.                   *)
(*                                                                         *)
(* Both workers are fed by DynamoDB streams: one record at a time, retried *)
(* in place until it succeeds or is given up, later records waiting.  How  *)
(* many retries the stream makes is left open.  A pending revision is      *)
(* written once and yields one stream record, so the record's sequence     *)
(* number is its event and revision.                                       *)
(***************************************************************************)
EXTENDS ConnectionRegistry, Sequences

CONSTANTS
  Events,           \* event ids: numbers, for the code compares them; 0 is none
  Seller,           \* the connection whose checkout sold the subscription
  Account,          \* its account
  Hinted,           \* events whose object names its checkout: mappingHint
  States,           \* states of a subscription that the hash of what is read tells apart
  Told,             \* [States -> what the outgoing event tells: offer, status, period end]
  Canceled,         \* what is told of a canceled subscription
  MaxMappingTries,  \* _MAX_MAPPING_ATTEMPTS, 3 in the code
  MaxRedeliveries,  \* bound: deliveries Stripe repeats
  MaxClock,         \* bound: seconds told apart
  NoEvent

ASSUME PipelineAssumption ==
  /\ Events \subseteq Nat \ {0} /\ IsFiniteSet(Events) /\ NoEvent \notin Events
  /\ Hinted \subseteq Events
  /\ "active" \in States /\ "none" \notin States
  /\ DOMAIN Told = States /\ \A state \in States : Told[state] # "none"
  /\ Seller \in OAuth /\ Account \in Accounts
  /\ MaxMappingTries \in Nat \ {0}
  /\ MaxRedeliveries \in Nat /\ MaxClock \in Nat

VARIABLES
  clock,        \* the second it is; only Stripe's events show time passing
  subscription, \* Stripe: the state of the subscription
  event,        \* [Events -> what Stripe emitted]
  latest,       \* history: the event of the subscription's last change
  fresh,        \* events whose receipt was written in the current second
  receipt,      \* [Events -> the WebhookReceipt record]
  ingress,      \* [Events -> the WebhookIngressOutbox record]
  stream,       \* the stream of pending ingress records
  worker,       \* the stream worker: a batch of one record
  mapped,       \* TRUE once the checkout's mapping has been recorded
  projection,   \* the StripeSubscriptionProjection record
  outbox,       \* [Events -> the IntegrationEventOutbox record]
  outgoing,     \* the stream of pending outgoing records
  relay,        \* the relay, at the first outgoing record
  published,    \* the events the topic was sent, once or more
  undelivered,  \* history: events whose outgoing record the stream gave up
  givenUp,      \* history: events whose last record the stream gave up
  redeliveries  \* deliveries repeated so far

pipelineVars ==
  <<clock, subscription, event, latest, fresh, receipt, ingress, stream, worker, mapped,
    projection, outbox, outgoing, relay, published, undelivered, givenUp, redeliveries>>
stripeVars  == <<clock, subscription, event, latest, fresh>>
workerVars  == <<stream, worker>>
relayVars   == <<outgoing, relay, published, undelivered>>
allVars     == <<registryVars, pipelineVars>>

-----------------------------------------------------------------------------
(* Records *)

NotEmitted  == [kind |-> "none", created |-> 0, account |-> NoAccount]
NoReceipt   == [status |-> "none", revision |-> 0, connection |-> NoConnection]
NoIngress   == [status |-> "none", revision |-> 0, attempts |-> 0]
IdleWorker  == [pc |-> "idle", revision |-> 0, attempts |-> 0, connection |-> 0,
                seen |-> "none", decision |-> "none", stale |-> FALSE]
NoEnvelope  == [status |-> "none", sourceRevision |-> 0, tells |-> "none"]
NoProjection == [revision |-> 0, state |-> "none", created |-> 0, event |-> 0]

\* What a receipt ends with; an event is ignored for telling nothing new, or for
\* being of no subscription known here.
Terminal == {"processed", "ignored", "ignored_unmapped", "needs_review"}
Tellings == {Told[state] : state \in States}

Record(e, revision, attempts) ==
  [event |-> e, revision |-> revision, attempts |-> attempts]

Handling  == Head(stream)
Handled   == Handling.event

\* (created, event id) of an event against the projection's last event.
NewerById(e) == e > projection.event
NewerAlways(e) == TRUE
Newer(e) ==
  \/ event[e].created > projection.created
  \/ event[e].created = projection.created /\ e > projection.event

-----------------------------------------------------------------------------
(* Stripe *)

\* Stripe emits an event, in the second of the event before or a later one.
Emit(e, kind, account) ==
  /\ event[e].kind = "none"
  /\ clock' \in clock..MaxClock
  /\ fresh' = IF clock' > clock THEN {} ELSE fresh
  /\ event' = [event EXCEPT ![e] =
       [kind |-> kind, created |-> clock', account |-> account]]

\* The subscription of the seller's account changes, and once canceled stays so;
\* ids follow no order.
Change(e, state) ==
  /\ Emit(e, "subscription", Account)
  /\ state # subscription
  /\ Told[subscription] \in Canceled => Told[state] \in Canceled
  /\ subscription' = state
  /\ latest' = e

\* The owner of an account, or an earlier deauthorize_oauth_account, revokes
\* the platform's access.
Revoked(e, a) ==
  /\ Emit(e, "deauthorized", a)
  /\ granted' = granted \ {a}
  /\ UNCHANGED <<subscription, latest>>

-----------------------------------------------------------------------------
(* The HTTP handler and accept_supported *)

Accept(e, c) ==
  /\ receipt[e].status = "none"
  /\ receipt' = [receipt EXCEPT ![e] =
       [status |-> "received", revision |-> 1, connection |-> c]]
  /\ ingress' = [ingress EXCEPT ![e] =
       [status |-> "pending", revision |-> 1, attempts |-> 0]]
  /\ stream' = Append(stream, Record(e, 1, 0))
  /\ fresh' = fresh \cup {e}

\* A redelivery of an event that is being processed puts it back to pending,
\* but only in the second of the first delivery: the receipt's times are among
\* what must agree.  Any other known event is a duplicate, or is refused, and
\* changes nothing.
RedeliverableAnyTime(e, c) ==
  receipt[e].status # "none" /\ receipt[e].connection = c
Redeliverable(e, c) ==
  /\ e \in fresh
  /\ receipt[e].status = "processing" /\ ingress[e].status = "processing"
  /\ receipt[e].connection = c
  /\ receipt[e].revision = ingress[e].revision

ReactivateIngressOnly(e, c) ==
  /\ Redeliverable(e, c)
  /\ receipt' = [receipt EXCEPT ![e].status = "received"]
  /\ ingress' = [ingress EXCEPT ![e].status = "pending", ![e].revision = @ + 1]
  /\ stream' = Append(stream, Record(e, ingress[e].revision + 1, ingress[e].attempts))
Reactivate(e, c) ==
  /\ Redeliverable(e, c)
  /\ receipt' = [receipt EXCEPT ![e].status = "received", ![e].revision = @ + 1]
  /\ ingress' = [ingress EXCEPT ![e].status = "pending", ![e].revision = @ + 1]
  /\ stream' = Append(stream, Record(e, ingress[e].revision + 1, ingress[e].attempts))

Deliver(e) ==
  /\ event[e].kind # "none"
  /\ \E c \in Stripe :
       /\ Routes(event[e].account, c, event[e].kind = "deauthorized")
       /\ \/ Accept(e, c) /\ UNCHANGED redeliveries
          \/ /\ redeliveries < MaxRedeliveries
             /\ redeliveries' = redeliveries + 1
             /\ Reactivate(e, c)
             /\ UNCHANGED fresh
  /\ givenUp' = givenUp \ {e}
  /\ UNCHANGED <<registryVars, clock, subscription, event, latest, worker, mapped, projection, outbox,
                 relayVars>>

-----------------------------------------------------------------------------
(* The stream worker *)

\* The record leaves the stream: done with, or given up.
NextRecord ==
  /\ stream' = Tail(stream)
  /\ worker' = IdleWorker

\* The invocation fails or dies: the record is retried, or given up.
FailRecordAcknowledging ==
  /\ NextRecord
  /\ UNCHANGED givenUp
FailRecord ==
  \/ /\ worker' = IdleWorker
     /\ UNCHANGED <<stream, givenUp>>
  \/ /\ givenUp' = givenUp \cup {Handled}
     /\ NextRecord

Claimable(r) ==
  /\ ingress[r.event].status = "pending" /\ ingress[r.event].revision = r.revision
  /\ receipt[r.event].status \in {"received", "failed"}
  /\ receipt[r.event].revision = r.revision

\* The record was claimed by an earlier attempt of the same stream record.
Claimed(r) ==
  /\ ingress[r.event].status = "processing"
  /\ ingress[r.event].revision = r.revision + 1
  /\ receipt[r.event].status = "processing"
  /\ receipt[r.event].revision = r.revision + 1

ClaimIngress ==
  LET r == Handling
      e == r.event
  IN
  /\ stream # <<>> /\ worker.pc = "idle"
  /\ \/ /\ Claimable(r)
        /\ ingress' = [ingress EXCEPT ![e].status = "processing",
                         ![e].revision = @ + 1, ![e].attempts = @ + 1]
        /\ receipt' = [receipt EXCEPT ![e].status = "processing", ![e].revision = @ + 1]
        /\ worker' = [IdleWorker EXCEPT !.pc = "claimed", !.revision = r.revision + 1,
                        !.attempts = r.attempts]
        /\ UNCHANGED <<stream, givenUp>>
     \/ /\ Claimed(r)
        /\ worker' = [IdleWorker EXCEPT !.pc = "claimed", !.revision = r.revision + 1,
                        !.attempts = r.attempts]
        /\ UNCHANGED <<ingress, receipt, stream, givenUp>>
     \/ /\ ingress[e].status = "processed"
        /\ NextRecord
        /\ UNCHANGED <<ingress, receipt, givenUp>>
     \/ /\ ~Claimable(r) /\ ~Claimed(r) /\ ingress[e].status # "processed"
        /\ FailRecord
        /\ UNCHANGED <<ingress, receipt>>
  /\ UNCHANGED <<registryVars, stripeVars, mapped, projection, outbox, relayVars,
                 redeliveries>>

\* The receipt's connection must still hold the account and be active, or
\* pending for a deauthorisation, for the object to be read back from Stripe.
Retrievable(e, c) ==
  /\ worker.pc = "claimed"
  /\ \/ conn[c].status = "active"
     \/ conn[c].status = "pending" /\ event[e].kind = "deauthorized"
  /\ conn[c].account = event[e].account

RetrieveRevokedOnly ==
  LET e == Handled
      c == receipt[e].connection
  IN
  /\ Retrievable(e, c) /\ event[e].kind = "deauthorized"
  /\ worker' = [worker EXCEPT !.pc = "planned", !.decision = "processed",
                  !.stale = TRUE]
  /\ UNCHANGED <<registryVars, stripeVars, receipt, ingress, stream, mapped,
                 projection, outbox, relayVars, givenUp, redeliveries>>
RetrieveRevoked ==
  LET e == Handled
      c == receipt[e].connection
  IN
  /\ Retrievable(e, c) /\ event[e].kind = "deauthorized"
  /\ worker' = [worker EXCEPT !.pc = "retrieved", !.connection = conn[c].revision]
  /\ UNCHANGED <<registryVars, stripeVars, receipt, ingress, stream, mapped,
                 projection, outbox, relayVars, givenUp, redeliveries>>

\* disable_stripe_account on the revision read.
DisableRevoked ==
  LET e == Handled
      c == receipt[e].connection
  IN
  /\ worker.pc = "retrieved"
  /\ CanDisableAccount(c, event[e].account, worker.connection)
  /\ DisableAccount(c, event[e].account)
  /\ visit' = Outdate(c)
  /\ worker' = [worker EXCEPT !.pc = "planned", !.decision = "processed",
                  !.stale = TRUE]
  /\ UNCHANGED <<unbound, isolation, revocation, granted, made, stripeVars, receipt,
                 ingress, stream, mapped, projection, outbox, relayVars, givenUp, redeliveries>>

DecisionByStaleness(stale) == IF stale THEN "stale" ELSE "processed"
Decision(stale) == IF stale THEN "ignored" ELSE "processed"

Reviewed == [worker EXCEPT !.pc = "planned", !.decision = "needs_review", !.stale = TRUE]

\* The state read back is planned as the projection's next revision, unless it
\* hashes to what the projection was made of: the hash covers the invoices, items
\* and pending updates, too, that the outgoing event does not tell.  Only this
\* worker writes the projection, so both reads are one step.  An offer that the
\* subscription may not have sends the event to review.
Plan ==
  LET e == Handled
      c == receipt[e].connection
      stale == ~Newer(e) \/ projection.state = subscription
  IN
  /\ Retrievable(e, c) /\ event[e].kind = "subscription" /\ mapped /\ c = Seller
  /\ worker' \in {Reviewed, [worker EXCEPT !.pc = "planned", !.stale = stale,
                              !.seen = subscription, !.decision = Decision(stale)]}
  /\ UNCHANGED <<registryVars, stripeVars, receipt, ingress, stream, mapped,
                 projection, outbox, relayVars, givenUp, redeliveries>>

\* No mapping: an object that names no checkout is ignored, of one that does
\* the checkout's command may not have recorded it yet.
Unmapped == [worker EXCEPT !.pc = "planned", !.decision = "ignored_unmapped",
               !.stale = TRUE]
PlanUnmapped ==
  LET e == Handled
      c == receipt[e].connection
  IN
  /\ Retrievable(e, c) /\ event[e].kind = "subscription"
  /\ ~mapped \/ c # Seller
  /\ \/ e \notin Hinted /\ worker' = Unmapped
     \/ /\ e \in Hinted
        /\ worker' = IF worker.attempts + 1 < MaxMappingTries
                     THEN [worker EXCEPT !.pc = "unmapped"] ELSE Reviewed
  /\ UNCHANGED <<registryVars, stripeVars, receipt, ingress, stream, mapped,
                 projection, outbox, relayVars, givenUp, redeliveries>>

StillClaimed(e) ==
  /\ ingress[e].status = "processing" /\ ingress[e].revision = worker.revision
  /\ receipt[e].status = "processing" /\ receipt[e].revision = worker.revision

\* The new record follows the old one in the stream, which is acknowledged, or
\* tried again when the invocation dies after its write.
RetryIngress ==
  LET e == Handled
      next == Record(e, ingress[e].revision + 1, ingress[e].attempts)
  IN
  /\ worker.pc = "unmapped" /\ StillClaimed(e)
  /\ ingress' = [ingress EXCEPT ![e].status = "pending", ![e].revision = @ + 1]
  /\ receipt' = [receipt EXCEPT ![e].status = "failed", ![e].revision = @ + 1]
  /\ worker' = IdleWorker
  /\ stream' \in {Append(stream, next), Append(Tail(stream), next)}
  /\ UNCHANGED <<registryVars, stripeVars, mapped, projection, outbox, relayVars,
                 givenUp, redeliveries>>

\* One transaction: both records, the projection and the outgoing event.  The
\* invocation may die after it.
CompleteIngress ==
  LET e == Handled
      revision == projection.revision + 1
  IN
  /\ worker.pc = "planned" /\ StillClaimed(e)
  /\ ingress' = [ingress EXCEPT ![e].status = "processed", ![e].revision = @ + 1]
  /\ receipt' = [receipt EXCEPT ![e].status = worker.decision, ![e].revision = @ + 1]
  /\ IF worker.stale THEN UNCHANGED <<projection, outbox, outgoing>>
     ELSE /\ Newer(e) /\ outbox[e].status = "none"
          /\ projection' = [revision |-> revision, state |-> worker.seen,
                            created |-> event[e].created, event |-> e]
          /\ outbox' = [outbox EXCEPT ![e] =
               [status |-> "pending", sourceRevision |-> revision,
                tells |-> Told[worker.seen]]]
          /\ outgoing' = Append(outgoing, e)
  /\ \/ NextRecord /\ UNCHANGED givenUp
     \/ FailRecord
  /\ UNCHANGED <<registryVars, stripeVars, mapped, relay, published, undelivered,
                 redeliveries>>

\* A step is refused or the invocation dies.
WorkerFails ==
  /\ worker.pc # "idle"
  /\ FailRecord
  /\ UNCHANGED <<registryVars, stripeVars, receipt, ingress, mapped, projection,
                 outbox, relayVars, redeliveries>>

\* The checkout's command records its mapping.
RecordMapping ==
  /\ ~mapped
  /\ mapped' = TRUE
  /\ UNCHANGED <<registryVars, stripeVars, receipt, ingress, workerVars, projection,
                 outbox, relayVars, givenUp, redeliveries>>

-----------------------------------------------------------------------------
(* The outbox relay, fed by a stream like the worker's.  It claims the record, *)
(* publishes the event and marks it delivered; an invocation that dies between *)
(* two of these is retried from the claim, or the stream gives the record up.  *)

Sending == Head(outgoing)

RelayChanges(next) ==
  /\ relay' = next
  /\ UNCHANGED <<registryVars, stripeVars, receipt, ingress, workerVars, mapped,
                 projection, givenUp, redeliveries>>

\* The same stream record claims what an earlier attempt had claimed.
ClaimDelivery ==
  /\ outgoing # <<>> /\ relay = "idle"
  /\ outbox[Sending].status \in {"pending", "delivering"}
  /\ outbox' = [outbox EXCEPT ![Sending].status = "delivering"]
  /\ RelayChanges("claimed")
  /\ UNCHANGED <<outgoing, published, undelivered>>

\* The invocation that marked the event delivered died before it ended.
SkipDelivered ==
  /\ outgoing # <<>> /\ relay = "idle" /\ outbox[Sending].status = "delivered"
  /\ outgoing' = Tail(outgoing)
  /\ RelayChanges("idle")
  /\ UNCHANGED <<outbox, published, undelivered>>

Publish ==
  /\ relay = "claimed"
  /\ published' = published \cup {Sending}
  /\ RelayChanges("published")
  /\ UNCHANGED <<outbox, outgoing, undelivered>>

MarkableOnceClaimed == relay \in {"claimed", "published"}
Markable == relay = "published"

MarkDelivered ==
  /\ Markable /\ outbox[Sending].status = "delivering"
  /\ outbox' = [outbox EXCEPT ![Sending].status = "delivered"]
  /\ outgoing' \in {outgoing, Tail(outgoing)}
  /\ RelayChanges("idle")
  /\ UNCHANGED <<published, undelivered>>

\* A call fails or the invocation dies; a publication may have come through.
RelayFails ==
  /\ outgoing # <<>>
  /\ \/ UNCHANGED <<outgoing, undelivered>>
     \/ /\ outgoing' = Tail(outgoing)
        /\ undelivered' = undelivered \cup {Sending}
  /\ RelayChanges("idle")
  /\ UNCHANGED <<outbox, published>>

-----------------------------------------------------------------------------
\* The seller's connection was registered, bound and activated before.
PipelineInit ==
  /\ conn = [c \in Connections |->
       IF c = Seller
       THEN [status |-> "active", revision |-> 3, account |-> Account,
             ready |-> TRUE, credential |-> NoCredential]
       ELSE Unregistered]
  /\ claim = [a \in Accounts |-> IF a = Account THEN Seller ELSE NoConnection]
  /\ unbound = {} /\ isolation = {}
  /\ visit = [t \in Tokens |-> NoVisit]
  /\ revocation = NoRevocation
  /\ granted = {Account}
  /\ made = [c \in Controller |-> {}]
  /\ lost = {}
  /\ clock = 0 /\ subscription = "active"
  /\ event = [e \in Events |-> NotEmitted]
  /\ latest = NoEvent
  /\ fresh = {}
  /\ receipt = [e \in Events |-> NoReceipt]
  /\ ingress = [e \in Events |-> NoIngress]
  /\ stream = <<>> /\ worker = IdleWorker
  /\ mapped = FALSE
  /\ projection = NoProjection
  /\ outbox = [e \in Events |-> NoEnvelope]
  /\ outgoing = <<>> /\ relay = "idle"
  /\ published = {} /\ undelivered = {}
  /\ givenUp = {}
  /\ redeliveries = 0

Stripes ==
  \/ \E e \in Events, state \in States : Change(e, state) /\ UNCHANGED granted
  \/ \E e \in Events : Revoked(e, Account)

Worker ==
  \/ ClaimIngress \/ RetrieveRevoked \/ DisableRevoked \/ Plan \/ PlanUnmapped
  \/ RetryIngress \/ CompleteIngress \/ WorkerFails

Relay ==
  \/ ClaimDelivery \/ SkipDelivered \/ Publish \/ MarkDelivered \/ RelayFails

Next ==
  \/ RegistryNext /\ UNCHANGED pipelineVars
  \/ /\ Stripes
     /\ UNCHANGED <<conn, claim, unbound, isolation, visit, revocation, made, lost,
                    receipt, ingress, workerVars, mapped, projection, outbox,
                    relayVars, givenUp, redeliveries>>
  \/ \E e \in Events : Deliver(e)
  \/ Worker \/ RecordMapping \/ Relay

Spec == PipelineInit /\ [][Next]_allVars

-----------------------------------------------------------------------------
(* What makes the pipeline correct *)

\* Every record keeps its shape.
TypeOK ==
  /\ receipt \in [Events ->
       [status : {"none", "received", "processing", "failed"} \cup Terminal,
        revision : Nat, connection : Stripe \cup {NoConnection}]]
  /\ ingress \in [Events ->
       [status : {"none", "pending", "processing", "processed"},
        revision : Nat, attempts : Nat]]
  /\ worker.pc \in {"idle", "claimed", "retrieved", "unmapped", "planned"}
  /\ projection \in [revision : 0..Cardinality(Events), state : States \cup {"none"},
                     created : 0..MaxClock, event : Events \cup {0}]
  /\ fresh \in SUBSET Events
  /\ outbox \in [Events ->
       [status : {"none", "pending", "delivering", "delivered"},
        sourceRevision : 0..Cardinality(Events), tells : Tellings \cup {"none"}]]
  /\ relay \in {"idle", "claimed", "published"}

\* The receipt and the ingress record of an event, written by five different
\* transactions, always tell the same stage at the same revision.
ReceiptsAgree ==
  \A e \in Events :
    /\ receipt[e].revision = ingress[e].revision
    /\ <<ingress[e].status, receipt[e].status>> \in
         {<<"none", "none">>, <<"pending", "received">>, <<"pending", "failed">>,
          <<"processing", "processing">>} \cup ({"processed"} \X Terminal)

\* An accepted event that is not settled has a record in the stream that a
\* worker will be able to claim, or claim again, unless the stream gave it up:
\* no crash, redelivery or retry leaves an event that nothing processes.
NothingStranded ==
  \A e \in Events :
    ingress[e].status \in {"pending", "processing"} /\ e \notin givenUp =>
      \E i \in DOMAIN stream :
        stream[i].event = e /\ (Claimable(stream[i]) \/ Claimed(stream[i]))

\* tests/test_stripe_webhook_store.py:94 expects an exact duplicate to reactivate
\* incomplete work: what the stream has given up while it was being processed
\* is taken up again when Stripe delivers the event once more.
DuplicateReactivates ==
  \A e \in givenUp :
    ingress[e].status = "processing" => Redeliverable(e, receipt[e].connection)

\* A settled event stays as it is: neither Stripe's redelivery nor a worker
\* with an older claim processes it a second time.
SettledOnce ==
  [][\A e \in Events : ingress[e].status = "processed" =>
       ingress'[e] = ingress[e] /\ receipt'[e] = receipt[e]]_<<ingress, receipt>>

Sold(e) == event[e].kind = "subscription"

\* Once every change of the subscription has been processed, in whatever order
\* the events came, the projection shows its state at Stripe, unless the last
\* change shares its second with another event of a greater id, or an event was
\* ignored for want of a mapping.
ProjectionCurrent ==
  /\ latest # NoEvent
  /\ \A e \in Events : Sold(e) => receipt[e].status \in {"processed", "ignored"}
  /\ \A e \in Events : Sold(e) /\ e > latest => event[e].created < event[latest].created
  => projection.state = subscription

\* However the relay dies between its calls, an outgoing event is marked
\* delivered only after the topic was sent it, waits in the stream until then
\* unless the stream gave it up, and is not sent again once it is marked.
OutboxRelayed ==
  /\ \A e \in Events :
       /\ outbox[e].status = "delivered" => e \in published
       /\ outbox[e].status \in {"pending", "delivering"} /\ e \notin undelivered =>
            \E i \in DOMAIN outgoing : outgoing[i] = e
  /\ relay = "claimed" => outbox[Sending].status # "delivered"

\* A deauthorisation is settled as processed only when its connection has lost
\* the account, however often the worker died between the two steps.
DeauthorizationHolds ==
  \A e \in Events :
    event[e].kind = "deauthorized" /\ receipt[e].status = "processed" =>
      conn[receipt[e].connection].account = NoAccount

\* What a consumer of the subscription's events is promised, see
\* SubscriptionLog: the outgoing event of source revision n is its n-th entry.
EventOf(revision) == CHOOSE e \in Events : outbox[e].sourceRevision = revision
Entry(e) == [event |-> e, created |-> event[e].created, tells |-> outbox[e].tells]
eventLog == [n \in 1..projection.revision |-> Entry(EventOf(n))]
Log == INSTANCE SubscriptionLog WITH log <- eventLog

\* The projection and the outgoing events are such a log: one event for every
\* revision, none skipped or reused, older events never after newer ones, and no
\* state from before a cancellation after it, though each is read back later
\* than its event and in the order the deliveries happen to come.
ImplementsLog == Log!Spec
=============================================================================
