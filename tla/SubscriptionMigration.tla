------------------------ MODULE SubscriptionMigration ------------------------
(***************************************************************************)
(* One bulk subscription migration, from the accepted execute command to   *)
(* its end: the queue workers that claim, mutate and settle its items, the *)
(* operator's pause / resume / cancel, the cancellation that undoes what   *)
(* was done, the Stripe webhooks that settle pending updates, and the      *)
(* DynamoDB records all of them share.                                     *)
(*                                                                         *)
(* Every DynamoDB transaction is one step; what a handler read before it   *)
(* is kept in the handler's own state, so that the conditional writes of   *)
(* the code are the only protection the model has.                         *)
(***************************************************************************)
EXTENDS Integers, FiniteSets

CONSTANTS
  Items,          \* the subscriptions of the job
  Workers,        \* concurrent invocations of the queue worker
  Slots,          \* the provider account's mutation slots (accountConcurrency)
  CanarySize,     \* items the first batch may claim before an approval
  MaxAttempts,    \* _MAX_ATTEMPTS, 5 in the code
  MaxBatch,       \* _MAX_BATCH: items one cancellation pass lists, 25 in the code
  Policy,         \* "next_renewal" or "immediate_prorated"
  Faults,         \* how a provider call may fail: transiently, or for good
  ForeignJobs,    \* TRUE: another job of the account competes for the slots
  IndexLag,       \* TRUE: the work index may show earlier versions of an item
  ExternalSubs,   \* subscriptions somebody else also updates in Stripe
  OwnSchedules,   \* subscriptions that had a schedule before the migration
  MaxRevision,    \* bound: operator commands stop at this job revision
  MaxMessages,    \* bound: queue messages told apart
  MaxFailures,    \* bound: invocations that die, and sends the queue refuses
  NoItem, NoSlot, OtherJob, NoView

ASSUME BoundsAssumption ==
  /\ CanarySize \in Nat \ {0}
  /\ MaxAttempts \in Nat \ {0}
  /\ MaxBatch \in Nat \ {0}
  /\ MaxRevision \in Nat
  /\ MaxMessages \in Nat \ {0}
  /\ MaxFailures \in Nat

ASSUME SetsAssumption ==
  /\ IsFiniteSet(Items) /\ IsFiniteSet(Workers) /\ IsFiniteSet(Slots)
  /\ NoItem \notin Items /\ OtherJob \notin Items /\ NoItem # OtherJob
  /\ NoSlot \notin Slots
  /\ ExternalSubs \subseteq Items /\ OwnSchedules \subseteq Items

ASSUME ChoicesAssumption ==
  /\ Policy \in {"next_renewal", "immediate_prorated"}
  /\ Faults \subseteq {"retryable_failure", "needs_review"}
  /\ ForeignJobs \in BOOLEAN /\ IndexLag \in BOOLEAN

VARIABLES
  job,       \* the SubscriptionMigrationJob record: state, revision, counters
  item,      \* [Items -> the SubscriptionMigrationItem record, see Version]
  slot,      \* [Slots -> the MigrationAccountMutationSlot record]
  worker,    \* [Workers -> the local state of a running invocation]
  provider,  \* [Items -> what Stripe holds for the subscription, see Reached]
  touched,   \* history: items whose subscription a worker's call changed
  events,    \* Stripe webhook deliveries not yet acknowledged
  hook,      \* the webhook invocation reconciling a delivery
  queue,     \* messages in the migration queue, in flight ones included
  owed,      \* a control command answered "pending": its caller replays it
  failures   \* invocations that died and sends that were refused so far

vars == <<job, item, slot, worker, provider, touched, events, hook, queue,
          owed, failures>>

-----------------------------------------------------------------------------
(* Item states, and how the counters of the job group them.  The two       *)
(* states pending_payment and pending_customer_action, which no code tells *)
(* apart, are "awaiting_provider"; nothing assigns permanent_failure.      *)

PendingStates == {"pending", "applying", "retryable_failure", "awaiting_provider"}
AppliedStates == {"applied", "pending_update_applied"}
UndoneStates  == {"reverted", "skipped"}
ReviewStates  == {"pending_update_expired", "needs_review"}
ItemStates    == PendingStates \cup AppliedStates \cup UndoneStates \cup ReviewStates

AppliedBucket   == AppliedStates \cup UndoneStates
TerminalStates  == AppliedBucket \cup ReviewStates
CancelTerminal  == UndoneStates \cup ReviewStates
WorkStates      == PendingStates \cup {"applied"}
Finishable      == WorkStates \cup {"pending_update_applied", "pending_update_expired"}
ClaimableStates == {"pending", "retryable_failure", "applying"}

ClosedJobStates == {"completed", "completed_with_errors", "canceled"}
CancelStates    == {"cancel_requested", "canceling"}
JobStates       == {"scheduled", "running", "paused"} \cup CancelStates
                     \cup ClosedJobStates

ItemsIn(S) == {i \in Items : item[i].state \in S}

NextRenewal == Policy = "next_renewal"

Bit(p) == IF p THEN 1 ELSE 0

(* What load_job accepts: every reader of the job fails on any other record. *)
RecordValid(j) ==
  /\ j.pending \in Nat /\ j.applied \in Nat /\ j.needsReview \in Nat
  /\ j.pending + j.applied + j.needsReview = Cardinality(Items)
  /\ j.canaryClaims \in 0..CanarySize
  /\ j.canaryCompleted \in 0..j.canaryClaims
  /\ j.awaiting \in 0..j.pending
  /\ j.appliedItems \in 0..j.applied
  /\ j.remaining \in 0..Cardinality(Items)
  /\ j.remaining = IF j.state = "canceling" THEN j.pending + j.appliedItems ELSE 0
  /\ j.state = "canceled" => j.appliedItems = 0
  /\ j.state \in ClosedJobStates => j.pending = 0
  /\ j.state = "completed" => j.needsReview = 0
  /\ j.state = "completed_with_errors" => j.needsReview > 0
  /\ j.mutationStarted => j.canaryClaims > 0
  /\ ~(j.canaryApproved /\ j.approvalRequired)

(* The job as it must be written with an item that moves from it.state to  *)
(* the state new.                                                          *)
Metrics(j, it, new) ==
  LET Moved(S) == Bit(new \in S) - Bit(it.state \in S)
      Ended(S) == Bit(it.state \notin S /\ new \in S)
  IN [j EXCEPT
        !.pending         = @ + Moved(PendingStates),
        !.applied         = @ + Moved(AppliedBucket),
        !.needsReview     = @ + Moved(ReviewStates),
        !.awaiting        = @ + Moved({"awaiting_provider"}),
        !.appliedItems    = @ + Moved(AppliedStates),
        !.canaryCompleted = @ + (IF it.canary THEN Ended(TerminalStates) ELSE 0),
        !.remaining       = @ - (IF j.state = "canceling"
                                 THEN Ended(CancelTerminal) ELSE 0)]

(* MigrationWorkIndex, which lists the items by state, is read without      *)
(* ConsistentRead: a listing may show a version the item had before.  So an *)
(* item carries, beside its record, the versions it had (past), and, for    *)
(* the properties, whether a cancellation that acted on such an outdated    *)
(* version wrote it (misread).  An index look shows one version of each.    *)
Version(it, old) ==
  [state |-> it.state, attempts |-> it.attempts, undo |-> it.undo, old |-> old]
Earlier(it) == IF IndexLag THEN it.past \cup {Version(it, TRUE)} ELSE {}
Shown(i)    == {Version(item[i], FALSE)} \cup item[i].past
Looks       == {look \in [Items -> UNION {Shown(i) : i \in Items}] :
                  \A i \in Items : look[i] \in Shown(i)}
SeenIn(look, S) == {i \in Items : look[i].state \in S}

(* _finish_item clears the lease and writes the item whole. *)
Settled(it, new, undo) ==
  [it EXCEPT !.state = new, !.lease = "none", !.slot = NoSlot, !.undo = undo,
             !.past = Earlier(it)]

FreeSlot == [owner |-> NoItem, live |-> FALSE]

(* The transaction deletes the slot record the item names, and fails when  *)
(* that record is gone or has another owner.                               *)
OwnsSlot(i) == item[i].slot # NoSlot => slot[item[i].slot].owner = i
SlotsWithout(i) == [s \in Slots |-> IF s = item[i].slot THEN FreeSlot ELSE slot[s]]

(* Message contents do not matter (a worker reads the job's state anew), so *)
(* the queue is a number; it tells at most MaxMessages messages apart.      *)
Send == queue' = IF queue < MaxMessages THEN queue + 1 ELSE queue
Acknowledge == queue' = queue - 1

-----------------------------------------------------------------------------
(* A worker's local state: the batch it claimed or listed (todo), the item *)
(* it is settling (cur, res, guarded: the write is inside the try whose    *)
(* handler turns any failure into needs_review), what it read before the   *)
(* conditional write (view), the items its listing showed outdated, and    *)
(* whether a cancellation must be resumed (wait).                          *)

NoTask == [kind |-> "none", n |-> 0]
Idle == [pc |-> "idle", mode |-> "none", rev |-> 0, first |-> FALSE,
         todo |-> [i \in Items |-> NoTask], outdated |-> {}, wait |-> FALSE,
         cur |-> NoItem, res |-> "none", guarded |-> FALSE, view |-> NoView]
IdleHook == [pc |-> "idle", item |-> NoItem, kind |-> "none", target |-> "none",
             attempts |-> 0, canceling |-> FALSE]

Holds(w, i) == worker[w].todo[i].kind = "apply"
Claimed(w)  == {i \in Items : Holds(w, i)}
NothingLeft(w) == worker[w].cur = NoItem /\ \A i \in Items : worker[w].todo[i] = NoTask
TaskDone(w) == [worker[w] EXCEPT
                  !.pc = "work", !.cur = NoItem, !.res = "none", !.guarded = FALSE,
                  !.view = NoView, !.todo[worker[w].cur] = NoTask]

(* The dry run left each item pending, or in needs_review when it found it *)
(* unsupported; the execute command scheduled the job and queued a message. *)
Init ==
  \E rejected \in SUBSET Items :
    /\ item = [i \in Items |->
                 [state |-> IF i \in rejected THEN "needs_review" ELSE "pending",
                  attempts |-> 0, lease |-> "none", slot |-> NoSlot,
                  canary |-> FALSE, undo |-> 0, past |-> {}, misread |-> FALSE]]
    /\ job = [state |-> "scheduled", revision |-> 1,
              pending |-> Cardinality(Items \ rejected), applied |-> 0,
              needsReview |-> Cardinality(rejected), awaiting |-> 0,
              appliedItems |-> 0, remaining |-> 0, mutationStarted |-> FALSE,
              canaryClaims |-> 0, canaryCompleted |-> 0,
              canaryApproved |-> FALSE, approvalRequired |-> FALSE]
    /\ slot = [s \in Slots |-> FreeSlot]
    /\ worker = [w \in Workers |-> Idle]
    /\ provider = [i \in Items |-> "source"]
    /\ touched = {} /\ events = {} /\ hook = IdleHook
    /\ queue = 1 /\ owed = FALSE /\ failures = 0

-----------------------------------------------------------------------------
(* Receiving a message.  SQS hides it while a worker has it; it is deleted  *)
(* when the invocation succeeds and delivered again when it fails.          *)

Busy == {w \in Workers : worker[w].pc # "idle"}

Receives(w) ==
  /\ worker[w].pc = "idle"
  /\ Cardinality(Busy) < queue
  /\ RecordValid(job)

ReceiveStale(w) ==
  /\ Receives(w)
  /\ job.state \in ClosedJobStates \cup {"paused"}
  /\ Acknowledge
  /\ UNCHANGED <<job, item, slot, worker, provider, touched, events, hook, owed, failures>>

ReceiveExecute(w) ==
  /\ Receives(w)
  /\ job.state \in {"scheduled", "running"}
  /\ LET started == IF job.state = "running" THEN job
                    ELSE [job EXCEPT !.state = "running", !.revision = @ + 1]
     IN /\ job' = started
        /\ worker' = [worker EXCEPT ![w] =
             [Idle EXCEPT !.pc = "claim", !.mode = "execute",
                          !.rev = started.revision, !.first = ~started.mutationStarted]]
  /\ UNCHANGED <<item, slot, provider, touched, events, hook, queue, owed, failures>>

-----------------------------------------------------------------------------
(* claim_items: one transaction per item takes a slot, the item's lease and, *)
(* in the first batch, a place in the canary.                                *)

ReconcileOnlyNever(i) == FALSE
ReconcileOnly(i) == item[i].state = "applying" /\ item[i].attempts = MaxAttempts

ClaimableUnderLease(i) == item[i].state \in ClaimableStates
ClaimableWhenApplied(i) ==
  /\ item[i].state \in WorkStates
  /\ item[i].state = "applying" => item[i].lease = "expired"
Claimable(i) ==
  /\ item[i].state \in ClaimableStates
  /\ item[i].state = "applying" => item[i].lease = "expired"

CanaryOpen == ~job.mutationStarted /\ job.canaryClaims < CanarySize
BulkOpenUnapproved == job.mutationStarted
BulkOpen == job.mutationStarted /\ job.canaryApproved

Claim(w, i, s) ==
  LET me == worker[w]
      canary == me.first /\ ~ReconcileOnly(i)
      attempt == IF ReconcileOnly(i) THEN MaxAttempts ELSE item[i].attempts + 1
  IN /\ me.pc = "claim"
     /\ Cardinality(Claimed(w)) < IF me.first THEN CanarySize ELSE Cardinality(Slots)
     /\ RecordValid(job) /\ job.state = "running" /\ job.revision = me.rev
     /\ Claimable(i) /\ attempt <= MaxAttempts
     /\ ~slot[s].live
     /\ IF canary
        THEN /\ CanaryOpen
             /\ job' = [job EXCEPT
                          !.canaryClaims = @ + 1,
                          !.mutationStarted = job.canaryClaims + 1 >= CanarySize]
        ELSE BulkOpen /\ UNCHANGED job
     /\ item' = [item EXCEPT ![i] =
          [@ EXCEPT !.state = "applying", !.attempts = attempt, !.lease = "live",
                    !.slot = s, !.past = Earlier(item[i]),
                    !.canary = IF ReconcileOnly(i) THEN item[i].canary ELSE canary]]
     /\ slot' = [slot EXCEPT ![s] = [owner |-> i, live |-> TRUE]]
     /\ worker' = [worker EXCEPT ![w].todo[i] = [kind |-> "apply", n |-> attempt]]
     /\ UNCHANGED <<provider, touched, events, hook, queue, owed, failures>>

(* A claim that is not due yet, or loses its transaction, is passed over. *)
EndClaim(w) ==
  /\ worker[w].pc = "claim"
  /\ RecordValid(job)
  /\ worker' = [worker EXCEPT ![w].pc = "work"]
  /\ UNCHANGED <<job, item, slot, provider, touched, events, hook, queue, owed, failures>>

-----------------------------------------------------------------------------
(* _apply_item: what Stripe may answer, [to |-> its state afterwards,       *)
(* res |-> the item state the worker decides on].  A subscription is at its *)
(* "source" price, "scheduled" to change at its renewal, "renewed" by that  *)
(* schedule, at the "target" price without it, "paying" (its pending update *)
(* awaits the customer), or changed by somebody else ("other").             *)

Reached(p) ==
  IF p # "source" THEN {} ELSE IF NextRenewal THEN {"scheduled"} ELSE {"target", "paying"}

ApplyOutcomes(p) ==
  {[to |-> q, res |-> IF q = "paying" THEN "awaiting_provider" ELSE "applied"]
     : q \in Reached(p)}
  \cup (IF NextRenewal /\ p = "scheduled" THEN {[to |-> p, res |-> "applied"]} ELSE {})
  \cup (IF p # "source" THEN {[to |-> p, res |-> "needs_review"]} ELSE {})
  \cup {[to |-> q, res |-> f] : q \in Reached(p) \cup {p}, f \in Faults}

ApplyItem(w, i) ==
  /\ worker[w].pc = "work" /\ worker[w].cur = NoItem /\ Holds(w, i)
  /\ \E out \in ApplyOutcomes(provider[i]) :
       LET exhausted == out.res = "retryable_failure" /\ worker[w].todo[i].n >= MaxAttempts
       IN /\ provider' = [provider EXCEPT ![i] = out.to]
          /\ touched' = IF out.to # provider[i] THEN touched \cup {i} ELSE touched
          /\ worker' = [worker EXCEPT ![w] =
               [@ EXCEPT !.pc = "finish", !.cur = i,
                         !.res = IF exhausted THEN "needs_review" ELSE out.res,
                         !.guarded = out.res \in {"applied", "awaiting_provider"}]]
  /\ UNCHANGED <<job, item, slot, events, hook, queue, owed, failures>>

-----------------------------------------------------------------------------
(* _cancel: begin_cancel, then the list of the items still to be undone.    *)
(* The list is taken state by state and ends at MaxBatch items.  A listed   *)
(* item under a live lease, or whose retry is not due, is left for the next *)
(* message; the others keep what the listing showed of them.  Of a version  *)
(* the item no longer has, the lease may be over or not.                    *)

Rank(v) ==
  CASE v.state = "applying" -> 1
    [] v.state = "retryable_failure" -> 2
    [] v.state = "awaiting_provider" -> 3
    [] v.state = "applied" -> 4
    [] v.state = "pending" -> 5

Listings(look) ==
  LET work == SeenIn(look, WorkStates)
  IN {L \in SUBSET work :
        /\ Cardinality(L) = MaxBatch \/ (L = work /\ Cardinality(work) < MaxBatch)
        /\ \A i \in L, k \in work \ L : Rank(look[i]) <= Rank(look[k])}

UnderLease(i, v) == v.state = "applying" /\ ~v.old /\ item[i].lease = "live"
UndoTaskSkippingAwaited(v) ==
  [kind |-> IF v.state \in {"pending", "awaiting_provider"} THEN "skip"
            ELSE IF v.state = "applied" THEN "release" ELSE "inspect",
   n |-> v.undo]
UndoTask(v) ==
  [kind |-> IF v.state = "pending" THEN "skip"
            ELSE IF v.state = "applied" THEN "release" ELSE "inspect",
   n |-> v.undo]

CancelTaskIgnoringLeases(i, v, late) == IF i \in late THEN NoTask ELSE UndoTask(v)
CancelTaskSkippingRetries(i, v, late) ==
  IF i \in late \/ UnderLease(i, v) THEN NoTask
  ELSE IF v.state = "retryable_failure" THEN [UndoTask(v) EXCEPT !.kind = "skip"]
  ELSE UndoTask(v)
CancelTask(i, v, late) == IF i \in late \/ UnderLease(i, v) THEN NoTask ELSE UndoTask(v)

NotDue(look) ==
  {i \in SeenIn(look, WorkStates) :
     look[i].undo > 0 \/ (look[i].state = "applying" /\ look[i].old)}

BeginCancelPendingOnly(j) ==
  [j EXCEPT !.state = "canceling", !.revision = @ + 1, !.remaining = j.pending]
BeginCancel(j) ==
  [j EXCEPT !.state = "canceling", !.revision = @ + 1,
            !.remaining = j.pending + j.appliedItems]

CancelPass(listed, late, look) ==
  LET todo == [i \in Items |-> IF i \in listed THEN CancelTask(i, look[i], late) ELSE NoTask]
  IN [Idle EXCEPT !.pc = "work", !.mode = "cancel", !.todo = todo,
                  !.outdated = {i \in listed : look[i].old},
                  !.wait = \E i \in listed : todo[i] = NoTask]

ReceiveCancel(w, late) ==
  /\ Receives(w)
  /\ job.state \in CancelStates
  /\ job' = IF job.state = "canceling" THEN job ELSE BeginCancel(job)
  /\ \E look \in Looks :
       /\ late \subseteq NotDue(look)
       /\ \E listed \in Listings(look) :
            worker' = [worker EXCEPT ![w] = CancelPass(listed, late, look)]
  /\ UNCHANGED <<item, slot, provider, touched, events, hook, queue, owed, failures>>

SkipPending(w, i) ==
  /\ worker[w].pc = "work" /\ worker[w].cur = NoItem
  /\ worker[w].todo[i].kind = "skip"
  /\ worker' = [worker EXCEPT ![w] =
                  [@ EXCEPT !.pc = "finish", !.cur = i, !.res = "skipped"]]
  /\ UNCHANGED <<job, item, slot, provider, touched, events, hook, queue, owed, failures>>

(* _cancel_item: only an item the listing showed as applied carries the     *)
(* rollback guard that allows its schedule to be given up.  The guard holds *)
(* across a renewal.  A schedule this job made is released, which leaves the *)
(* price as it is; one the subscription had before is restored, unless its  *)
(* renewal led to a phase it did not have.                                  *)
Attached(p) == p \in {"scheduled", "renewed"}
GivenUp(i) == IF provider[i] = "renewed" /\ i \notin OwnSchedules THEN "target" ELSE "source"

UndoOutcomesUnguarded(i, kind) ==
  {[to |-> provider[i], res |-> "reverted", guarded |-> TRUE]}
UndoOutcomes(i, kind) ==
  LET p == provider[i]
      owned == i \in OwnSchedules /\ p \in {"source", "other"}
      faulty == {[to |-> p, res |-> f, guarded |-> FALSE] : f \in Faults}
      released == {[to |-> GivenUp(i), res |-> r, guarded |-> r = "reverted"]
                     : r \in {"reverted"} \cup Faults}
      refused == {[to |-> p, res |-> "needs_review", guarded |-> FALSE]}
      found == {[to |-> p, res |-> IF p = "source" THEN "reverted" ELSE "needs_review",
                 guarded |-> TRUE]}
  IN faulty \cup
     IF Attached(p) /\ kind = "release"
     THEN released \cup (IF p = "renewed" /\ i \in OwnSchedules THEN refused ELSE {})
     ELSE IF Attached(p) \/ owned THEN refused ELSE found

UndoItem(w, i) ==
  /\ worker[w].pc = "work" /\ worker[w].cur = NoItem
  /\ worker[w].todo[i].kind \in {"release", "inspect"}
  /\ provider[i] # "paying"
  /\ \E out \in UndoOutcomes(i, worker[w].todo[i].kind) :
       /\ provider' = [provider EXCEPT ![i] = out.to]
       /\ worker' = [worker EXCEPT ![w] =
            [@ EXCEPT !.pc = "finish", !.cur = i, !.res = out.res,
                      !.guarded = out.guarded]]
  /\ UNCHANGED <<job, item, slot, touched, events, hook, queue, owed, failures>>

(* A subscription with a pending update is looked at again later. *)
AwaitPendingUpdate(w, i) ==
  /\ worker[w].pc = "work" /\ worker[w].cur = NoItem
  /\ worker[w].todo[i].kind \in {"release", "inspect"}
  /\ provider[i] = "paying"
  /\ worker' = [worker EXCEPT ![w] = [@ EXCEPT !.wait = TRUE, !.todo[i] = NoTask]]
  /\ UNCHANGED <<job, item, slot, provider, touched, events, hook, queue, owed, failures>>

-----------------------------------------------------------------------------
(* _finish_item under complete_item, retry_item, complete_cancellation_item *)
(* and retry_cancellation_item: read the job and the item, then one         *)
(* transaction conditional on what was read.                                *)

Retrying(w) == worker[w].mode = "cancel" /\ worker[w].res = "retryable_failure"

(* What _validated_item accepts of the new record: a retry of the           *)
(* cancellation that is due later is only kept in a state to be undone, and *)
(* cannot be added to one that must have a lease or a due time of its own.  *)
KeepsUndo(it, new) == it.undo > 0 => new \in WorkStates
TakesUndo(it) == it.state \in WorkStates \ {"applying", "retryable_failure"}

CanLoad(w) ==
  LET me == worker[w]  it == item[me.cur]
  IN /\ RecordValid(job)
     /\ it.state \in Finishable
     /\ me.mode = "execute" => it.attempts = me.todo[me.cur].n /\ KeepsUndo(it, me.res)
     /\ Retrying(w) =>
          /\ job.state = "canceling" /\ it.undo = me.todo[me.cur].n
          /\ it.undo + 1 < MaxAttempts => TakesUndo(it)

LoadItem(w) ==
  LET me == worker[w]  it == item[me.cur]
  IN /\ me.pc = "finish"
     /\ me.mode = "cancel" => it.state \notin CancelTerminal
     /\ CanLoad(w)
     /\ worker' = [worker EXCEPT ![w] = [@ EXCEPT !.pc = "commit",
          !.view = [job |-> job, state |-> it.state, attempts |-> it.attempts,
                    undo |-> it.undo]]]
     /\ UNCHANGED <<job, item, slot, provider, touched, events, hook, queue, owed, failures>>

(* The cancellation finds the item already settled: nothing to write. *)
AlreadySettled(w) ==
  LET me == worker[w]
  IN /\ me.pc = "finish" /\ me.mode = "cancel"
     /\ item[me.cur].state \in CancelTerminal
     /\ Retrying(w) => RecordValid(job) /\ job.state = "canceling"
     /\ worker' = [worker EXCEPT ![w] = TaskDone(w)]
     /\ UNCHANGED <<job, item, slot, provider, touched, events, hook, queue, owed, failures>>

(* Another pass recorded this very retry, due at the same time. *)
RetryRecorded(w) ==
  LET me == worker[w]  it == item[me.cur]
  IN /\ me.pc = "finish" /\ Retrying(w)
     /\ RecordValid(job) /\ job.state = "canceling"
     /\ it.state \notin CancelTerminal /\ it.undo = me.todo[me.cur].n + 1
     /\ worker' = [worker EXCEPT ![w] = [TaskDone(w) EXCEPT !.wait = TRUE]]
     /\ UNCHANGED <<job, item, slot, provider, touched, events, hook, queue, owed, failures>>

UndoCount(w) == IF Retrying(w) THEN worker[w].view.undo + 1 ELSE worker[w].view.undo

TargetNeverExhausted(w) ==
  IF Retrying(w) THEN worker[w].view.state ELSE worker[w].res
Target(w) ==
  IF ~Retrying(w) THEN worker[w].res
  ELSE IF UndoCount(w) < MaxAttempts THEN worker[w].view.state ELSE "needs_review"

Written(w) ==
  LET v == worker[w].view
  IN Metrics(v.job, [item[worker[w].cur] EXCEPT !.state = v.state], Target(w))

UnchangedItemOnly(w) ==
  LET v == worker[w].view  it == item[worker[w].cur]
  IN /\ it.state = v.state /\ it.attempts = v.attempts /\ it.undo = v.undo
     /\ OwnsSlot(worker[w].cur)
Unchanged(w) ==
  LET v == worker[w].view  it == item[worker[w].cur]
  IN /\ it.state = v.state /\ it.attempts = v.attempts /\ it.undo = v.undo
     /\ Written(w) # v.job => job = v.job
     /\ OwnsSlot(worker[w].cur)

(* An item to be tried again keeps the cancellation from ending. *)
TaskSettled(w) ==
  [TaskDone(w) EXCEPT
     !.wait = worker[w].wait \/ (Retrying(w) /\ UndoCount(w) < MaxAttempts)]

CommitItem(w) ==
  LET i == worker[w].cur
  IN /\ worker[w].pc = "commit"
     /\ Unchanged(w)
     /\ item' = [item EXCEPT ![i] =
                   [Settled(item[i], Target(w), UndoCount(w)) EXCEPT
                      !.misread = item[i].misread \/ i \in worker[w].outdated]]
     /\ slot' = SlotsWithout(i)
     /\ job' = IF Written(w) = worker[w].view.job THEN job ELSE Written(w)
     /\ worker' = [worker EXCEPT ![w] = TaskSettled(w)]
     /\ IF worker[w].mode = "execute" /\ Target(w) = "retryable_failure"
        THEN Send ELSE UNCHANGED queue
     /\ UNCHANGED <<provider, touched, events, hook, owed, failures>>

(* The transaction failed, but the item is in the state it was to have. *)
CommitSeen(w) ==
  /\ worker[w].pc = "commit"
  /\ ~Unchanged(w)
  /\ item[worker[w].cur].state = Target(w)
  /\ worker' = [worker EXCEPT ![w] = TaskSettled(w)]
  /\ IF worker[w].mode = "execute" /\ Target(w) = "retryable_failure"
     THEN Send ELSE UNCHANGED queue
  /\ UNCHANGED <<job, item, slot, provider, touched, events, hook, owed, failures>>

(* A store error: a success is recorded as needs_review instead;   *)
(* any other write fails the invocation, and the message comes back.        *)
Conflict(w) ==
  /\ \/ /\ worker[w].pc = "finish"
        /\ ~CanLoad(w)
        /\ worker[w].mode = "cancel" =>
             \/ item[worker[w].cur].state \notin CancelTerminal
             \/ Retrying(w) /\ ~(RecordValid(job) /\ job.state = "canceling")
     \/ /\ worker[w].pc = "commit"
        /\ ~Unchanged(w)
        /\ item[worker[w].cur].state # Target(w)
  /\ worker' = [worker EXCEPT ![w] =
       IF worker[w].guarded
       THEN [@ EXCEPT !.pc = "finish", !.res = "needs_review", !.guarded = FALSE,
                      !.view = NoView]
       ELSE Idle]
  /\ UNCHANGED <<job, item, slot, provider, touched, events, hook, queue, owed, failures>>

-----------------------------------------------------------------------------
(* continue_execution and finalize_cancellation.                            *)

CanaryPause(j) ==
  /\ j.pending > 0 /\ j.mutationStarted /\ ~j.canaryApproved
  /\ j.canaryCompleted >= j.canaryClaims

Continued(j) ==
  IF j.state # "running" THEN j
  ELSE IF CanaryPause(j)
  THEN [j EXCEPT !.state = "paused", !.revision = @ + 1, !.approvalRequired = TRUE]
  ELSE IF j.pending > 0 THEN j
  ELSE [j EXCEPT !.state = IF j.needsReview > 0 THEN "completed_with_errors" ELSE "completed",
                 !.revision = @ + 1, !.approvalRequired = FALSE]

MoreWork(j, look) ==
  /\ j.state = "running" /\ j.pending > 0 /\ ~CanaryPause(j)
  /\ SeenIn(look, ClaimableStates) # {} \/ j.awaiting # j.pending

CanFinalizeAtOnce(j, look) == j.state = "canceling"
CanFinalize(j, look) ==
  /\ j.state = "canceling" /\ j.remaining = 0
  /\ SeenIn(look, WorkStates) = {}

Finalized(j, look) ==
  IF CanFinalize(j, look)
  THEN [j EXCEPT !.state = "canceled", !.revision = @ + 1] ELSE j

Continue(w) ==
  /\ worker[w].pc = "work" /\ worker[w].mode = "execute" /\ NothingLeft(w)
  /\ RecordValid(job)
  /\ job' = Continued(job)
  /\ \E look \in Looks : IF MoreWork(job, look) THEN UNCHANGED queue ELSE Acknowledge
  /\ worker' = [worker EXCEPT ![w] = Idle]
  /\ UNCHANGED <<item, slot, provider, touched, events, hook, owed, failures>>

MustResumeNever(w, look) == FALSE
MustResume(w, look) == worker[w].wait \/ ~CanFinalize(job, look)

CancelDone(w) ==
  /\ worker[w].pc = "work" /\ worker[w].mode = "cancel" /\ NothingLeft(w)
  /\ RecordValid(job)
  /\ \E look \in Looks :
       /\ job' = IF worker[w].wait THEN job ELSE Finalized(job, look)
       /\ IF MustResume(w, look) THEN UNCHANGED queue ELSE Acknowledge
  /\ worker' = [worker EXCEPT ![w] = Idle]
  /\ UNCHANGED <<item, slot, provider, touched, events, hook, owed, failures>>

(* A job record load_job rejects fails every invocation that reads it. *)
Unreadable(w) ==
  /\ ~RecordValid(job)
  /\ worker[w].pc = "claim" \/ (worker[w].pc = "work" /\ NothingLeft(w))
  /\ worker' = [worker EXCEPT ![w] = Idle]
  /\ UNCHANGED <<job, item, slot, provider, touched, events, hook, queue, owed, failures>>

-----------------------------------------------------------------------------
(* The operator: control, and the replay of a command whose message the     *)
(* queue did not take.                                                      *)

Answer ==
  \/ Send /\ UNCHANGED <<owed, failures>>
  \/ failures < MaxFailures /\ failures' = failures + 1 /\ owed' = TRUE /\ UNCHANGED queue

Control(j) ==
  /\ RecordValid(job)
  /\ job.revision < MaxRevision
  /\ job' = [j EXCEPT !.revision = @ + 1]
  /\ Answer
  /\ UNCHANGED <<item, slot, worker, provider, touched, events, hook>>

Pause ==
  /\ job.state \in {"scheduled", "running"}
  /\ Control([job EXCEPT !.state = "paused"])

Resume ==
  /\ job.state = "paused"
  /\ Control([job EXCEPT !.state = "running", !.approvalRequired = FALSE,
                         !.canaryApproved = @ \/ job.approvalRequired])

Cancel ==
  /\ \/ job.state \in {"scheduled", "running", "paused"}
     \/ /\ job.state \in {"completed", "completed_with_errors"} /\ NextRenewal
        /\ \E look \in Looks : SeenIn(look, {"applied"}) # {}
  /\ Control([job EXCEPT !.state = "cancel_requested"])

ReplayCommand ==
  /\ owed
  /\ owed' = FALSE
  /\ Send
  /\ UNCHANGED <<job, item, slot, worker, provider, touched, events, hook, failures>>

-----------------------------------------------------------------------------
(* reconcile_migration_webhook: a pending_update_applied or _expired event, *)
(* reconciled with what Stripe holds for the subscription now.              *)

HookTarget(i, kind) ==
  LET p == provider[i]
      unchanged == p \in {"source", "scheduled"}
      changed == p \in {"target", "renewed"}
  IN IF job.state = "canceling" THEN IF unchanged THEN "reverted" ELSE "needs_review"
     ELSE IF kind = "applied" /\ changed THEN "pending_update_applied"
     ELSE IF kind = "expired" /\ unchanged
     THEN IF item[i].state = "awaiting_provider" THEN "pending_update_expired" ELSE "none"
     ELSE "needs_review"

(* active_migration rejects an open item of a completed job. *)
HookReads(i) ==
  /\ RecordValid(job)
  /\ ~(job.state \in {"completed", "completed_with_errors"}
        /\ item[i].state \notin TerminalStates)

HookIgnores(i, kind) ==
  \/ item[i].state \in {"needs_review", "pending", "skipped"}
  \/ item[i].state = "pending_update_expired" /\ job.state # "canceled"
  \/ provider[i] = "paying"
  \/ HookTarget(i, kind) = "none"
  \/ item[i].state = "reverted" /\ HookTarget(i, kind) # "reverted"

HookIgnore(i, kind) ==
  /\ hook.pc = "idle" /\ <<i, kind>> \in events
  /\ HookReads(i) /\ HookIgnores(i, kind)
  /\ events' = events \ {<<i, kind>>}
  /\ UNCHANGED <<job, item, slot, worker, provider, touched, hook, queue, owed, failures>>

HookDecide(i, kind) ==
  /\ hook.pc = "idle" /\ <<i, kind>> \in events
  /\ HookReads(i) /\ ~HookIgnores(i, kind)
  /\ hook' = [pc |-> IF item[i].state = HookTarget(i, kind) THEN "continue" ELSE "finish",
              item |-> i, kind |-> kind, target |-> HookTarget(i, kind),
              attempts |-> item[i].attempts, canceling |-> job.state = "canceling"]
  /\ UNCHANGED <<job, item, slot, worker, provider, touched, events, queue, owed, failures>>

HookCanFinish ==
  LET i == hook.item
  IN /\ RecordValid(job)
     /\ item[i].state \in Finishable /\ item[i].attempts = hook.attempts
     /\ KeepsUndo(item[i], hook.target)
     /\ OwnsSlot(i)

HookFinish ==
  LET i == hook.item
  IN /\ hook.pc = "finish" /\ HookCanFinish
     /\ item' = [item EXCEPT ![i] = Settled(@, hook.target, @.undo)]
     /\ slot' = SlotsWithout(i)
     /\ job' = Metrics(job, item[i], hook.target)
     /\ hook' = [hook EXCEPT !.pc = "continue"]
     /\ UNCHANGED <<worker, provider, touched, events, queue, owed, failures>>

HookContinue ==
  /\ hook.pc = "continue"
  /\ RecordValid(job)
  /\ \E look \in Looks :
       /\ job' = IF hook.canceling THEN Finalized(job, look) ELSE Continued(job)
       /\ IF ~hook.canceling /\ MoreWork(job, look) THEN Send ELSE UNCHANGED queue
  /\ events' = events \ {<<hook.item, hook.kind>>}
  /\ hook' = IdleHook
  /\ UNCHANGED <<item, slot, worker, provider, touched, owed, failures>>

(* The delivery fails and is made again. *)
HookFail ==
  /\ \/ hook.pc = "finish" /\ ~HookCanFinish
     \/ hook.pc = "continue" /\ ~RecordValid(job)
  /\ hook' = IdleHook
  /\ UNCHANGED <<job, item, slot, worker, provider, touched, events, queue, owed, failures>>

-----------------------------------------------------------------------------
(* The environment: Stripe, another job of the same account, and time.      *)

(* The customer pays, or lets the pending update of this job expire. *)
ProviderSettles(i) ==
  /\ provider[i] = "paying"
  /\ \/ /\ provider' = [provider EXCEPT ![i] = "target"]
        /\ events' = events \cup {<<i, "applied">>}
     \/ /\ provider' = [provider EXCEPT ![i] = "source"]
        /\ events' = events \cup {<<i, "expired">>}
  /\ UNCHANGED <<job, item, slot, worker, touched, hook, queue, owed, failures>>

(* The renewal date passes: the scheduled phase takes effect, then ends. *)
Renewal(i) ==
  /\ Attached(provider[i])
  /\ provider' = [provider EXCEPT ![i] = IF @ = "scheduled" THEN "renewed" ELSE "target"]
  /\ UNCHANGED <<job, item, slot, worker, touched, events, hook, queue, owed, failures>>

(* Somebody else's pending update of the subscription applies or expires. *)
ExternalUpdate(i) ==
  /\ i \in ExternalSubs /\ provider[i] \in {"source", "scheduled"}
  /\ \/ /\ provider' = [provider EXCEPT ![i] = "other"]
        /\ events' = events \cup {<<i, "applied">>}
     \/ /\ events' = events \cup {<<i, "expired">>}
        /\ UNCHANGED provider
  /\ UNCHANGED <<job, item, slot, worker, touched, hook, queue, owed, failures>>

(* A lease (120 s) outlives its holder's invocation (30 s). *)
LeaseExpires(i) ==
  /\ item[i].lease = "live"
  /\ \A w \in Workers : ~Holds(w, i)
  /\ item' = [item EXCEPT ![i].lease = "expired"]
  /\ slot' = [s \in Slots |-> IF slot[s].owner = i THEN [slot[s] EXCEPT !.live = FALSE]
                              ELSE slot[s]]
  /\ UNCHANGED <<job, worker, provider, touched, events, hook, queue, owed, failures>>

ForeignClaim(s) ==
  /\ ForeignJobs /\ ~slot[s].live
  /\ slot' = [slot EXCEPT ![s] = [owner |-> OtherJob, live |-> TRUE]]
  /\ UNCHANGED <<job, item, worker, provider, touched, events, hook, queue, owed, failures>>

ForeignFinish(s) ==
  /\ slot[s].owner = OtherJob
  /\ slot' = [slot EXCEPT ![s] = FreeSlot]
  /\ UNCHANGED <<job, item, worker, provider, touched, events, hook, queue, owed, failures>>

Crash(w) ==
  /\ failures < MaxFailures /\ worker[w].pc # "idle"
  /\ worker' = [worker EXCEPT ![w] = Idle]
  /\ failures' = failures + 1
  /\ UNCHANGED <<job, item, slot, provider, touched, events, hook, queue, owed>>

HookCrash ==
  /\ failures < MaxFailures /\ hook.pc # "idle"
  /\ hook' = IdleHook
  /\ failures' = failures + 1
  /\ UNCHANGED <<job, item, slot, worker, provider, touched, events, queue, owed>>

-----------------------------------------------------------------------------
ClaimStep(w) == \E i \in Items, s \in Slots : Claim(w, i, s)

(* Everything an invocation does of its own accord. *)
WorkerStep(w) ==
  \/ ReceiveStale(w) \/ ReceiveExecute(w)
  \/ \E late \in SUBSET Items : ReceiveCancel(w, late)
  \/ ClaimStep(w) \/ EndClaim(w)
  \/ \E i \in Items : \/ ApplyItem(w, i) \/ SkipPending(w, i)
                      \/ UndoItem(w, i) \/ AwaitPendingUpdate(w, i)
  \/ LoadItem(w) \/ AlreadySettled(w) \/ RetryRecorded(w) \/ CommitItem(w) \/ CommitSeen(w) \/ Conflict(w)
  \/ Continue(w) \/ CancelDone(w) \/ Unreadable(w)

HookStep ==
  \/ \E i \in Items, kind \in {"applied", "expired"} :
       HookIgnore(i, kind) \/ HookDecide(i, kind)
  \/ HookFinish \/ HookContinue \/ HookFail

Operator == Pause \/ Resume \/ Cancel \/ ReplayCommand

Environment ==
  \/ \E i \in Items : ProviderSettles(i) \/ Renewal(i) \/ ExternalUpdate(i) \/ LeaseExpires(i)
  \/ \E s \in Slots : ForeignClaim(s) \/ ForeignFinish(s)
  \/ \E w \in Workers : Crash(w)
  \/ HookCrash

Next == (\E w \in Workers : WorkerStep(w)) \/ HookStep \/ Operator \/ Environment

Spec == Init /\ [][Next]_vars
-----------------------------------------------------------------------------
(* Fairness.  The queue delivers what it holds and an invocation runs on    *)
(* (its time limit is a crash); leases run out; a caller told "pending"     *)
(* replays its command; Stripe settles a pending update and redelivers a    *)
(* webhook.  Operators and the other environment steps owe nothing.  What   *)
(* is due sometimes is claimed, or undone, at last (SF): due times pass.    *)

Fairness ==
  /\ \A w \in Workers : /\ WF_vars(WorkerStep(w))
                          /\ SF_vars(ClaimStep(w))
                          /\ SF_vars(ReceiveCancel(w, {}))
  /\ \A i \in Items : WF_vars(LeaseExpires(i)) /\ WF_vars(ProviderSettles(i))
  /\ WF_vars(ReplayCommand)
  /\ WF_vars(HookStep)

FairSpec == Spec /\ Fairness

(* Stripe does not fail transiently for ever. *)
Answered(w, i) == UndoItem(w, i) /\ worker'[w].res # "retryable_failure"
PatientSpec == FairSpec /\ \A w \in Workers, i \in Items : SF_vars(Answered(w, i))

-----------------------------------------------------------------------------
JobType ==
  [state : JobStates, revision : Nat, pending : Int, applied : Int,
   needsReview : Int, awaiting : Int, appliedItems : Int, remaining : Int,
   mutationStarted : BOOLEAN, canaryClaims : Int, canaryCompleted : Int,
   canaryApproved : BOOLEAN, approvalRequired : BOOLEAN]

PastType == [state : ItemStates, attempts : 0..MaxAttempts, undo : 0..MaxAttempts,
             old : {TRUE}]

ItemType ==
  [state : ItemStates, attempts : 0..MaxAttempts, lease : {"none", "live", "expired"},
   slot : Slots \cup {NoSlot}, canary : BOOLEAN, undo : 0..MaxAttempts,
   past : SUBSET PastType, misread : BOOLEAN]

SlotType == [owner : Items \cup {NoItem, OtherJob}, live : BOOLEAN]

TaskType == [kind : {"none", "apply", "skip", "release", "inspect"}, n : 0..MaxAttempts]

ViewType == [job : JobType, state : Finishable, attempts : 0..MaxAttempts,
             undo : 0..MaxAttempts]

WorkerType ==
  [pc : {"idle", "claim", "work", "finish", "commit"},
   mode : {"none", "execute", "cancel"}, rev : Nat, first : BOOLEAN,
   todo : [Items -> TaskType], outdated : SUBSET Items, wait : BOOLEAN, cur : Items \cup {NoItem},
   res : {"none"} \cup ItemStates, guarded : BOOLEAN,
   view : ViewType \cup {NoView}]

HookType ==
  [pc : {"idle", "finish", "continue"}, item : Items \cup {NoItem},
   kind : {"none", "applied", "expired"}, target : {"none"} \cup ItemStates,
   attempts : 0..MaxAttempts, canceling : BOOLEAN]

(* Every record keeps its shape; no item is attempted, and no cancellation  *)
(* retried, more than MaxAttempts times.                                    *)
TypeOK ==
  /\ job \in JobType
  /\ item \in [Items -> ItemType]
  /\ slot \in [Slots -> SlotType]
  /\ worker \in [Workers -> WorkerType]
  /\ provider \in [Items -> {"source", "scheduled", "renewed", "target", "paying", "other"}]
  /\ touched \subseteq Items
  /\ events \subseteq Items \X {"applied", "expired"}
  /\ hook \in HookType
  /\ queue \in 0..MaxMessages
  /\ owed \in BOOLEAN
  /\ failures \in 0..MaxFailures

(* The counters the code keeps instead of loading every item are what a     *)
(* count of the items would give, whoever settles which item concurrently.  *)
CountersAgree ==
  /\ job.pending = Cardinality(ItemsIn(PendingStates))
  /\ job.applied = Cardinality(ItemsIn(AppliedBucket))
  /\ job.needsReview = Cardinality(ItemsIn(ReviewStates))
  /\ job.awaiting = Cardinality(ItemsIn({"awaiting_provider"}))
  /\ job.appliedItems = Cardinality(ItemsIn(AppliedStates))

(* The job record of a next-renewal migration stays one that load_job       *)
(* accepts: no sequence of claims, settlements and controls, and no crash,  *)
(* leaves a job nobody can read again.  It is said of jobs no webhook       *)
(* reconciles an item of (ExternalSubs = {}): a webhook may settle an item  *)
(* of a completed job as needs_review and leave a record that is refused.   *)
JobReadable == RecordValid(job)

(* Until an operator approves the canary, the job has changed at most       *)
(* canarySize subscriptions, whatever was retried, crashed or raced.        *)
CanaryBound == ~job.canaryApproved => Cardinality(touched) <= CanarySize

Undoes(w, i) == worker[w].todo[i].kind \in {"release", "inspect"}

(* A worker that is about to migrate a subscription is the only one, and no *)
(* cancellation pass that read the item's current version is undoing it;    *)
(* none at all releases its schedule.  The item is "applying" under a live  *)
(* lease of that attempt, in a slot it owns, so that accountConcurrency     *)
(* bounds the account's migrations, unless a cancellation settled the item  *)
(* from an outdated listing.  It bounds only these: a release takes neither *)
(* lease nor slot, and two passes may hold the release of one item.         *)
MutationsAreLeased ==
  \A w \in Workers, i \in Items :
    Holds(w, i) =>
      /\ \A v \in Workers \ {w} : ~Holds(v, i)
      /\ \A v \in Workers :
           Undoes(v, i) => worker[v].todo[i].kind = "inspect" /\ i \in worker[v].outdated
      /\ \/ item[i].misread
         \/ /\ item[i].state = "applying" /\ item[i].lease = "live"
            /\ item[i].attempts = worker[w].todo[i].n
            /\ item[i].slot \in Slots /\ slot[item[i].slot] = [owner |-> i, live |-> TRUE]

(* No worker is about to migrate a subscription of a finished or canceled   *)
(* job, unless a cancellation settled its item from an outdated listing;    *)
(* and none is about to undo one of a finished job.  A second cancellation  *)
(* pass may still undo one of a canceled job: it listed the item before the *)
(* first pass settled it, and no write stands before its call of Stripe.    *)
ClosedJobIsQuiet ==
  \A w \in Workers, i \in Items :
    /\ Holds(w, i) /\ job.state \in ClosedJobStates => item[i].misread
    /\ Undoes(w, i) => job.state \notin {"completed", "completed_with_errors"}

(* An item that was never claimed, or that a cancellation skipped as such,  *)
(* was never changed in Stripe by this job: a cancellation skips untouched  *)
(* work only (src/README.md:63), unless its listing was outdated.           *)
SkippedNeverTouched ==
  \A i \in touched :
    /\ item[i].state # "pending"
    /\ item[i].state = "skipped" => item[i].misread

(* What the items say is what Stripe holds: one skipped has its source price, *)
(* one reverted has no schedule of this job left, and one applied has its     *)
(* schedule or its target price until a cancellation takes it up.  A          *)
(* cancellation that settled an item from an outdated listing may be wrong.   *)
OutcomeMatchesProvider ==
  \A i \in Items :
    /\ item[i].state = "skipped" => provider[i] = "source" \/ item[i].misread
    /\ item[i].state = "reverted" => provider[i] \in {"source", "target"} \/ item[i].misread
    /\ item[i].state = "applied" /\ job.state # "canceling"
         => provider[i] \in {"scheduled", "renewed", "target"}

(* A canceled job leaves no schedule of its own that a reviewer is not told *)
(* of, unless the item was settled from an outdated listing.  A price that  *)
(* a renewal changed meanwhile is no schedule: it stays, and is reverted.   *)
CanceledLeavesNoSchedule ==
  job.state = "canceled" =>
    \A i \in Items :
      Attached(provider[i]) => item[i].state = "needs_review" \/ item[i].misread

(* An item settled as reverted, skipped or needs_review is never reopened,   *)
(* and an applied one is only ever undone, by a cancellation, which skips it *)
(* only if its listing was outdated.                                         *)
SettledForGood ==
  [][\A i \in Items :
       /\ item[i].state \in {"reverted", "skipped", "needs_review"}
            => item'[i].state = item[i].state
       /\ item[i].state = "applied" /\ item'[i].state # "applied"
            => /\ job.state = "canceling"
               /\ \/ item'[i].state \in {"reverted", "needs_review"}
                  \/ item'[i].state = "skipped" /\ item'[i].misread]_vars

(* An item whose expired slot another item or job has taken: _finish_item   *)
(* can no longer settle it without a new claim.                             *)
Stranded(i) == ~OwnsSlot(i)

(* A requested cancellation ends. *)
CancellationFinishes == job.state = "cancel_requested" ~> job.state = "canceled"

(* A requested cancellation ends, unless an item is stranded. *)
CancellationEnds ==
  job.state = "cancel_requested" ~>
    (job.state = "canceled" \/ \E i \in Items : Stranded(i))

(* A running job ends or stops for the operator: no item holds up the rest. *)
RunningJobEnds == job.state = "running" ~> job.state # "running"

(* So does one whose canary is approved. *)
ApprovedJobEnds ==
  (job.state = "running" /\ job.canaryApproved) ~> job.state # "running"

-----------------------------------------------------------------------------
(* The next-renewal migration implements MigrationLifecycle. *)

Phase ==
  CASE job.state = "scheduled" -> "planned"
    [] job.state = "running" -> "active"
    [] job.state = "paused" -> "held"
    [] job.state \in CancelStates -> "unwinding"
    [] job.state \in {"completed", "completed_with_errors"} -> "finished"
    [] job.state = "canceled" -> "withdrawn"

OutcomeOf(i) ==
  CASE item[i].state \in PendingStates -> "open"
    [] item[i].state \in AppliedStates -> "migrated"
    [] item[i].state \in UndoneStates -> "undone"
    [] item[i].state \in ReviewStates -> "review"

Lifecycle == INSTANCE MigrationLifecycle
               WITH phase <- Phase, outcome <- [i \in Items |-> OutcomeOf(i)]

(* Whatever the workers, the operator and the crashes do, the job keeps the *)
(* promises of its life cycle.                                              *)
KeepsLifecycle == Lifecycle!Spec
=============================================================================
