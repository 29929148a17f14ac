--------------------------- MODULE MigrationPreview ---------------------------
(***************************************************************************)
(* The preview of a bulk migration, which writes the dry run an operator   *)
(* approves.  A worker lists a page of the subscriptions with the source   *)
(* price, stores an item for each, binds those that can be migrated to the *)
(* job, and moves the job's cursor on, or closes the preview.  The job     *)
(* carries a running commitment to its items, so that no worker has to     *)
(* read them all.                                                          *)
(*                                                                         *)
(* The queue delivers a message any number of times, to any worker; any    *)
(* worker may die between two steps.  A subscription belongs to one open   *)
(* job at a time.  The execution, SubscriptionMigration, is abstracted to  *)
(* its beginning and its end.  A transaction whose conditions cover all it *)
(* was computed from is one step with the reads before it: a race makes it *)
(* fail, as Die does.                                                      *)
(***************************************************************************)
EXTENDS Integers, FiniteSets, FiniteSetsExt, Bags

CONSTANTS
  Jobs,           \* migrations from one source price
  Immediate,      \* those that prorate at once; the others wait for the renewal
  Subscriptions,  \* the order in which Stripe lists them, newest first
  Populations,    \* sets of them that may have the source price at first
  Foreign,        \* those sold by a checkout with other offers than they now have
  Workers,        \* invocations of the worker that may overlap
  Snapshots,      \* contents of a subscription
  Unfit,          \* those that canonical_migration_snapshot or a plan refuses
  PageSize, MaxPages,  \* limit of a listing; _MAX_DISCOVERY_PAGES
  MaxMishaps,     \* bound: deaths, changes at Stripe and ticks of the clock
  NoJob, NoItem

ASSUME PreviewAssumption ==
  /\ IsFiniteSet(Jobs) /\ NoJob \notin Jobs /\ Immediate \subseteq Jobs
  /\ IsFiniteSet(Subscriptions) /\ Subscriptions \subseteq Nat \ {0}
  /\ Foreign \subseteq Subscriptions /\ Populations \subseteq SUBSET Subscriptions
  /\ Unfit \subseteq Snapshots
  /\ PageSize \in Nat \ {0} /\ MaxPages \in Nat /\ MaxMishaps \in Nat

VARIABLES
  job,       \* [Jobs -> state, revision, discoveryCursor, previewAggregate, ...]
  item,      \* [Jobs -> [Subscriptions -> the item or NoItem]]
  member,    \* [Jobs -> subscriptions with a MigrationSubscriptionIndex]
  active,    \* [Subscriptions -> job of the ActiveMigrationSubscriptionIndex]
  queue,     \* the jobs and revisions of messages not yet deleted
  worker,    \* [Workers -> the invocation of process]
  listed,    \* subscriptions that have the source price
  snapshot,  \* [Subscriptions -> Snapshots]
  clock,     \* server time
  mishaps,   \* how often something went wrong
  steady     \* [Jobs -> subscriptions listed ever since the job was created]

stored   == <<job, item, member, active>>
provider == <<listed, snapshot, clock, mishaps, steady>>
vars     == <<stored, queue, worker, provider>>

Message == [job : Jobs, revision : 1 .. MaxPages + 2]

\* What an item says that its commitment protects.
Item ==
  [state : {"pending", "needs_review", "settled"},
   reason : {"none", "unfit", "scope-mismatch"},
   snapshot : Snapshots \cup {"none"}, prorationTimestamp : 0 .. MaxMishaps + 1]

\* NoItem stands for a subscription without an item.
ASSUME ItemAssumption == NoItem \notin Item

Unused ==
  [state |-> "none", revision |-> 0, cursor |-> 0, aggregate |-> EmptyBag,
   dryRun |-> EmptyBag, pending |-> 0]

Idle ==
  [at |-> "idle", message |-> NoJob, revision |-> 0, page |-> {}, next |-> 0,
   selected |-> NoItem, seen |-> EmptyBag, seenRevision |-> 0]

Ended  == {"completed", "canceled"}
Closed == {"awaiting_approval", "running"}

\* The commitment of an item, and how many of the committed are pending.
Commitment(s, i) == SetToBag({<<s, i>>})
PendingIn(aggregate) == Cardinality({c \in BagToSet(aggregate) : c[2].state = "pending"})

\* _validated_job, without which load_job raises: an ended job has no pending
\* items, and only a preview has a cursor.
Readable(j) ==
  /\ job[j].state \in Ended => job[j].pending = 0
  /\ job[j].state # "previewing" => job[j].cursor = 0

Init ==
  /\ job = [j \in Jobs |-> Unused]
  /\ item = [j \in Jobs |-> [s \in Subscriptions |-> NoItem]]
  /\ member = [j \in Jobs |-> {}]
  /\ active = [s \in Subscriptions |-> NoJob]
  /\ queue = {}
  /\ worker = [w \in Workers |-> Idle]
  /\ listed \in Populations
  /\ snapshot \in [Subscriptions -> Snapshots]
  /\ clock = 1
  /\ mishaps = 0
  /\ steady = [j \in Jobs |-> {}]

(***************************************************************************)
(* The operator's commands                                                 *)
(***************************************************************************)
\* create_preview and its message; a command repeated after a failure sends it again.
Create(j) ==
  /\ job[j].state = "none"
  /\ job' = [job EXCEPT ![j].state = "previewing", ![j].revision = 1]
  /\ queue' = queue \cup {[job |-> j, revision |-> 1]}
  /\ steady' = [steady EXCEPT ![j] = listed]
  /\ UNCHANGED <<item, member, active, worker, listed, snapshot, clock, mishaps>>

Approve(j) ==
  /\ job[j].state = "awaiting_approval"
  /\ job' = [job EXCEPT ![j].state = "running", ![j].revision = @ + 1]
  /\ UNCHANGED <<item, member, active, queue, worker, provider>>

\* control cancels a preview at once, and keeps its counts and its cursor.
Cancel(j) ==
  /\ job[j].state \in {"previewing", "awaiting_approval"}
  /\ job' = [job EXCEPT ![j].state = "canceled", ![j].revision = @ + 1]
  /\ UNCHANGED <<item, member, active, queue, worker, provider>>

\* The execution, or its cancellation, settles every item.
End(j) ==
  /\ job[j].state = "running"
  /\ job' = [job EXCEPT ![j].state = "completed", ![j].pending = 0]
  /\ item' = [item EXCEPT ![j] = [s \in Subscriptions |->
                IF @[s] # NoItem /\ @[s].state = "pending"
                THEN [@[s] EXCEPT !.state = "settled"] ELSE @[s]]]
  /\ UNCHANGED <<member, active, queue, worker, provider>>

(***************************************************************************)
(* An invocation of the worker                                             *)
(***************************************************************************)
\* The invocation fails; its message is delivered again.
Fail(w) == worker' = [worker EXCEPT ![w] = Idle]

Go(w, step) == worker' = [worker EXCEPT ![w].at = step]

Mine(w) == worker[w].message.job
Subject(w) == Min(worker[w].page)

\* The page's next subscription, once this one is dealt with.
NextInPage(w) ==
  worker' = [worker EXCEPT ![w].page = @ \ {Subject(w)}, ![w].selected = NoItem,
                           ![w].seen = EmptyBag, ![w].seenRevision = 0, ![w].at = "select"]

\* list_migration_candidates: the page after the job's cursor.
After(j) == {s \in listed : s > job[j].cursor}
Page(j) == {s \in After(j) : Cardinality({t \in After(j) : t < s}) < PageSize}
More(j) == Page(j) # After(j)

\* process and the listing; next is the cursor to come, 0 after the last page.
\* Beyond MaxPages the worker gives up, to be called again.
Receive(w, m) ==
  LET j == m.job
  IN /\ worker[w].at = "idle" /\ m \in queue
     /\ job[j].state = "previewing" /\ m.revision <= job[j].revision
     /\ More(j) => job[j].revision < MaxPages
     /\ worker' = [worker EXCEPT ![w] = [Idle EXCEPT !.at = "select", !.message = m,
                     !.revision = job[j].revision, !.page = Page(j),
                     !.next = IF More(j) THEN Max(Page(j)) ELSE 0]]
     /\ UNCHANGED <<stored, queue, provider>>

\* A message of a preview that is over has no effect, if the job can be read.
Discard(w, m) ==
  /\ worker[w].at = "idle" /\ m \in queue
  /\ job[m.job].state # "previewing" /\ Readable(m.job)
  /\ queue' = queue \ {m}
  /\ UNCHANGED <<stored, worker, provider>>

\* The snapshot is read, checked and planned; the proration is previewed now.
Select(w) ==
  LET j == Mine(w)
      now == snapshot[Subject(w)]
  IN /\ worker[w].at = "select" /\ worker[w].page # {}
     /\ worker' = [worker EXCEPT ![w].at = "read", ![w].selected =
          IF now \in Unfit
          THEN [state |-> "needs_review", reason |-> "unfit", snapshot |-> "none",
                prorationTimestamp |-> 0]
          ELSE [state |-> "pending", reason |-> "none", snapshot |-> now,
                prorationTimestamp |-> IF j \in Immediate THEN clock ELSE 0]]
     /\ UNCHANGED <<stored, queue, provider>>

Stored(w) == item[Mine(w)][Subject(w)]

PersistedNew(w) ==
  IF worker[w].at = "put" /\ worker[w].selected.state = "pending"
  THEN Go(w, "bind") ELSE NextInPage(w)

\* After the item is stored: bind a pending one.
Persisted(w) == IF worker[w].selected.state = "pending" THEN Go(w, "bind") ELSE NextInPage(w)

\* put_preview_item reads the job and the item: one stored earlier has to be the same.
ReadForPut(w) ==
  /\ worker[w].at = "read"
  /\ IF job[Mine(w)].state # "previewing" THEN Fail(w)
     ELSE IF Stored(w) = NoItem
     THEN worker' = [worker EXCEPT ![w].at = "put", ![w].seen = job[Mine(w)].aggregate,
                                   ![w].seenRevision = job[Mine(w)].revision]
     ELSE IF Stored(w) = worker[w].selected THEN Persisted(w) ELSE Fail(w)
  /\ UNCHANGED <<stored, queue, provider>>

AggregateUnmovedByRevision(w) ==
  job[Mine(w)].state = "previewing" /\ job[Mine(w)].revision = worker[w].seenRevision

\* _conditional_preview_aggregate_transition
AggregateUnmoved(w) ==
  /\ job[Mine(w)].state = "previewing"
  /\ job[Mine(w)].revision = worker[w].seenRevision
  /\ job[Mine(w)].aggregate = worker[w].seen

Put(w) ==
  LET j == Mine(w)  s == Subject(w)
  IN /\ worker[w].at = "put"
     /\ \/ /\ AggregateUnmoved(w) /\ Stored(w) = NoItem
           /\ item' = [item EXCEPT ![j][s] = worker[w].selected]
           /\ job' = [job EXCEPT ![j].aggregate =
                        worker[w].seen (+) Commitment(s, worker[w].selected)]
           /\ Persisted(w)
        \/ /\ ~(AggregateUnmoved(w) /\ Stored(w) = NoItem)
           /\ IF Stored(w) = worker[w].selected THEN Persisted(w) ELSE Fail(w)
           /\ UNCHANGED <<job, item>>
     /\ UNCHANGED <<member, active, queue, provider>>

\* bind_migration_subscription: no other open job may hold the subscription.
Rival(j, s) == active[s] \notin {NoJob, j}
Bound(j, s) == s \in member[j] /\ active[s] = j

\* The holder's record cannot be read, which is no conflict but an error.
RivalUnreadable(j, s) == s \notin Foreign /\ Rival(j, s) /\ ~Readable(active[s])

CanBind(j, s) ==
  /\ s \notin Foreign \cup member[j]
  /\ Rival(j, s) => job[active[s]].state \in Ended

Bind(w) ==
  LET j == Mine(w)  s == Subject(w)
  IN /\ worker[w].at = "bind"
     /\ \/ /\ CanBind(j, s) /\ ~RivalUnreadable(j, s)
           /\ member' = [member EXCEPT ![j] = @ \cup {s}]
           /\ active' = [active EXCEPT ![s] = j]
           /\ NextInPage(w)
        \/ Bound(j, s) /\ NextInPage(w) /\ UNCHANGED <<member, active>>
        \/ RivalUnreadable(j, s) /\ Fail(w) /\ UNCHANGED <<member, active>>
        \/ /\ ~(CanBind(j, s) \/ Bound(j, s) \/ RivalUnreadable(j, s))
           /\ Go(w, "reject") /\ UNCHANGED <<member, active>>
     /\ UNCHANGED <<job, item, queue, provider>>

RejectedAsReason(i) == [i EXCEPT !.state = "scope-mismatch"]

\* reject_preview_item
Rejected(i) == [i EXCEPT !.state = "needs_review", !.reason = "scope-mismatch"]

Reject(w) ==
  LET j == Mine(w)  s == Subject(w)  old == Stored(w)
  IN /\ worker[w].at = "reject"
     /\ \/ /\ job[j].state = "previewing" /\ old.state = "pending"
           /\ item' = [item EXCEPT ![j][s] = Rejected(old)]
           /\ job' = [job EXCEPT ![j].aggregate =
                        (@ (-) Commitment(s, old)) (+) Commitment(s, Rejected(old))]
           /\ NextInPage(w)
        \/ /\ job[j].state = "previewing" /\ old.reason = "scope-mismatch"
           /\ NextInPage(w) /\ UNCHANGED <<job, item>>
        \/ job[j].state # "previewing" /\ Fail(w) /\ UNCHANGED <<job, item>>
     /\ UNCHANGED <<member, active, queue, provider>>

PageDoneEarly(w) == worker[w].at = "select"

PageDone(w) == worker[w].at = "select" /\ worker[w].page = {}

\* The job is still what process loaded.
Unmoved(w) ==
  job[Mine(w)].state = "previewing" /\ job[Mine(w)].revision = worker[w].revision

\* advance_preview; the message for the next page follows.
Advance(w) ==
  /\ PageDone(w) /\ worker[w].next # 0
  /\ IF Unmoved(w)
     THEN /\ job' = [job EXCEPT ![Mine(w)].revision = @ + 1,
                                ![Mine(w)].cursor = worker[w].next]
          /\ Go(w, "send")
     ELSE Fail(w) /\ UNCHANGED job
  /\ UNCHANGED <<item, member, active, queue, provider>>

Send(w) ==
  /\ worker[w].at = "send"
  /\ queue' = (queue \ {worker[w].message})
                \cup {[job |-> Mine(w), revision |-> worker[w].revision + 1]}
  /\ Fail(w)
  /\ UNCHANGED <<stored, provider>>

\* preview_summary
Summarize(w) ==
  /\ PageDone(w) /\ worker[w].next = 0
  /\ IF job[Mine(w)].state = "previewing"
     THEN worker' = [worker EXCEPT ![w].at = "complete", ![w].seen = job[Mine(w)].aggregate]
     ELSE Fail(w)
  /\ UNCHANGED <<stored, queue, provider>>

\* complete_preview
Complete(w) ==
  LET j == Mine(w)
  IN /\ worker[w].at = "complete"
     /\ IF Unmoved(w) /\ job[j].aggregate = worker[w].seen
        THEN /\ job' = [job EXCEPT ![j].state = "awaiting_approval",
                          ![j].revision = @ + 1, ![j].cursor = 0,
                          ![j].dryRun = worker[w].seen,
                          ![j].pending = PendingIn(worker[w].seen)]
             /\ queue' = queue \ {worker[w].message}
        ELSE UNCHANGED <<job, queue>>
     /\ Fail(w)
     /\ UNCHANGED <<item, member, active, provider>>

(***************************************************************************)
(* What goes wrong                                                         *)
(***************************************************************************)
Mishap == mishaps < MaxMishaps /\ mishaps' = mishaps + 1

\* A crash, the time limit, or an error that is retried.
Die(w) ==
  /\ worker[w].at # "idle" /\ Mishap /\ Fail(w)
  /\ UNCHANGED <<stored, queue, listed, snapshot, clock, steady>>

Appear(s) ==
  /\ s \notin listed /\ Mishap /\ listed' = listed \cup {s}
  /\ UNCHANGED <<stored, queue, worker, snapshot, clock, steady>>

Leave(s) ==
  /\ s \in listed /\ Mishap /\ listed' = listed \ {s}
  /\ steady' = [j \in Jobs |-> steady[j] \ {s}]
  /\ UNCHANGED <<stored, queue, worker, snapshot, clock>>

Change(s) ==
  /\ Mishap /\ \E new \in Snapshots \ {snapshot[s]} : snapshot' = [snapshot EXCEPT ![s] = new]
  /\ UNCHANGED <<stored, queue, worker, listed, clock, steady>>

Tick ==
  /\ Mishap /\ clock' = clock + 1
  /\ UNCHANGED <<stored, queue, worker, listed, snapshot, steady>>

Work(w) ==
  \/ \E m \in queue : Receive(w, m) \/ Discard(w, m)
  \/ Select(w) \/ ReadForPut(w) \/ Put(w) \/ Bind(w) \/ Reject(w)
  \/ Advance(w) \/ Send(w) \/ Summarize(w) \/ Complete(w)

Next ==
  \/ \E j \in Jobs : Create(j) \/ Approve(j) \/ Cancel(j) \/ End(j)
  \/ \E w \in Workers : Work(w) \/ Die(w)
  \/ \E s \in Subscriptions : Appear(s) \/ Leave(s) \/ Change(s)
  \/ Tick

Spec == Init /\ [][Next]_vars

(***************************************************************************)
(* Properties                                                              *)
(***************************************************************************)
PreviewTypeOK ==
  /\ \A j \in Jobs :
       /\ job[j].state \in {"none", "previewing"} \cup Closed \cup Ended
       /\ job[j].revision \in 0 .. MaxPages + 3 /\ job[j].cursor \in Subscriptions \cup {0}
       /\ job[j].pending \in 0 .. Cardinality(Subscriptions)
       /\ IsABag(job[j].aggregate) /\ IsABag(job[j].dryRun)
       /\ member[j] \subseteq Subscriptions /\ steady[j] \subseteq listed
  /\ item \in [Jobs -> [Subscriptions -> Item \cup {NoItem}]]
  /\ active \in [Subscriptions -> Jobs \cup {NoJob}]
  /\ queue \subseteq Message
  /\ \A w \in Workers :
       /\ worker[w].at \in {"idle", "select", "read", "put", "bind", "reject",
                            "send", "complete"}
       /\ worker[w].at # "idle" => worker[w].message \in Message
       /\ worker[w].page \subseteq Subscriptions /\ worker[w].next \in Subscriptions \cup {0}
       /\ worker[w].selected \in Item \cup {NoItem}
       /\ worker[w].seenRevision \in 0 .. MaxPages + 3
  /\ listed \subseteq Subscriptions /\ snapshot \in [Subscriptions -> Snapshots]
  /\ clock \in 1 .. MaxMishaps + 1 /\ mishaps \in 0 .. MaxMishaps

\* Subscriptions with an item of the job.
ItemsOf(j) == {s \in Subscriptions : item[j][s] # NoItem}

\* The commitment a job carries is that of the items it has, neither less nor
\* more, and the dry run that is approved is the commitment of the items that
\* will be executed, however the workers that stored them overlapped.
CommitmentAgrees ==
  \A j \in Jobs :
    /\ job[j].state \in {"previewing"} \cup Closed =>
         job[j].aggregate = SetToBag({<<s, item[j][s]>> : s \in ItemsOf(j)})
    /\ job[j].state \in Closed => job[j].dryRun = job[j].aggregate

\* A preview that has closed has an item for every subscription that had the
\* source price from its creation on, whichever workers listed its pages.
NoCandidateMissed ==
  \A j \in Jobs : job[j].state \in Closed => steady[j] \subseteq ItemsOf(j)

\* What the operator approves is held: a pending item of a closed preview has its
\* subscription bound to the job, so two open jobs never migrate one subscription.
\* (One that lost the price meanwhile may stay behind unbound, see README.)
PendingIsBound ==
  \A j \in Jobs : job[j].state \in Closed =>
    \A s \in steady[j] : item[j][s].state = "pending" => Bound(j, s)

\* Every stored job can be read back, as _validated_job asserts.
PreviewReadable == \A j \in Jobs : Readable(j)

\* README: "durable, replay-safe preview commitment".  The worker goes on as long
\* as the queue delivers; people and accidents need not act.
FairSpec == Spec /\ \A w \in Workers : WF_vars(Work(w))

PreviewEnds == \A j \in Jobs : job[j].state = "previewing" ~> job[j].state # "previewing"
=============================================================================
