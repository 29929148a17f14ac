----------------------- MODULE MigrationCounters_proofs -----------------------
(***************************************************************************)
(* The counters of the job record are what a count of its items would give *)
(* (CountersAgree), for any number of items, workers and slots.            *)
(*                                                                         *)
(* Two steps move an item between the groups the counters count:           *)
(* CommitItem and HookFinish.  Each writes the item and the counters in    *)
(* one transaction, and CommitItem, which computed the counters from a     *)
(* job it read earlier, is conditional on that job being unchanged.        *)
(***************************************************************************)
EXTENDS MigrationTypes_proofs

Groups == {PendingStates, AppliedBucket, ReviewStates, {"awaiting_provider"}, AppliedStates}

(* The items in a set of states can be counted.                             *)
LEMMA ItemsInFinite ==
  ASSUME NEW S
  PROVE  IsFiniteSet(ItemsIn(S)) /\ Cardinality(ItemsIn(S)) \in Nat
  BY SetsAssumption, FS_Subset, FS_CardinalityType DEF ItemsIn

(* An item that changes its state changes the size of a group by what the   *)
(* code adds to that group's counter.                                       *)
LEMMA GroupChange ==
  ASSUME NEW S, NEW i \in Items, \A k \in Items \ {i} : item'[k].state = item[k].state
  PROVE  Cardinality(ItemsIn(S)') =
           Cardinality(ItemsIn(S)) + (Bit(item'[i].state \in S) - Bit(item[i].state \in S))
<1>1. IsFiniteSet(ItemsIn(S)) /\ Cardinality(ItemsIn(S)) \in Nat
  BY ItemsInFinite
<1>2. CASE item'[i].state \in S /\ item[i].state \notin S
  <2>1. ItemsIn(S)' = ItemsIn(S) \cup {i} /\ i \notin ItemsIn(S)
    BY <1>2 DEF ItemsIn
  <2>2. Cardinality(ItemsIn(S)') = Cardinality(ItemsIn(S)) + 1
    BY <1>1, <2>1, FS_AddElement
  <2>3. QED
    BY <1>1, <1>2, <2>2 DEF Bit
<1>3. CASE item'[i].state \notin S /\ item[i].state \in S
  <2>1. ItemsIn(S)' = ItemsIn(S) \ {i} /\ i \in ItemsIn(S)
    BY <1>3 DEF ItemsIn
  <2>2. Cardinality(ItemsIn(S)') = Cardinality(ItemsIn(S)) - 1
    BY <1>1, <2>1, FS_RemoveElement
  <2>3. QED
    BY <1>1, <1>3, <2>2 DEF Bit
<1>4. CASE item'[i].state \in S <=> item[i].state \in S
  <2>1. ItemsIn(S)' = ItemsIn(S)
    BY <1>4 DEF ItemsIn
  <2>2. QED
    BY <1>1, <1>4, <2>1 DEF Bit
<1>5. QED
  BY <1>2, <1>3, <1>4

(* A step that settles one item and writes the job with Metrics. *)
LEMMA MetricsAgree ==
  ASSUME CountersAgree, NEW j \in JobType, NEW i \in Items, NEW it, NEW new,
         it.state = item[i].state, item'[i].state = new,
         \A k \in Items \ {i} : item'[k].state = item[k].state,
         /\ j.pending = job.pending /\ j.applied = job.applied
         /\ j.needsReview = job.needsReview /\ j.awaiting = job.awaiting
         /\ j.appliedItems = job.appliedItems,
         job' = Metrics(j, it, new)
  PROVE  CountersAgree'
<1> DEFINE Moved(S) == Bit(new \in S) - Bit(it.state \in S)
<1>1. /\ job'.pending = j.pending + Moved(PendingStates)
      /\ job'.applied = j.applied + Moved(AppliedBucket)
      /\ job'.needsReview = j.needsReview + Moved(ReviewStates)
      /\ job'.awaiting = j.awaiting + Moved({"awaiting_provider"})
      /\ job'.appliedItems = j.appliedItems + Moved(AppliedStates)
  BY DEF Metrics, JobType
<1>2. ASSUME NEW S
      PROVE  Cardinality(ItemsIn(S)') = Cardinality(ItemsIn(S)) + Moved(S)
  BY GroupChange
<1> HIDE DEF Moved
<1>3. QED
  BY <1>1, <1>2 DEF CountersAgree

(* A step that moves no item between groups, and leaves the counters alone. *)
LEMMA CountersKept ==
  ASSUME CountersAgree,
         \A S \in Groups : \A i \in Items : item'[i].state \in S <=> item[i].state \in S,
         /\ job'.pending = job.pending /\ job'.applied = job.applied
         /\ job'.needsReview = job.needsReview /\ job'.awaiting = job.awaiting
         /\ job'.appliedItems = job.appliedItems
  PROVE  CountersAgree'
<1>1. \A S \in Groups : ItemsIn(S)' = ItemsIn(S)
  BY DEF ItemsIn
<1>2. QED
  BY <1>1 DEF Groups, CountersAgree

SameCounters ==
  /\ job'.pending = job.pending /\ job'.applied = job.applied
  /\ job'.needsReview = job.needsReview /\ job'.awaiting = job.awaiting
  /\ job'.appliedItems = job.appliedItems

(* Only _finish_item writes the counters.                                   *)
LEMMA JobWritesCounters ==
  ASSUME job \in JobType,
         \/ \E look : job' \in {job, BeginCancel(job), Continued(job), Finalized(job, look)}
         \/ job' = [job EXCEPT !.state = "running", !.revision = @ + 1]
  PROVE  SameCounters
  BY DEF SameCounters, BeginCancel, Continued, Finalized, JobType

(* A claim moves an item within the pending group.                          *)
LEMMA ClaimCounters ==
  ASSUME Inductive, CountersAgree, NEW w \in Workers, NEW i \in Items, NEW s \in Slots,
         Claim(w, i, s)
  PROVE  CountersAgree'
<1>1. SameCounters
  BY DEF Claim, SameCounters, Inductive, TypeOK, JobType
<1>2. /\ item[i].state \in ClaimableStates /\ item'[i].state = "applying"
      /\ \A k \in Items : k # i => item'[k] = item[k]
  <2>1. item \in [Items -> ItemType] /\ item[i] \in ItemType
    BY DEF Inductive, TypeOK
  <2>2. PICK a, c : item' = [item EXCEPT ![i] = [item[i] EXCEPT !.state = "applying",
                      !.attempts = a, !.lease = "live", !.slot = s,
                      !.past = Earlier(item[i]), !.canary = c]]
    BY DEF Claim
  <2>3. item[i].state \in ClaimableStates
    BY DEF Claim, Claimable
  <2>4. QED
    BY <2>1, <2>2, <2>3 DEF ItemType
<1>3. ASSUME NEW S \in Groups, NEW k \in Items
      PROVE  item'[k].state \in S <=> item[k].state \in S
  BY <1>2 DEF Groups, ClaimableStates, PendingStates, AppliedBucket, AppliedStates,
              UndoneStates, ReviewStates
<1>4. QED
  BY <1>1, <1>3, CountersKept DEF SameCounters

(* A settlement moves an item and the counters together; the job it read is *)
(* either unchanged, or none of its counters depends on the move.           *)
LEMMA CommitCounters ==
  ASSUME Inductive, CountersAgree, NEW w \in Workers, CommitItem(w)
  PROVE  CountersAgree'
<1> DEFINE i == worker[w].cur
           v == worker[w].view
           it == [item[i] EXCEPT !.state = v.state]
<1>1. i \in Items /\ v \in ViewType /\ v.job \in JobType
  BY DEF CommitItem, Inductive, WorkerShape, Shaped, ViewType
<1>2. item \in [Items -> ItemType] /\ item[i] \in ItemType
  BY <1>1 DEF Inductive, TypeOK
<1>4. item'[i].state = Target(w) /\ \A k \in Items \ {i} : item'[k].state = item[k].state
  BY CommitWrites
<1>5. it.state = item[i].state
  BY <1>2 DEF CommitItem, Unchanged, ItemType
<1>6. Written(w) = Metrics(v.job, it, Target(w))
  BY DEF Written
<1>7. CASE Written(w) # v.job
  <2>1. job = v.job /\ job' = Metrics(v.job, it, Target(w))
    BY <1>6, <1>7 DEF CommitItem, Unchanged
  <2>2. QED
    BY <1>1, <1>4, <1>5, <2>1, MetricsAgree
<1>8. CASE Written(w) = v.job
  <2>1. job' = job
    BY <1>8 DEF CommitItem
  <2>2. ASSUME NEW S \in Groups
        PROVE  Bit(Target(w) \in S) - Bit(it.state \in S) = 0
    <3> DEFINE Moved(T) == Bit(Target(w) \in T) - Bit(it.state \in T)
    <3>1. v.job = Metrics(v.job, it, Target(w))
      BY <1>6, <1>8
    <3>2. ASSUME NEW T PROVE Moved(T) \in Int
      BY DEF Bit
    <3>3. Metrics(v.job, it, Target(w)).pending = v.job.pending + Moved(PendingStates)
      BY <1>1 DEF Metrics, JobType
    <3>4. Metrics(v.job, it, Target(w)).applied = v.job.applied + Moved(AppliedBucket)
      BY <1>1 DEF Metrics, JobType
    <3>5. Metrics(v.job, it, Target(w)).needsReview = v.job.needsReview + Moved(ReviewStates)
      BY <1>1 DEF Metrics, JobType
    <3>6. Metrics(v.job, it, Target(w)).awaiting = v.job.awaiting + Moved({"awaiting_provider"})
      BY <1>1 DEF Metrics, JobType
    <3>7. Metrics(v.job, it, Target(w)).appliedItems = v.job.appliedItems + Moved(AppliedStates)
      BY <1>1 DEF Metrics, JobType
    <3>8. /\ v.job.pending \in Int /\ v.job.applied \in Int /\ v.job.needsReview \in Int
          /\ v.job.awaiting \in Int /\ v.job.appliedItems \in Int
      BY <1>1 DEF JobType
    <3>9. ASSUME NEW m \in Int, NEW n \in Int, n = n + m PROVE m = 0
      BY <3>9
    <3> HIDE DEF Moved, v, it
    <3>10. Moved(PendingStates) = 0
      BY <3>1, <3>2, <3>3, <3>8, <3>9
    <3>11. Moved(AppliedBucket) = 0
      BY <3>1, <3>2, <3>4, <3>8, <3>9
    <3>12. Moved(ReviewStates) = 0
      BY <3>1, <3>2, <3>5, <3>8, <3>9
    <3>13. Moved({"awaiting_provider"}) = 0
      BY <3>1, <3>2, <3>6, <3>8, <3>9
    <3>14. Moved(AppliedStates) = 0
      BY <3>1, <3>2, <3>7, <3>8, <3>9
    <3>15. Moved(S) = 0
      BY <2>2, <3>10, <3>11, <3>12, <3>13, <3>14 DEF Groups
    <3>16. QED
      BY <3>15 DEF Moved
  <2>3. ASSUME NEW S \in Groups, NEW k \in Items
        PROVE  item'[k].state \in S <=> item[k].state \in S
    BY <1>4, <1>5, <2>2 DEF Bit
  <2>4. QED
    BY <2>1, <2>3, CountersKept
<1>9. QED
  BY <1>7, <1>8

(* So does the settlement by a webhook.                                     *)
LEMMA HookFinishCounters ==
  ASSUME Inductive, CountersAgree, HookFinish
  PROVE  CountersAgree'
<1> DEFINE i == hook.item
<1>1. i \in Items /\ job \in JobType
  BY DEF HookFinish, Inductive, HookShape, TypeOK
<1>2. item \in [Items -> ItemType] /\ item[i] \in ItemType
  BY <1>1 DEF Inductive, TypeOK
<1>3. item'[i].state = hook.target /\ \A k \in Items \ {i} : item'[k].state = item[k].state
  BY <1>1, <1>2 DEF HookFinish, Settled, ItemType
<1>4. job' = Metrics(job, item[i], hook.target)
  BY DEF HookFinish
<1>5. QED
  BY <1>1, <1>3, <1>4, MetricsAgree

(* Every other step. *)
LEMMA QuietCounters ==
  ASSUME CountersAgree, SameCounters, \A i \in Items : item'[i].state = item[i].state
  PROVE  CountersAgree'
  BY CountersKept DEF SameCounters

(* Every step of a worker.                                                  *)
LEMMA WorkerCounters ==
  ASSUME Inductive, CountersAgree, NEW w \in Workers, WorkerStep(w)
  PROVE  CountersAgree'
<1>1. CASE ClaimStep(w) \/ CommitItem(w)
  BY <1>1, ClaimCounters, CommitCounters DEF ClaimStep
<1>2. ASSUME ~ClaimStep(w), ~CommitItem(w)
      PROVE  UNCHANGED item
  BY <1>2 DEF WorkerStep, ReceiveStale, ReceiveExecute, ReceiveCancel, EndClaim, ApplyItem,
              SkipPending, UndoItem, AwaitPendingUpdate, LoadItem, AlreadySettled, RetryRecorded, CommitSeen,
              Conflict, Continue, CancelDone, Unreadable
<1>3. ASSUME ~ClaimStep(w), ~CommitItem(w)
      PROVE  \/ \E look : job' \in {job, BeginCancel(job), Continued(job), Finalized(job, look)}
             \/ job' = [job EXCEPT !.state = "running", !.revision = @ + 1]
  BY <1>3 DEF WorkerStep, ReceiveStale, ReceiveExecute, ReceiveCancel, EndClaim, ApplyItem,
              SkipPending, UndoItem, AwaitPendingUpdate, LoadItem, AlreadySettled, RetryRecorded, CommitSeen,
              Conflict, Continue, CancelDone, Unreadable
<1>4. QED
  BY <1>1, <1>2, <1>3, JobWritesCounters, QuietCounters DEF Inductive, TypeOK

(* Every step of the webhook.                                               *)
LEMMA HookCounters ==
  ASSUME Inductive, CountersAgree, HookStep
  PROVE  CountersAgree'
<1>1. CASE HookFinish
  BY <1>1, HookFinishCounters
<1>2. ASSUME ~HookFinish
      PROVE  /\ UNCHANGED item
             /\ \E look : job' \in {job, Continued(job), Finalized(job, look)}
  BY <1>2 DEF HookStep, HookIgnore, HookDecide, HookContinue, HookFail
<1>3. QED
  BY <1>1, <1>2, JobWritesCounters, QuietCounters DEF Inductive, TypeOK

(* Every control of the operator.                                           *)
LEMMA OperatorCounters ==
  ASSUME Inductive, CountersAgree, Operator
  PROVE  CountersAgree'
<1>1. UNCHANGED item
  BY DEF Operator, Pause, Resume, Cancel, Control, ReplayCommand
<1>2. SameCounters
  <2>1. job \in JobType
    BY DEF Inductive, TypeOK
  <2>2. CASE Pause \/ Cancel
    BY <2>1, <2>2 DEF Pause, Cancel, Control, JobType, SameCounters
  <2>3. CASE Resume
    <3>1. PICK ok : job' = [[job EXCEPT !.state = "running", !.approvalRequired = FALSE,
                                        !.canaryApproved = ok] EXCEPT !.revision = @ + 1]
      BY <2>3 DEF Resume, Control
    <3>2. QED
      BY <2>1, <3>1 DEF JobType, SameCounters
  <2>4. CASE ReplayCommand
    BY <2>4 DEF ReplayCommand, SameCounters
  <2>5. QED
    BY <2>2, <2>3, <2>4 DEF Operator
<1>3. QED
  BY <1>1, <1>2, QuietCounters

(* Every step of the environment.                                           *)
LEMMA EnvironmentCounters ==
  ASSUME Inductive, CountersAgree, Environment
  PROVE  CountersAgree'
<1>1. UNCHANGED job
  BY DEF Environment, ProviderSettles, Renewal, ExternalUpdate, LeaseExpires, ForeignClaim,
         ForeignFinish, Crash, HookCrash
<1>2. \A i \in Items : item'[i].state = item[i].state
  <2>1. CASE \E i \in Items : LeaseExpires(i)
    BY <2>1 DEF LeaseExpires, Inductive, TypeOK, ItemType
  <2>2. CASE UNCHANGED item
    BY <2>2
  <2>3. QED
    BY <2>1, <2>2 DEF Environment, ProviderSettles, Renewal, ExternalUpdate, ForeignClaim,
                      ForeignFinish, Crash, HookCrash
<1>3. QED
  BY <1>1, <1>2, QuietCounters DEF SameCounters

(* The dry run leaves counters that agree.                                  *)
LEMMA InitCounters == Init => CountersAgree
<1> SUFFICES ASSUME Init PROVE CountersAgree
  OBVIOUS
<1>1. PICK rejected \in SUBSET Items :
        /\ item = [i \in Items |->
                     [state |-> IF i \in rejected THEN "needs_review" ELSE "pending",
                      attempts |-> 0, lease |-> "none", slot |-> NoSlot,
                      canary |-> FALSE, undo |-> 0, past |-> {}, misread |-> FALSE]]
        /\ job = [state |-> "scheduled", revision |-> 1,
                  pending |-> Cardinality(Items \ rejected), applied |-> 0,
                  needsReview |-> Cardinality(rejected), awaiting |-> 0,
                  appliedItems |-> 0, remaining |-> 0, mutationStarted |-> FALSE,
                  canaryClaims |-> 0, canaryCompleted |-> 0,
                  canaryApproved |-> FALSE, approvalRequired |-> FALSE]
        /\ slot = [s \in Slots |-> FreeSlot]
        /\ worker = [w \in Workers |-> Idle]
        /\ provider = [i \in Items |-> "source"]
        /\ touched = {} /\ events = {} /\ hook = IdleHook
        /\ queue = 1 /\ owed = FALSE /\ failures = 0
  BY DEF Init
<1>2. /\ ItemsIn(PendingStates) = Items \ rejected /\ ItemsIn(ReviewStates) = rejected
      /\ ItemsIn(AppliedBucket) = {} /\ ItemsIn({"awaiting_provider"}) = {}
      /\ ItemsIn(AppliedStates) = {}
  BY <1>1 DEF ItemsIn, PendingStates, ReviewStates, AppliedBucket, AppliedStates, UndoneStates
<1>3. QED
  BY <1>1, <1>2, FS_EmptySet DEF CountersAgree

(* The counters that stand in for loading every item agree with the items,  *)
(* whichever workers and webhooks settle them concurrently: _finish_item    *)
(* (migration_store.py) writes both, and compares what it read.             *)
THEOREM CountersHold == Spec => []CountersAgree
<1>1. Inductive /\ CountersAgree /\ [Next]_vars => CountersAgree'
  <2> SUFFICES ASSUME Inductive, CountersAgree, [Next]_vars PROVE CountersAgree'
    OBVIOUS
  <2>1. CASE UNCHANGED vars
    BY <2>1, QuietCounters DEF vars, SameCounters
  <2>2. QED
    BY <2>1, WorkerCounters, HookCounters, OperatorCounters, EnvironmentCounters DEF Next
<1>2. QED
  BY <1>1, InitCounters, InitInductive, NextInductive, PTL DEF Spec
=============================================================================
