------------------------ MODULE MigrationCanary_proofs ------------------------
(***************************************************************************)
(* Until an operator approves the canary, a migration has changed at most  *)
(* canarySize subscriptions (CanaryBound), for any number of items,        *)
(* workers, slots and retries.                                             *)
(*                                                                         *)
(* A worker changes only a subscription it claimed.  Every claim before    *)
(* the approval marks its item as a canary and counts in canaryClaims,     *)
(* which the claim transaction keeps within CanarySize; and no other step  *)
(* marks an item, counts a claim or withdraws an approval.                 *)
(***************************************************************************)
EXTENDS MigrationTypes_proofs

Canaries == {i \in Items : item[i].canary}

CanaryInv ==
  /\ \A w \in Workers, i \in Items : Holds(w, i) => item[i].attempts > 0
  /\ touched \subseteq Items /\ \A i \in touched : item[i].attempts > 0
  /\ ~job.canaryApproved => \A i \in Items : item[i].attempts > 0 => item[i].canary
  /\ Cardinality(Canaries) <= job.canaryClaims
  /\ job.canaryClaims <= CanarySize

-----------------------------------------------------------------------------
(* What every step but a claim leaves alone. *)

ClaimsKept ==
  /\ \A i \in Items : item'[i].attempts = item[i].attempts /\ item'[i].canary = item[i].canary
  /\ \A w \in Workers, i \in Items : Holds(w, i)' => Holds(w, i)
  /\ job'.canaryClaims = job.canaryClaims
  /\ job.canaryApproved => job'.canaryApproved
  /\ touched' \subseteq touched \cup {i \in Items : \E w \in Workers : Holds(w, i)}

(* _finish_item neither counts a canary claim nor approves the canary.      *)
LEMMA MetricsCanary ==
  ASSUME NEW j \in JobType, NEW it, NEW new
  PROVE  /\ Metrics(j, it, new).canaryClaims = j.canaryClaims
         /\ Metrics(j, it, new).canaryApproved = j.canaryApproved
  BY DEF Metrics, JobType

(* Nor do begin_cancel, continue_execution and finalize_cancellation.       *)
LEMMA JobWritesCanary ==
  ASSUME NEW j \in JobType, NEW look,
         NEW k \in {BeginCancel(j), Continued(j), Finalized(j, look)}
  PROVE  k.canaryClaims = j.canaryClaims /\ k.canaryApproved = j.canaryApproved
  BY DEF BeginCancel, Continued, Finalized, JobType

(* A worker that goes idle, or is given a task other than to apply an item, *)
(* holds no more than it did.                                               *)
LEMMA HoldsKept ==
  ASSUME Inductive, NEW w \in Workers, NEW m \in WorkerType,
         worker' = [worker EXCEPT ![w] = m],
         \A i \in Items : m.todo[i].kind = "apply" => Holds(w, i)
  PROVE  \A v \in Workers, i \in Items : Holds(v, i)' => Holds(v, i)
  BY DEF Holds, Inductive, TypeOK

(* Receiving a message claims nothing.                                      *)
LEMMA ReceiveKeepsClaims ==
  ASSUME Inductive, NEW w \in Workers, NEW late \in SUBSET Items,
         ReceiveStale(w) \/ ReceiveExecute(w) \/ ReceiveCancel(w, late)
  PROVE  ClaimsKept
<1>1. UNCHANGED <<item, touched>>
  BY DEF ReceiveStale, ReceiveExecute, ReceiveCancel
<1>2. job'.canaryClaims = job.canaryClaims /\ job'.canaryApproved = job.canaryApproved
  <2>1. job \in JobType
    BY DEF Inductive, TypeOK
  <2>2. \/ job' = job
        \/ job' = [job EXCEPT !.state = "running", !.revision = @ + 1]
        \/ job' = BeginCancel(job)
    BY DEF ReceiveStale, ReceiveExecute, ReceiveCancel
  <2>3. QED
    BY <2>1, <2>2, JobWritesCanary DEF JobType
<1>3. \A v \in Workers, i \in Items : Holds(v, i)' => Holds(v, i)
  <2>1. CASE UNCHANGED worker
    BY <2>1 DEF Holds
  <2>2. CASE ReceiveExecute(w)
    <3>1. \A v \in Workers, i \in Items : Holds(v, i)' => v # w
      BY <2>2 DEF ReceiveExecute, Holds, Idle, NoTask, Inductive, TypeOK
    <3>2. \A v \in Workers : v # w => worker'[v] = worker[v]
      BY <2>2 DEF ReceiveExecute, Inductive, TypeOK
    <3>3. QED
      BY <3>1, <3>2 DEF Holds
  <2>3. CASE ReceiveCancel(w, late)
    <3>1. PICK look, listed : worker' = [worker EXCEPT ![w] = CancelPass(listed, late, look)]
      BY <2>3 DEF ReceiveCancel
    <3>2. \A i \in Items : CancelPass(listed, late, look).todo[i].kind # "apply"
      BY DEF CancelPass, CancelTask, UndoTask, NoTask, Idle
    <3>3. \A v \in Workers, i \in Items : Holds(v, i)' => v # w
      BY <3>1, <3>2 DEF Holds, Inductive, TypeOK
    <3>4. \A v \in Workers : v # w => worker'[v] = worker[v]
      BY <3>1 DEF Inductive, TypeOK
    <3>5. QED
      BY <3>3, <3>4 DEF Holds
  <2>4. QED
    BY <2>1, <2>2, <2>3 DEF ReceiveStale
<1>4. QED
  BY <1>1, <1>2, <1>3 DEF ClaimsKept

(* Working on a batch changes only subscriptions that were claimed.         *)
LEMMA TaskKeepsClaims ==
  ASSUME Inductive, NEW w \in Workers, NEW i \in Items,
         \/ EndClaim(w) \/ ApplyItem(w, i) \/ SkipPending(w, i)
         \/ UndoItem(w, i) \/ AwaitPendingUpdate(w, i)
  PROVE  ClaimsKept
<1>1. UNCHANGED <<item, job>>
  BY DEF EndClaim, ApplyItem, SkipPending, UndoItem, AwaitPendingUpdate
<1>2. touched' \subseteq touched \cup {k \in Items : \E v \in Workers : Holds(v, k)}
  BY DEF EndClaim, ApplyItem, SkipPending, UndoItem, AwaitPendingUpdate
<1>3. \A v \in Workers, k \in Items : Holds(v, k)' => Holds(v, k)
  <2>1. worker[w] \in WorkerType
    BY WorkerTyped
  <2>2. \/ worker'[w].todo = worker[w].todo
        \/ worker'[w].todo = [worker[w].todo EXCEPT ![i] = NoTask]
    <3>1. worker \in [Workers -> WorkerType]
      BY DEF Inductive, TypeOK
    <3>2. CASE EndClaim(w) \/ SkipPending(w, i)
      <4>1. \/ worker'[w] = [worker[w] EXCEPT !.pc = "work"]
            \/ worker'[w] = [worker[w] EXCEPT !.pc = "finish", !.cur = i, !.res = "skipped"]
        BY <3>1, <3>2 DEF EndClaim, SkipPending
      <4>2. QED
        BY <2>1, <4>1 DEF WorkerType
    <3>3. CASE ApplyItem(w, i)
      <4>1. PICK r, g : worker' = [worker EXCEPT ![w] =
              [worker[w] EXCEPT !.pc = "finish", !.cur = i, !.res = r, !.guarded = g]]
        BY <3>3 DEF ApplyItem
      <4>2. QED
        BY <2>1, <3>1, <4>1 DEF WorkerType
    <3>4. CASE UndoItem(w, i)
      <4>1. PICK r, g : worker' = [worker EXCEPT ![w] =
              [worker[w] EXCEPT !.pc = "finish", !.cur = i, !.res = r, !.guarded = g]]
        BY <3>4 DEF UndoItem
      <4>2. QED
        BY <2>1, <3>1, <4>1 DEF WorkerType
    <3>5. CASE AwaitPendingUpdate(w, i)
      <4>1. worker'[w] = [worker[w] EXCEPT !.wait = TRUE,
                                           !.todo = [worker[w].todo EXCEPT ![i] = NoTask]]
        BY <2>1, <3>1, <3>5 DEF AwaitPendingUpdate, WorkerType
      <4>2. QED
        BY <2>1, <4>1 DEF WorkerType
    <3>6. QED
      BY <3>2, <3>3, <3>4, <3>5
  <2>3. \A v \in Workers : v # w => worker'[v] = worker[v]
    BY DEF EndClaim, ApplyItem, SkipPending, UndoItem, AwaitPendingUpdate, Inductive, TypeOK
  <2>4. \A k \in Items : worker'[w].todo[k].kind = "apply" => worker[w].todo[k].kind = "apply"
    BY <2>1, <2>2 DEF NoTask, WorkerType
  <2>5. QED
    BY <2>3, <2>4 DEF Holds
<1>4. QED
  BY <1>1, <1>2, <1>3 DEF ClaimsKept

(* Settling an item, or failing to, claims nothing.                         *)
LEMMA SettleKeepsClaims ==
  ASSUME Inductive, NEW w \in Workers,
         \/ LoadItem(w) \/ AlreadySettled(w) \/ RetryRecorded(w) \/ CommitItem(w) \/ CommitSeen(w)
         \/ Conflict(w) \/ Continue(w) \/ CancelDone(w) \/ Unreadable(w) \/ Crash(w)
  PROVE  ClaimsKept
<1>1. UNCHANGED touched
  BY DEF LoadItem, AlreadySettled, RetryRecorded, CommitItem, CommitSeen, Conflict, Continue, CancelDone,
         Unreadable, Crash
<1>2. \A i \in Items : item'[i].attempts = item[i].attempts /\ item'[i].canary = item[i].canary
  <2>1. CASE UNCHANGED item
    BY <2>1
  <2>2. CASE CommitItem(w)
    BY <2>2, CommitWrites
  <2>3. QED
    BY <2>1, <2>2 DEF LoadItem, AlreadySettled, RetryRecorded, CommitItem, CommitSeen, Conflict, Continue,
                      CancelDone, Unreadable, Crash
<1>3. job'.canaryClaims = job.canaryClaims /\ job'.canaryApproved = job.canaryApproved
  <2>1. job \in JobType
    BY DEF Inductive, TypeOK
  <2>2. CASE CommitItem(w)
    <3>1. worker[w].view.job \in JobType
      BY <2>2 DEF CommitItem, Inductive, WorkerShape, Shaped, ViewType
    <3>2. \/ job' = job
          \/ job = worker[w].view.job /\ job' = Written(w)
      BY <2>2 DEF CommitItem, Unchanged
    <3>3. QED
      BY <3>1, <3>2, MetricsCanary DEF Written
  <2>3. CASE \E look : job' \in {job, Continued(job), Finalized(job, look)}
    BY <2>1, <2>3, JobWritesCanary
  <2>4. QED
    BY <2>2, <2>3 DEF LoadItem, AlreadySettled, RetryRecorded, CommitSeen, Conflict, Continue,
                      CancelDone, Unreadable, Crash
<1>4. \A v \in Workers, k \in Items : Holds(v, k)' => Holds(v, k)
  <2>1. worker[w] \in WorkerType
    BY WorkerTyped
  <2>2. \/ worker'[w].todo = worker[w].todo
        \/ worker'[w].todo = [worker[w].todo EXCEPT ![worker[w].cur] = NoTask]
        \/ worker'[w].todo = Idle.todo
    <3>1. worker \in [Workers -> WorkerType]
      BY DEF Inductive, TypeOK
    <3>2. CASE worker' = [worker EXCEPT ![w] = Idle]
      BY <3>1, <3>2
    <3>3. CASE worker' = [worker EXCEPT ![w] = TaskDone(w)]
      BY <2>1, <3>1, <3>3 DEF TaskDone, WorkerType
    <3>4. CASE \E b : worker' = [worker EXCEPT ![w] = [TaskDone(w) EXCEPT !.wait = b]]
      BY <2>1, <3>1, <3>4 DEF TaskDone, WorkerType
    <3>5. CASE LoadItem(w)
      BY <2>1, <3>1, <3>5 DEF LoadItem, WorkerType
    <3>6. CASE worker' = [worker EXCEPT ![w] =
                 [@ EXCEPT !.pc = "finish", !.res = "needs_review", !.guarded = FALSE,
                           !.view = NoView]]
      BY <2>1, <3>1, <3>6 DEF WorkerType
    <3>7. QED
      BY <3>2, <3>3, <3>4, <3>5, <3>6 DEF AlreadySettled, RetryRecorded, CommitItem, CommitSeen,
         TaskSettled, Conflict, Continue, CancelDone, Unreadable, Crash
  <2>3. \A v \in Workers : v # w => worker'[v] = worker[v]
    BY DEF LoadItem, AlreadySettled, RetryRecorded, CommitItem, CommitSeen, Conflict, Continue,
           CancelDone, Unreadable, Crash, Inductive, TypeOK
  <2>4. \A k \in Items : worker'[w].todo[k].kind = "apply" => worker[w].todo[k].kind = "apply"
    BY <2>1, <2>2 DEF NoTask, Idle, WorkerType
  <2>5. QED
    BY <2>3, <2>4 DEF Holds
<1>5. QED
  BY <1>1, <1>2, <1>3, <1>4 DEF ClaimsKept

(* The webhook claims nothing.                                              *)
LEMMA HookKeepsClaims ==
  ASSUME Inductive, HookStep
  PROVE  ClaimsKept
<1>1. UNCHANGED <<worker, touched>>
  BY DEF HookStep, HookIgnore, HookDecide, HookFinish, HookContinue, HookFail
<1>2. \A i \in Items : item'[i].attempts = item[i].attempts /\ item'[i].canary = item[i].canary
  <2>1. CASE UNCHANGED item
    BY <2>1
  <2>2. CASE HookFinish
    BY <2>2 DEF HookFinish, Settled, Inductive, TypeOK, ItemType
  <2>3. QED
    BY <2>1, <2>2 DEF HookStep, HookIgnore, HookDecide, HookContinue, HookFail
<1>3. job'.canaryClaims = job.canaryClaims /\ job'.canaryApproved = job.canaryApproved
  <2>1. job \in JobType
    BY DEF Inductive, TypeOK
  <2>2. CASE HookFinish
    BY <2>1, <2>2, MetricsCanary DEF HookFinish
  <2>3. CASE \E look : job' \in {job, Continued(job), Finalized(job, look)}
    BY <2>1, <2>3, JobWritesCanary
  <2>4. QED
    BY <2>2, <2>3 DEF HookStep, HookIgnore, HookDecide, HookContinue, HookFail
<1>4. QED
  BY <1>1, <1>2, <1>3 DEF ClaimsKept, Holds

(* No control withdraws an approval.                                        *)
LEMMA OperatorKeepsClaims ==
  ASSUME Inductive, Operator
  PROVE  ClaimsKept
<1>1. UNCHANGED <<worker, touched, item>>
  BY DEF Operator, Pause, Resume, Cancel, Control, ReplayCommand
<1>2. job'.canaryClaims = job.canaryClaims /\ (job.canaryApproved => job'.canaryApproved)
  <2>1. job \in JobType
    BY DEF Inductive, TypeOK
  <2>2. CASE Pause \/ Cancel
    BY <2>1, <2>2 DEF Pause, Cancel, Control, JobType
  <2>3. CASE Resume
    <3> DEFINE ok == job.canaryApproved \/ job.approvalRequired
    <3>1. ok \in BOOLEAN /\ (job.canaryApproved => ok)
      OBVIOUS
    <3>2. job' = [[job EXCEPT !.state = "running", !.approvalRequired = FALSE,
                              !.canaryApproved = ok] EXCEPT !.revision = @ + 1]
      BY <2>3 DEF Resume, Control
    <3> HIDE DEF ok
    <3>3. QED
      BY <2>1, <3>1, <3>2 DEF JobType
  <2>4. CASE ReplayCommand
    BY <2>4 DEF ReplayCommand
  <2>5. QED
    BY <2>2, <2>3, <2>4 DEF Operator
<1>3. QED
  BY <1>1, <1>2 DEF ClaimsKept, Holds

(* Stripe, other jobs, crashes and time claim nothing.                      *)
LEMMA EnvironmentKeepsClaims ==
  ASSUME Inductive, Environment
  PROVE  ClaimsKept
<1>1. CASE \E w \in Workers : Crash(w)
  BY <1>1, SettleKeepsClaims
<1>2. CASE \E i \in Items : LeaseExpires(i)
  BY <1>2 DEF LeaseExpires, ClaimsKept, Holds, Inductive, TypeOK, ItemType
<1>3. CASE UNCHANGED <<job, item, worker, touched>>
  BY <1>3 DEF ClaimsKept, Holds
<1>4. QED
  BY <1>1, <1>2, <1>3
  DEF Environment, ProviderSettles, Renewal, ExternalUpdate, ForeignClaim, ForeignFinish, HookCrash

-----------------------------------------------------------------------------
(* A step with ClaimsKept preserves the invariant.                          *)
LEMMA QuietStep ==
  ASSUME Inductive, CanaryInv, ClaimsKept, job' \in JobType
  PROVE  CanaryInv'
<1>1. Canaries' = Canaries
  BY DEF Canaries, ClaimsKept
<1>2. /\ \A w \in Workers, i \in Items : Holds(w, i)' => item'[i].attempts > 0
      /\ touched' \subseteq Items /\ \A i \in touched' : item'[i].attempts > 0
  BY DEF CanaryInv, ClaimsKept
<1>3. ~job'.canaryApproved =>
        \A i \in Items : item'[i].attempts > 0 => item'[i].canary
  BY DEF CanaryInv, ClaimsKept
<1>4. Cardinality(Canaries') <= job'.canaryClaims /\ job'.canaryClaims <= CanarySize
  BY <1>1 DEF CanaryInv, ClaimsKept
<1>5. QED
  BY <1>2, <1>3, <1>4 DEF CanaryInv

(* So does a claim, by the conditions of its transaction.                   *)
LEMMA ClaimStepCanary ==
  ASSUME Inductive, CanaryInv, NEW w \in Workers, NEW i \in Items, NEW s \in Slots,
         Claim(w, i, s)
  PROVE  CanaryInv'
<1> DEFINE canary == worker[w].first /\ ~ReconcileOnly(i)
           attempt == IF ReconcileOnly(i) THEN MaxAttempts ELSE item[i].attempts + 1
           mark == IF ReconcileOnly(i) THEN item[i].canary ELSE canary
<1>1. /\ worker[w] \in WorkerType /\ item[i] \in ItemType /\ job \in JobType
      /\ worker \in [Workers -> WorkerType] /\ item \in [Items -> ItemType]
  BY DEF Inductive, TypeOK
<1>2. attempt \in Nat /\ attempt > 0
  BY <1>1, BoundsAssumption DEF ItemType, ReconcileOnly
<1>3. /\ item'[i].attempts = attempt /\ item'[i].canary = mark
      /\ \A k \in Items : k # i => item'[k] = item[k]
  <2>1. mark \in BOOLEAN
    BY <1>1 DEF ItemType
  <2>2. item' = [item EXCEPT ![i] = [@ EXCEPT !.state = "applying", !.attempts = attempt,
                     !.lease = "live", !.slot = s, !.past = Earlier(item[i]),
                     !.canary = mark]]
    BY Zenon DEF Claim
  <2> HIDE DEF mark, attempt
  <2>3. QED
    BY <1>1, <2>2 DEF ItemType
<1>4. \A v \in Workers, k \in Items : Holds(v, k)' => Holds(v, k) \/ k = i
  <2>1. worker' = [worker EXCEPT ![w] = [worker[w] EXCEPT !.todo =
                    [worker[w].todo EXCEPT ![i] = [kind |-> "apply", n |-> attempt]]]]
    BY <1>1 DEF Claim, WorkerType
  <2>2. QED
    BY <1>1, <2>1 DEF Holds, WorkerType
<1>5. touched' = touched
  BY DEF Claim
<1>6. CASE canary
  <2>1. /\ job.canaryClaims < CanarySize
        /\ job'.canaryClaims = job.canaryClaims + 1
        /\ job'.canaryApproved = job.canaryApproved
    BY <1>1, <1>6 DEF Claim, CanaryOpen, JobType
  <2>2. item'[i].canary = TRUE
    BY <1>3, <1>6
  <2>3. Canaries' \subseteq Canaries \cup {i}
    BY <1>3 DEF Canaries
  <2>4. Cardinality(Canaries') <= Cardinality(Canaries) + 1
        /\ Cardinality(Canaries) \in Nat /\ Cardinality(Canaries') \in Nat
    <3>1. IsFiniteSet(Canaries) /\ Cardinality(Canaries) \in Nat
      BY SetsAssumption, FS_Subset, FS_CardinalityType DEF Canaries
    <3>2. /\ IsFiniteSet(Canaries \cup {i})
          /\ Cardinality(Canaries \cup {i}) <= Cardinality(Canaries) + 1
          /\ Cardinality(Canaries \cup {i}) \in Nat
      BY <3>1, FS_AddElement, FS_CardinalityType
    <3>3. QED
      BY <2>3, <3>1, <3>2, FS_Subset, FS_CardinalityType
  <2>5. Cardinality(Canaries') <= job'.canaryClaims /\ job'.canaryClaims <= CanarySize
    BY <1>1, <2>1, <2>4, BoundsAssumption DEF CanaryInv, JobType
  <2>6. QED
    BY <1>2, <1>3, <1>4, <1>5, <2>1, <2>2, <2>5 DEF CanaryInv
<1>7. CASE ~canary
  <2>1. job' = job /\ job.canaryApproved
    BY <1>7 DEF Claim, BulkOpen
  <2>2. Canaries' \subseteq Canaries
    BY <1>3, <1>7 DEF Canaries
  <2>3. Cardinality(Canaries') <= Cardinality(Canaries)
        /\ Cardinality(Canaries) \in Nat /\ Cardinality(Canaries') \in Nat
    <3>1. IsFiniteSet(Canaries)
      BY SetsAssumption, FS_Subset DEF Canaries
    <3>2. QED
      BY <2>2, <3>1, FS_Subset, FS_CardinalityType
  <2>4. Cardinality(Canaries') <= job'.canaryClaims /\ job'.canaryClaims <= CanarySize
    BY <1>1, <2>1, <2>3, BoundsAssumption DEF CanaryInv, JobType
  <2>5. QED
    BY <1>2, <1>3, <1>4, <1>5, <2>1, <2>4 DEF CanaryInv
<1>8. QED
  BY <1>6, <1>7

(* Every step preserves the invariant.                                      *)
LEMMA NextCanary == Inductive /\ CanaryInv /\ [Next]_vars => CanaryInv'
<1> SUFFICES ASSUME Inductive, CanaryInv, [Next]_vars PROVE CanaryInv'
  OBVIOUS
<1>1. job' \in JobType
  BY NextInductive DEF Inductive, TypeOK
<1>2. CASE \E w \in Workers : ClaimStep(w)
  BY <1>2, ClaimStepCanary DEF ClaimStep
<1>3. ASSUME NEW w \in Workers, WorkerStep(w), ~ClaimStep(w)
      PROVE  ClaimsKept
  <2>1. CASE \E late \in SUBSET Items :
               ReceiveStale(w) \/ ReceiveExecute(w) \/ ReceiveCancel(w, late)
    BY <2>1, ReceiveKeepsClaims
  <2>2. CASE \E i \in Items : \/ ApplyItem(w, i) \/ SkipPending(w, i)
                             \/ UndoItem(w, i) \/ AwaitPendingUpdate(w, i)
    BY <2>2, TaskKeepsClaims
  <2>3. CASE EndClaim(w)
    <3>1. UNCHANGED <<item, job, touched>>
      BY <2>3 DEF EndClaim
    <3>2. worker'[w].todo = worker[w].todo /\ \A v \in Workers : v # w => worker'[v] = worker[v]
      BY <2>3 DEF EndClaim, Inductive, TypeOK, WorkerType
    <3>3. QED
      BY <3>1, <3>2 DEF ClaimsKept, Holds
  <2>4. QED
    BY <1>3, <2>1, <2>2, <2>3, SettleKeepsClaims DEF WorkerStep
<1>4. CASE HookStep \/ Operator \/ Environment
  BY <1>1, <1>4, QuietStep, HookKeepsClaims, OperatorKeepsClaims, EnvironmentKeepsClaims
<1>5. CASE UNCHANGED vars
  BY <1>5 DEF vars, CanaryInv, Canaries, Holds
<1>6. QED
  BY <1>1, <1>2, <1>3, <1>4, <1>5, QuietStep DEF Next

(* Nothing was claimed when the job was scheduled.                          *)
LEMMA InitCanary == Init => CanaryInv
<1> SUFFICES ASSUME Init PROVE CanaryInv
  OBVIOUS
<1>1. /\ \A i \in Items : item[i].attempts = 0 /\ item[i].canary = FALSE
      /\ job.canaryClaims = 0 /\ touched = {}
      /\ \A w \in Workers : worker[w] = Idle
  BY DEF Init
<1>2. Canaries = {}
  BY <1>1 DEF Canaries
<1>3. \A w \in Workers, i \in Items : ~Holds(w, i)
  BY <1>1 DEF Holds, Idle, NoTask
<1>4. QED
  BY <1>1, <1>2, <1>3, FS_EmptySet, BoundsAssumption DEF CanaryInv

(* Until the canary is approved the job has changed at most CanarySize      *)
(* subscriptions: claim_items and its transactions (migration_store.py)     *)
(* bound what the workers do, however many of them run, crash and retry.    *)
THEOREM CanaryHolds == Spec => []CanaryBound
<1>1. Inductive /\ CanaryInv => CanaryBound
  <2> SUFFICES ASSUME Inductive, CanaryInv, ~job.canaryApproved
               PROVE  Cardinality(touched) <= CanarySize
    BY DEF CanaryBound
  <2>1. touched \subseteq Canaries
    BY DEF CanaryInv, Canaries
  <2>2. IsFiniteSet(Canaries)
    BY SetsAssumption, FS_Subset DEF Canaries
  <2>3. /\ Cardinality(touched) <= Cardinality(Canaries)
        /\ Cardinality(touched) \in Nat /\ Cardinality(Canaries) \in Nat
    BY <2>1, <2>2, FS_Subset, FS_CardinalityType
  <2>4. QED
    BY <2>3, BoundsAssumption DEF CanaryInv, Inductive, TypeOK, JobType
<1>2. QED
  BY <1>1, InitCanary, InitInductive, NextInductive, NextCanary, PTL DEF Spec
=============================================================================
