------------------------- MODULE MigrationTypes_proofs -------------------------
(***************************************************************************)
(* Proofs about SubscriptionMigration, for any number of items, workers    *)
(* and slots and any bounds.                                               *)
(***************************************************************************)
EXTENDS SubscriptionMigration, FiniteSetTheorems, TLAPS

-----------------------------------------------------------------------------
(* What TypeOK needs to be inductive: a worker that settles an item knows   *)
(* which and how, and has read it before it writes; so does the webhook; an *)
(* item still to be undone has a retry left; and the queue holds a message  *)
(* for every invocation that runs.                                          *)

Shaped(m) ==
  /\ m.pc \in {"finish", "commit"} => m.cur \in Items /\ m.res \in ItemStates
  /\ m.pc = "commit" => m.view \in ViewType

WorkerShape == \A w \in Workers : Shaped(worker[w])
HookShape == hook.pc # "idle" => hook.item \in Items /\ hook.target \in ItemStates
UndoBound == \A i \in Items : item[i].state \in Finishable => item[i].undo < MaxAttempts
QueueHolds == Cardinality(Busy) <= queue

Inductive == TypeOK /\ WorkerShape /\ HookShape /\ UndoBound /\ QueueHolds

-----------------------------------------------------------------------------
(* The job record keeps its type under every way the code rewrites it. *)

(* _finish_item writes a job record again.                                  *)
LEMMA MetricsType ==
  ASSUME NEW j \in JobType, NEW it, NEW new
  PROVE  Metrics(j, it, new) \in JobType
<1> DEFINE Moved(S) == Bit(new \in S) - Bit(it.state \in S)
           Ended(S) == Bit(it.state \notin S /\ new \in S)
<1>1. ASSUME NEW S PROVE Moved(S) \in Int /\ Ended(S) \in Int
  BY DEF Bit
<1>2. ASSUME NEW a \in Int, NEW b \in Int, NEW c \in Int, NEW d \in Int, NEW e \in Int,
             NEW f \in Int, NEW g \in Int
      PROVE  [j EXCEPT !.pending = a, !.applied = b, !.needsReview = c, !.awaiting = d,
                       !.appliedItems = e, !.canaryCompleted = f, !.remaining = g] \in JobType
  BY DEF JobType
<1>3. /\ j.pending \in Int /\ j.applied \in Int /\ j.needsReview \in Int
      /\ j.awaiting \in Int /\ j.appliedItems \in Int /\ j.canaryCompleted \in Int
      /\ j.remaining \in Int
  BY DEF JobType
<1> HIDE DEF Moved, Ended
<1> DEFINE completed == IF it.canary THEN Ended(TerminalStates) ELSE 0
           settled == IF j.state = "canceling" THEN Ended(CancelTerminal) ELSE 0
<1>4. completed \in Int /\ settled \in Int
  BY <1>1
<1> HIDE DEF completed, settled
<1>5. [j EXCEPT
        !.pending         = j.pending + Moved(PendingStates),
        !.applied         = j.applied + Moved(AppliedBucket),
        !.needsReview     = j.needsReview + Moved(ReviewStates),
        !.awaiting        = j.awaiting + Moved({"awaiting_provider"}),
        !.appliedItems    = j.appliedItems + Moved(AppliedStates),
        !.canaryCompleted = j.canaryCompleted + completed,
        !.remaining       = j.remaining - settled] \in JobType
  <2>1. /\ j.pending + Moved(PendingStates) \in Int
        /\ j.applied + Moved(AppliedBucket) \in Int
        /\ j.needsReview + Moved(ReviewStates) \in Int
        /\ j.awaiting + Moved({"awaiting_provider"}) \in Int
        /\ j.appliedItems + Moved(AppliedStates) \in Int
        /\ j.canaryCompleted + completed \in Int
        /\ j.remaining - settled \in Int
    BY <1>1, <1>3, <1>4
  <2>2. QED
    BY <2>1, <1>2
<1>6. QED
  BY <1>5 DEF Metrics, Moved, Ended, completed, settled
(* So do begin_cancel, continue_execution and finalize_cancellation.        *)
LEMMA JobWrites ==
  ASSUME NEW j \in JobType
  PROVE  /\ BeginCancel(j) \in JobType
         /\ Continued(j) \in JobType
         /\ \A look : Finalized(j, look) \in JobType
<1>1. {"paused", "completed", "completed_with_errors", "canceling", "canceled"}
        \subseteq JobStates
  BY DEF JobStates, CancelStates, ClosedJobStates
<1>2. /\ j.pending + j.appliedItems \in Int
      /\ j.revision + 1 \in Nat
  BY DEF JobType
<1>3. ASSUME NEW s \in JobStates, NEW r \in Nat, NEW n \in Int, NEW a \in BOOLEAN
      PROVE  /\ [j EXCEPT !.state = s, !.revision = r, !.remaining = n] \in JobType
             /\ [j EXCEPT !.state = s, !.revision = r, !.approvalRequired = a] \in JobType
             /\ [j EXCEPT !.state = s, !.revision = r] \in JobType
  BY DEF JobType
<1>4. BeginCancel(j) \in JobType
  BY <1>1, <1>2, <1>3 DEF BeginCancel
<1>5. Continued(j) \in JobType
  BY <1>1, <1>2, <1>3 DEF Continued
<1>6. ASSUME NEW look PROVE Finalized(j, look) \in JobType
  BY <1>1, <1>2, <1>3 DEF Finalized
<1>7. QED
  BY <1>4, <1>5, <1>6

-----------------------------------------------------------------------------
(* The invocations that run, and the messages they hold. *)

(* Only finitely many invocations run.                                      *)
LEMMA BusyFinite == IsFiniteSet(Busy) /\ Cardinality(Busy) \in Nat
  BY SetsAssumption, FS_Subset, FS_CardinalityType DEF Busy

(* A worker that ends its invocation leaves one fewer running.              *)
LEMMA BusyDrops ==
  ASSUME NEW w \in Busy
  PROVE  Cardinality(Busy \ {w}) = Cardinality(Busy) - 1
  BY BusyFinite, FS_RemoveElement

(* A worker that receives a message makes one more.                         *)
LEMMA BusyGrows ==
  ASSUME NEW w, w \notin Busy
  PROVE  Cardinality(Busy \cup {w}) = Cardinality(Busy) + 1
  BY BusyFinite, FS_AddElement

(* Whatever else a running worker does, no more are running than before.    *)
LEMMA BusyShrinks ==
  ASSUME QueueHolds, Busy' \subseteq Busy, queue \in Int, queue' \in Int, queue <= queue'
  PROVE  QueueHolds'
<1>1. Cardinality(Busy') <= Cardinality(Busy)
  BY BusyFinite, FS_Subset
<1>2. Cardinality(Busy') \in Nat /\ Cardinality(Busy) \in Nat
  BY BusyFinite, FS_Subset, FS_CardinalityType
<1>3. QED
  BY <1>1, <1>2 DEF QueueHolds

(* What the work index may show of an item is a version it has or had.      *)
LEMMA LookTypes ==
  ASSUME Inductive, NEW look \in Looks, NEW i \in Items
  PROVE  /\ look[i] \in Shown(i)
         /\ look[i].undo \in 0..MaxAttempts
         /\ look[i].state \in ItemStates
<1>1. look[i] \in Shown(i)
  BY DEF Looks
<1>2. item[i] \in ItemType
  BY DEF Inductive, TypeOK
<1>3. CASE look[i] = Version(item[i], FALSE)
  BY <1>1, <1>2, <1>3 DEF Version, ItemType
<1>4. CASE look[i] \in item[i].past
  <2>1. item[i].past \subseteq PastType
    BY <1>2 DEF ItemType
  <2>2. look[i] \in PastType
    BY <1>4, <2>1
  <2>3. QED
    BY <1>1, <2>2 DEF PastType
<1>5. QED
  BY <1>1, <1>3, <1>4 DEF Shown

(* A write adds the version it replaces to those the index may still show.  *)
LEMMA EarlierType ==
  ASSUME NEW it \in ItemType
  PROVE  Earlier(it) \in SUBSET PastType
<1>1. Version(it, TRUE) \in PastType /\ it.past \in SUBSET PastType
  BY DEF Version, ItemType, PastType
<1>2. QED
  BY <1>1 DEF Earlier

(* The tasks a worker can be given are well formed.                         *)
LEMMA TaskTypes ==
  /\ NoTask \in TaskType
  /\ \A n \in 0..MaxAttempts, k \in {"apply", "skip", "release", "inspect"} :
       [kind |-> k, n |-> n] \in TaskType
  BY BoundsAssumption DEF NoTask, TaskType

(* An idle worker and an idle webhook are well formed.                      *)
LEMMA IdleTypes == Idle \in WorkerType /\ Shaped(Idle) /\ IdleHook \in HookType
<1>1. [i \in Items |-> NoTask] \in [Items -> TaskType] /\ {} \in SUBSET Items
  BY TaskTypes
<1>2. Idle \in WorkerType /\ Shaped(Idle)
  BY <1>1 DEF Idle, WorkerType, Shaped
<1>3. IdleHook \in HookType
  BY BoundsAssumption DEF IdleHook, HookType
<1>4. QED
  BY <1>2, <1>3

(* A running invocation that changes its own state keeps the workers' part. *)
LEMMA WorkerMoves ==
  ASSUME Inductive, NEW w \in Workers, worker[w].pc # "idle",
         NEW m \in WorkerType, Shaped(m), worker' = [worker EXCEPT ![w] = m],
         queue' \in 0..MaxMessages, queue <= queue'
  PROVE  worker' \in [Workers -> WorkerType] /\ WorkerShape' /\ QueueHolds'
<1>1. worker' \in [Workers -> WorkerType] /\ WorkerShape'
  BY DEF Inductive, TypeOK, WorkerShape
<1>2. Busy' \subseteq Busy
  BY DEF Busy, Inductive, TypeOK
<1>3. QED
  BY <1>1, <1>2, BusyShrinks, BoundsAssumption DEF Inductive, TypeOK

(* So does one that ends and deletes its message, or leaves it to come back. *)
LEMMA WorkerEnds ==
  ASSUME Inductive, NEW w \in Workers, worker[w].pc # "idle",
         worker' = [worker EXCEPT ![w] = Idle], Acknowledge \/ UNCHANGED queue
  PROVE  /\ worker' \in [Workers -> WorkerType] /\ WorkerShape'
         /\ QueueHolds' /\ queue' \in 0..MaxMessages
<1>1. worker' \in [Workers -> WorkerType] /\ WorkerShape'
  BY IdleTypes DEF Inductive, TypeOK, WorkerShape
<1>2. Busy' = Busy \ {w} /\ w \in Busy
  BY DEF Busy, Idle, Inductive, TypeOK
<1>3. Cardinality(Busy') = Cardinality(Busy) - 1 /\ Cardinality(Busy) \in Nat
      /\ Cardinality(Busy') \in Nat
  BY <1>2, BusyDrops, BusyFinite, FS_Subset, FS_CardinalityType
<1>4. QED
  BY <1>1, <1>3, BoundsAssumption DEF Inductive, TypeOK, QueueHolds, Acknowledge

(* While the queue does not shrink and no worker starts, QueueHolds stays.  *)
LEMMA QueueKept ==
  ASSUME Inductive, UNCHANGED queue
  PROVE  queue' \in 0..MaxMessages /\ queue <= queue'
  BY BoundsAssumption DEF Inductive, TypeOK

(* A send keeps the queue within its bound and takes nothing from it.       *)
LEMMA SendType ==
  ASSUME queue \in 0..MaxMessages, Send
  PROVE  queue' \in 0..MaxMessages /\ queue <= queue'
  BY BoundsAssumption DEF Send

-----------------------------------------------------------------------------
(* One lemma per group of actions: Inductive is kept. *)

(* A message for a paused or closed job is dropped.                         *)
LEMMA ReceiveStaleKeeps ==
  ASSUME Inductive, NEW w \in Workers, ReceiveStale(w)
  PROVE  Inductive'
<1>1. queue' \in 0..MaxMessages /\ QueueHolds'
  BY BusyFinite, BoundsAssumption
  DEF ReceiveStale, Receives, Acknowledge, QueueHolds, Busy, Inductive, TypeOK
<1>2. QED
  BY <1>1 DEF ReceiveStale, Inductive, TypeOK, WorkerShape, HookShape, UndoBound

(* A message for a scheduled or running job starts a batch.                 *)
LEMMA ReceiveExecuteKeeps ==
  ASSUME Inductive, NEW w \in Workers, ReceiveExecute(w)
  PROVE  Inductive'
<1> DEFINE started == IF job.state = "running" THEN job
                      ELSE [job EXCEPT !.state = "running", !.revision = @ + 1]
           m == [Idle EXCEPT !.pc = "claim", !.mode = "execute",
                             !.rev = started.revision, !.first = ~started.mutationStarted]
<1>1. started \in JobType
  <2>1. job \in JobType /\ job.revision + 1 \in Nat /\ "running" \in JobStates
    BY DEF Inductive, TypeOK, JobType, JobStates
  <2>2. ASSUME NEW r \in Nat
        PROVE  [job EXCEPT !.state = "running", !.revision = r] \in JobType
    BY <2>1 DEF JobType
  <2>3. QED
    BY <2>1, <2>2
<1>2. m \in WorkerType /\ Shaped(m) /\ m.pc # "idle"
  <2>1. ASSUME NEW r \in Nat, NEW b \in BOOLEAN
        PROVE  /\ [Idle EXCEPT !.pc = "claim", !.mode = "execute", !.rev = r, !.first = b]
                     \in WorkerType
               /\ [Idle EXCEPT !.pc = "claim", !.mode = "execute", !.rev = r, !.first = b].pc
                     = "claim"
    BY IdleTypes DEF WorkerType
  <2>2. started.revision \in Nat /\ (~started.mutationStarted) \in BOOLEAN
    BY <1>1 DEF JobType
  <2>3. m \in WorkerType /\ m.pc = "claim"
    BY <2>1, <2>2
  <2> HIDE DEF m
  <2>4. QED
    BY <2>3 DEF Shaped
<1>3. job' = started /\ worker' = [worker EXCEPT ![w] = m]
  BY DEF ReceiveExecute
<1> HIDE DEF started, m
<1>4. worker' \in [Workers -> WorkerType] /\ WorkerShape'
  BY <1>2, <1>3 DEF Inductive, TypeOK, WorkerShape
<1>5. Busy' = Busy \cup {w} /\ w \notin Busy
  BY <1>2, <1>3 DEF ReceiveExecute, Receives, Busy, Inductive, TypeOK
<1>6. QueueHolds'
  BY <1>5, BusyGrows, BusyFinite DEF ReceiveExecute, Receives, QueueHolds, Inductive, TypeOK
<1>7. QED
  BY <1>1, <1>3, <1>4, <1>6
  DEF ReceiveExecute, Inductive, TypeOK, HookShape, UndoBound

(* claim_items takes one more item.                                         *)
LEMMA ClaimKeeps ==
  ASSUME Inductive, NEW w \in Workers, NEW i \in Items, NEW s \in Slots, Claim(w, i, s)
  PROVE  Inductive'
<1> DEFINE attempt == IF ReconcileOnly(i) THEN MaxAttempts ELSE item[i].attempts + 1
           m == [worker[w] EXCEPT !.todo[i] = [kind |-> "apply", n |-> attempt]]
<1>1. attempt \in 0..MaxAttempts
  BY BoundsAssumption DEF Claim, Inductive, TypeOK, ItemType
<1>2. worker[w] \in WorkerType /\ Shaped(worker[w]) /\ worker[w].pc = "claim"
  BY DEF Claim, Inductive, TypeOK, WorkerShape
<1>3. m \in WorkerType /\ Shaped(m)
  BY <1>1, <1>2, TaskTypes DEF WorkerType, Shaped
<1>4. worker' = [worker EXCEPT ![w] = m] /\ UNCHANGED queue
  BY DEF Claim
<1> HIDE DEF m, attempt
<1>5. worker' \in [Workers -> WorkerType] /\ WorkerShape' /\ QueueHolds'
  BY <1>2, <1>3, <1>4, QueueKept, WorkerMoves
<1>6. job' \in JobType
  <2>1. job \in JobType /\ job.canaryClaims + 1 \in Int
    BY DEF Inductive, TypeOK, JobType
  <2> DEFINE full == job.canaryClaims + 1 >= CanarySize
  <2>2. full \in BOOLEAN
    OBVIOUS
  <2>3. job' = job \/ job' = [job EXCEPT !.canaryClaims = job.canaryClaims + 1,
                                        !.mutationStarted = full]
    BY DEF Claim
  <2> HIDE DEF full
  <2>4. QED
    BY <2>1, <2>2, <2>3 DEF JobType
<1>7. item' \in [Items -> ItemType]
  <2>1. item[i] \in ItemType
    BY DEF Inductive, TypeOK
  <2> DEFINE canary == IF ReconcileOnly(i) THEN item[i].canary
                       ELSE worker[w].first /\ ~ReconcileOnly(i)
             it == [item[i] EXCEPT !.state = "applying", !.attempts = attempt,
                                   !.lease = "live", !.slot = s,
                                   !.past = Earlier(item[i]), !.canary = canary]
  <2>2. canary \in BOOLEAN
    BY <2>1 DEF ItemType
  <2>3. item' = [item EXCEPT ![i] = it]
    BY Zenon DEF Claim, attempt
  <2> HIDE DEF canary
  <2>4. it \in ItemType
    BY <1>1, <2>1, <2>2, EarlierType DEF ItemType, ItemStates, PendingStates
  <2> HIDE DEF it
  <2>5. QED
    BY <2>3, <2>4 DEF Inductive, TypeOK
<1>8. slot' \in [Slots -> SlotType]
  BY DEF Claim, Inductive, TypeOK, SlotType
<1>9. UndoBound'
  BY DEF Claim, Claimable, ClaimableStates, Finishable, WorkStates, PendingStates,
         UndoBound, Inductive, TypeOK, ItemType
<1>10. QED
  BY <1>5, <1>6, <1>7, <1>8, <1>9 DEF Claim, Inductive, TypeOK, HookShape

(* claim_items returns.                                                     *)
LEMMA EndClaimKeeps ==
  ASSUME Inductive, NEW w \in Workers, EndClaim(w)
  PROVE  Inductive'
<1> DEFINE m == [worker[w] EXCEPT !.pc = "work"]
<1>1. m \in WorkerType /\ Shaped(m)
  BY DEF Inductive, TypeOK, WorkerType, Shaped
<1>2. worker[w].pc # "idle" /\ worker' = [worker EXCEPT ![w] = m] /\ UNCHANGED queue
  BY DEF EndClaim
<1> HIDE DEF m
<1>3. worker' \in [Workers -> WorkerType] /\ WorkerShape' /\ QueueHolds'
  BY <1>1, <1>2, QueueKept, WorkerMoves
<1>4. QED
  BY <1>3 DEF EndClaim, Inductive, TypeOK, HookShape, UndoBound

ProviderStates == {"source", "scheduled", "renewed", "target", "paying", "other"}

(* _apply_item gets an answer of the provider and decides the outcome.      *)
LEMMA ApplyItemKeeps ==
  ASSUME Inductive, NEW w \in Workers, NEW i \in Items, ApplyItem(w, i)
  PROVE  Inductive'
<1>1. PICK out \in ApplyOutcomes(provider[i]) :
        /\ provider' = [provider EXCEPT ![i] = out.to]
        /\ touched' = IF out.to # provider[i] THEN touched \cup {i} ELSE touched
        /\ worker' = [worker EXCEPT ![w] =
             [@ EXCEPT !.pc = "finish", !.cur = i,
                       !.res = IF out.res = "retryable_failure" /\ worker[w].todo[i].n >= MaxAttempts
                               THEN "needs_review" ELSE out.res,
                       !.guarded = out.res \in {"applied", "awaiting_provider"}]]
  BY DEF ApplyItem
<1>2. out.to \in ProviderStates /\ out.res \in ItemStates
  BY ChoicesAssumption
  DEF ApplyOutcomes, Reached, ProviderStates, Inductive, TypeOK,
      ItemStates, PendingStates, AppliedStates, ReviewStates
<1> DEFINE res == IF out.res = "retryable_failure" /\ worker[w].todo[i].n >= MaxAttempts
                  THEN "needs_review" ELSE out.res
           m == [worker[w] EXCEPT !.pc = "finish", !.cur = i, !.res = res,
                                  !.guarded = out.res \in {"applied", "awaiting_provider"}]
<1>3. res \in ItemStates
  BY <1>2 DEF ItemStates, ReviewStates
<1>4. worker' = [worker EXCEPT ![w] = m] /\ worker[w].pc # "idle" /\ UNCHANGED queue
  BY <1>1 DEF ApplyItem
<1> HIDE DEF res
<1>5. m \in WorkerType /\ Shaped(m)
  <2>1. worker[w] \in WorkerType
    BY DEF Inductive, TypeOK
  <2> DEFINE sure == out.res \in {"applied", "awaiting_provider"}
  <2>2. sure \in BOOLEAN
    OBVIOUS
  <2> HIDE DEF sure
  <2>3. LET n == [worker[w] EXCEPT !.pc = "finish", !.cur = i, !.res = res, !.guarded = sure]
        IN n \in WorkerType /\ Shaped(n)
    BY <1>3, <2>1, <2>2 DEF WorkerType, Shaped
  <2>4. QED
    BY <2>3 DEF sure
<1> HIDE DEF m
<1>6. worker' \in [Workers -> WorkerType] /\ WorkerShape' /\ QueueHolds'
  BY <1>4, <1>5, QueueKept, WorkerMoves
<1>7. provider' \in [Items -> ProviderStates] /\ touched' \subseteq Items
  BY <1>1, <1>2 DEF Inductive, TypeOK, ProviderStates
<1>8. QED
  BY <1>6, <1>7 DEF ApplyItem, Inductive, TypeOK, ProviderStates, HookShape, UndoBound

(* A step that only rewrites the state of one running worker.               *)
LEMMA WorkerOnly ==
  ASSUME Inductive, NEW w \in Workers, worker[w].pc # "idle",
         NEW m \in WorkerType, Shaped(m), worker' = [worker EXCEPT ![w] = m],
         UNCHANGED <<job, item, slot, provider, touched, events, hook, queue, owed, failures>>
  PROVE  Inductive'
<1>1. worker' \in [Workers -> WorkerType] /\ WorkerShape' /\ QueueHolds'
  BY QueueKept, WorkerMoves
<1>2. QED
  BY <1>1 DEF Inductive, TypeOK, HookShape, UndoBound

(* A worker that has dealt with an item goes back to its batch.             *)
LEMMA TaskDoneType ==
  ASSUME Inductive, NEW w \in Workers
  PROVE  TaskDone(w) \in WorkerType /\ Shaped(TaskDone(w)) /\ TaskDone(w).pc = "work"
<1> DEFINE todo == [worker[w].todo EXCEPT ![worker[w].cur] = NoTask]
           m == [worker[w] EXCEPT !.pc = "work", !.cur = NoItem, !.res = "none",
                                  !.guarded = FALSE, !.view = NoView, !.todo = todo]
<1>1. worker[w] \in WorkerType
  BY DEF Inductive, TypeOK
<1>2. todo \in [Items -> TaskType]
  BY <1>1, TaskTypes DEF WorkerType
<1>3. TaskDone(w) = m
  BY <1>1 DEF TaskDone, WorkerType
<1> HIDE DEF todo
<1>4. m \in WorkerType /\ Shaped(m) /\ m.pc = "work"
  BY <1>1, <1>2 DEF WorkerType, Shaped
<1>5. QED
  BY <1>3, <1>4

(* Inductive gives every worker its type.                                   *)
LEMMA WorkerTyped == ASSUME Inductive, NEW w \in Workers PROVE worker[w] \in WorkerType
  BY DEF Inductive, TypeOK

(* So does one that settled an item and may have to come back to it.        *)
LEMMA TaskSettledType ==
  ASSUME Inductive, NEW w \in Workers
  PROVE  TaskSettled(w) \in WorkerType /\ Shaped(TaskSettled(w)) /\ TaskSettled(w).pc = "work"
<1> DEFINE more == worker[w].wait \/ (Retrying(w) /\ UndoCount(w) < MaxAttempts)
<1>1. more \in BOOLEAN
  OBVIOUS
<1> HIDE DEF more
<1>2. [TaskDone(w) EXCEPT !.wait = more] \in WorkerType
  BY <1>1, TaskDoneType DEF WorkerType
<1>3. /\ [TaskDone(w) EXCEPT !.wait = more].pc = "work"
      /\ Shaped([TaskDone(w) EXCEPT !.wait = more])
  BY TaskDoneType DEF Shaped, WorkerType
<1>4. TaskSettled(w) = [TaskDone(w) EXCEPT !.wait = more]
  BY DEF TaskSettled, more
<1>5. QED
  BY <1>2, <1>3, <1>4

(* What a cancellation pass is given to do is well formed.                  *)
LEMMA CancelTaskType ==
  ASSUME Inductive, NEW look \in Looks, NEW i \in Items, NEW late
  PROVE  CancelTask(i, look[i], late) \in TaskType
<1>1. UndoTask(look[i]) \in TaskType
  BY LookTypes, TaskTypes DEF UndoTask
<1>2. QED
  BY <1>1, TaskTypes DEF CancelTask

(* A message for a job to be canceled lists what is to be undone.           *)
LEMMA ReceiveCancelKeeps ==
  ASSUME Inductive, NEW w \in Workers, NEW late \in SUBSET Items, ReceiveCancel(w, late)
  PROVE  Inductive'
<1>1. PICK look \in Looks :
        \E listed \in Listings(look) :
          worker' = [worker EXCEPT ![w] = CancelPass(listed, late, look)]
  BY DEF ReceiveCancel
<1>2. PICK listed \in Listings(look) :
        worker' = [worker EXCEPT ![w] = CancelPass(listed, late, look)]
  BY <1>1
<1> DEFINE todo == [i \in Items |-> IF i \in listed THEN CancelTask(i, look[i], late)
                                    ELSE NoTask]
           waiting == \E i \in listed : todo[i] = NoTask
           outdated == {i \in listed : look[i].old}
           m == [Idle EXCEPT !.pc = "work", !.mode = "cancel", !.todo = todo,
                             !.outdated = outdated, !.wait = waiting]
<1>0. outdated \in SUBSET Items
  BY DEF Listings, SeenIn
<1>3. todo \in [Items -> TaskType]
  BY CancelTaskType, TaskTypes
<1>4. waiting \in BOOLEAN
  OBVIOUS
<1>5. worker' = [worker EXCEPT ![w] = m]
  BY <1>2 DEF CancelPass
<1> HIDE DEF todo, waiting, outdated
<1>6. m \in WorkerType /\ Shaped(m) /\ m.pc = "work"
  BY <1>0, <1>3, <1>4, IdleTypes DEF Idle, WorkerType, Shaped
<1> HIDE DEF m
<1>7. worker' \in [Workers -> WorkerType] /\ WorkerShape'
  BY <1>5, <1>6 DEF Inductive, TypeOK, WorkerShape
<1>8. Busy' = Busy \cup {w} /\ w \notin Busy
  BY <1>5, <1>6 DEF ReceiveCancel, Receives, Busy, Inductive, TypeOK
<1>9. QueueHolds'
  BY <1>8, BusyGrows, BusyFinite DEF ReceiveCancel, Receives, QueueHolds, Inductive, TypeOK
<1>10. job' \in JobType
  BY JobWrites DEF ReceiveCancel, Inductive, TypeOK
<1>11. QED
  BY <1>7, <1>9, <1>10 DEF ReceiveCancel, Inductive, TypeOK, HookShape, UndoBound

(* _cancel skips a pending item.                                            *)
LEMMA SkipPendingKeeps ==
  ASSUME Inductive, NEW w \in Workers, NEW i \in Items, SkipPending(w, i)
  PROVE  Inductive'
<1> DEFINE m == [worker[w] EXCEPT !.pc = "finish", !.cur = i, !.res = "skipped"]
<1>1. m \in WorkerType /\ Shaped(m)
  BY WorkerTyped DEF WorkerType, Shaped, ItemStates, UndoneStates
<1>2. worker[w].pc # "idle" /\ worker' = [worker EXCEPT ![w] = m]
  BY DEF SkipPending
<1> HIDE DEF m
<1>3. QED
  BY <1>1, <1>2, WorkerOnly DEF SkipPending

(* _cancel_item undoes an item, or finds that it cannot.                    *)
LEMMA UndoItemKeeps ==
  ASSUME Inductive, NEW w \in Workers, NEW i \in Items, UndoItem(w, i)
  PROVE  Inductive'
<1>1. PICK out \in UndoOutcomes(i, worker[w].todo[i].kind) :
        /\ provider' = [provider EXCEPT ![i] = out.to]
        /\ worker' = [worker EXCEPT ![w] =
             [@ EXCEPT !.pc = "finish", !.cur = i, !.res = out.res,
                       !.guarded = out.guarded]]
  BY DEF UndoItem
<1>2. out.to \in ProviderStates /\ out.res \in ItemStates /\ out.guarded \in BOOLEAN
  <2>1. provider[i] \in ProviderStates
    BY DEF Inductive, TypeOK, ProviderStates
  <2>2. {"reverted", "needs_review"} \cup Faults \subseteq ItemStates
    BY ChoicesAssumption DEF ItemStates, PendingStates, UndoneStates, ReviewStates
  <2>3. /\ out.to \in {provider[i], GivenUp(i)}
        /\ out.res \in {"reverted", "needs_review"} \cup Faults
        /\ out.guarded \in {TRUE, FALSE}
    <3>1. CASE \E f \in Faults : out = [to |-> provider[i], res |-> f, guarded |-> FALSE]
      BY <3>1
    <3>2. CASE \E r \in {"reverted"} \cup Faults :
                 out = [to |-> GivenUp(i), res |-> r, guarded |-> r = "reverted"]
      <4>1. PICK r \in {"reverted"} \cup Faults :
              out = [to |-> GivenUp(i), res |-> r, guarded |-> r = "reverted"]
        BY <3>2
      <4>2. out.to = GivenUp(i) /\ out.res = r /\ out.guarded = (r = "reverted")
        BY Zenon, <4>1
      <4>3. QED
        BY <4>2
    <3>3. CASE out = [to |-> provider[i],
                      res |-> IF provider[i] = "source" THEN "reverted" ELSE "needs_review",
                      guarded |-> TRUE]
      BY <3>3
    <3>4. CASE out = [to |-> provider[i], res |-> "needs_review", guarded |-> FALSE]
      BY <3>4
    <3>5. \/ \E f \in Faults : out = [to |-> provider[i], res |-> f, guarded |-> FALSE]
          \/ \E r \in {"reverted"} \cup Faults :
                out = [to |-> GivenUp(i), res |-> r, guarded |-> r = "reverted"]
          \/ out = [to |-> provider[i],
                    res |-> IF provider[i] = "source" THEN "reverted" ELSE "needs_review",
                    guarded |-> TRUE]
          \/ out = [to |-> provider[i], res |-> "needs_review", guarded |-> FALSE]
      BY Zenon DEF UndoOutcomes
    <3>6. QED
      BY Zenon, <3>1, <3>2, <3>3, <3>4, <3>5
  <2>4. GivenUp(i) \in {"target", "source"}
    BY DEF GivenUp
  <2>5. QED
    BY <2>1, <2>2, <2>3, <2>4 DEF ProviderStates
<1> DEFINE m == [worker[w] EXCEPT !.pc = "finish", !.cur = i, !.res = out.res,
                                  !.guarded = out.guarded]
<1>3. worker' = [worker EXCEPT ![w] = m] /\ worker[w].pc # "idle" /\ UNCHANGED queue
  BY <1>1 DEF UndoItem
<1>4. m \in WorkerType /\ Shaped(m)
  BY <1>2, WorkerTyped DEF WorkerType, Shaped
<1> HIDE DEF m
<1>5. worker' \in [Workers -> WorkerType] /\ WorkerShape' /\ QueueHolds'
  BY <1>3, <1>4, QueueKept, WorkerMoves
<1>6. provider' \in [Items -> ProviderStates]
  BY <1>1, <1>2 DEF Inductive, TypeOK, ProviderStates
<1>7. QED
  BY <1>5, <1>6 DEF UndoItem, Inductive, TypeOK, ProviderStates, HookShape, UndoBound

(* _cancel_item leaves a pending update for later.                          *)
LEMMA AwaitPendingUpdateKeeps ==
  ASSUME Inductive, NEW w \in Workers, NEW i \in Items, AwaitPendingUpdate(w, i)
  PROVE  Inductive'
<1> DEFINE m == [worker[w] EXCEPT !.wait = TRUE, !.todo[i] = NoTask]
<1>1. m \in WorkerType /\ Shaped(m)
  <2>1. [worker[w].todo EXCEPT ![i] = NoTask] \in [Items -> TaskType]
    BY WorkerTyped, TaskTypes DEF WorkerType
  <2>2. Shaped(worker[w])
    BY DEF Inductive, WorkerShape
  <2>3. QED
    BY <2>1, <2>2, WorkerTyped DEF WorkerType, Shaped
<1>2. worker[w].pc # "idle" /\ worker' = [worker EXCEPT ![w] = m]
  BY DEF AwaitPendingUpdate
<1> HIDE DEF m
<1>3. QED
  BY <1>1, <1>2, WorkerOnly DEF AwaitPendingUpdate

(* _finish_item reads the job and the item.                                 *)
LEMMA LoadItemKeeps ==
  ASSUME Inductive, NEW w \in Workers, LoadItem(w)
  PROVE  Inductive'
<1> DEFINE it == item[worker[w].cur]
           v == [job |-> job, state |-> it.state, attempts |-> it.attempts, undo |-> it.undo]
           m == [worker[w] EXCEPT !.pc = "commit", !.view = v]
<1>1. worker[w].pc = "finish" /\ worker[w].cur \in Items /\ worker[w].res \in ItemStates
  BY DEF LoadItem, Inductive, WorkerShape, Shaped
<1>2. v \in ViewType
  BY <1>1 DEF LoadItem, CanLoad, Inductive, TypeOK, ItemType, ViewType
<1>3. worker' = [worker EXCEPT ![w] = m]
  BY DEF LoadItem
<1> HIDE DEF v
<1>4. m \in WorkerType /\ Shaped(m)
  BY <1>1, <1>2 DEF Inductive, TypeOK, WorkerType, Shaped
<1> HIDE DEF m
<1>5. QED
  BY <1>1, <1>3, <1>4, WorkerOnly DEF LoadItem

(* A cancellation finds the item settled.                                   *)
LEMMA AlreadySettledKeeps ==
  ASSUME Inductive, NEW w \in Workers, AlreadySettled(w)
  PROVE  Inductive'
  BY TaskDoneType, WorkerOnly DEF AlreadySettled

(* A cancellation finds its retry recorded.                                 *)
LEMMA RetryRecordedKeeps ==
  ASSUME Inductive, NEW w \in Workers, RetryRecorded(w)
  PROVE  Inductive'
<1> DEFINE m == [TaskDone(w) EXCEPT !.wait = TRUE]
<1>1. m \in WorkerType /\ Shaped(m)
  BY TaskDoneType DEF WorkerType, Shaped
<1>2. worker[w].pc # "idle" /\ worker' = [worker EXCEPT ![w] = m]
  BY DEF RetryRecorded
<1> HIDE DEF m
<1>3. QED
  BY <1>1, <1>2, WorkerOnly DEF RetryRecorded

(* _finish_item raises MigrationStoreConflict.                              *)
LEMMA ConflictKeeps ==
  ASSUME Inductive, NEW w \in Workers, Conflict(w)
  PROVE  Inductive'
<1> DEFINE m == [worker[w] EXCEPT !.pc = "finish", !.res = "needs_review", !.guarded = FALSE,
                                  !.view = NoView]
<1>1. worker[w] \in WorkerType /\ worker[w].pc # "idle" /\ worker[w].cur \in Items
  BY DEF Conflict, Inductive, TypeOK, WorkerShape, Shaped
<1>2. m \in WorkerType /\ Shaped(m)
  BY <1>1 DEF WorkerType, Shaped, ItemStates, ReviewStates
<1>3. worker' = [worker EXCEPT ![w] = m] \/ worker' = [worker EXCEPT ![w] = Idle]
  BY DEF Conflict
<1> HIDE DEF m
<1>4. QED
  BY <1>1, <1>2, <1>3, IdleTypes, WorkerOnly DEF Conflict

(* load_job rejects the record.                                             *)
LEMMA UnreadableKeeps ==
  ASSUME Inductive, NEW w \in Workers, Unreadable(w)
  PROVE  Inductive'
  BY IdleTypes, WorkerOnly DEF Unreadable

(* An invocation of the worker dies.                                        *)
LEMMA CrashKeeps ==
  ASSUME Inductive, NEW w \in Workers, Crash(w)
  PROVE  Inductive'
<1>1. /\ worker' \in [Workers -> WorkerType] /\ WorkerShape'
      /\ QueueHolds' /\ queue' \in 0..MaxMessages
  BY WorkerEnds DEF Crash
<1>2. failures' \in 0..MaxFailures
  BY BoundsAssumption DEF Crash, Inductive, TypeOK
<1>3. QED
  BY <1>1, <1>2 DEF Crash, Inductive, TypeOK, HookShape, UndoBound

(* The transaction of _finish_item commits.                                 *)
LEMMA CommitItemKeeps ==
  ASSUME Inductive, NEW w \in Workers, CommitItem(w)
  PROVE  Inductive'
<1> DEFINE i == worker[w].cur
           v == worker[w].view
<1>1. /\ worker[w].pc = "commit" /\ i \in Items /\ worker[w].res \in ItemStates
      /\ v \in ViewType
  BY DEF CommitItem, Inductive, WorkerShape, Shaped
<1>2. /\ item[i].state = v.state /\ item[i].undo = v.undo /\ v.state \in Finishable
      /\ item[i] \in ItemType /\ v.undo < MaxAttempts
  BY <1>1 DEF CommitItem, Unchanged, ViewType, Inductive, TypeOK, UndoBound
<1>3. Finishable \subseteq ItemStates /\ "needs_review" \in ItemStates \ Finishable
  BY DEF Finishable, WorkStates, ItemStates, PendingStates, AppliedStates, ReviewStates
<1>4. Target(w) \in ItemStates
  BY <1>1, <1>2, <1>3 DEF Target
<1>5. /\ UndoCount(w) \in 0..MaxAttempts
      /\ Target(w) \in Finishable => UndoCount(w) < MaxAttempts
  <2>1. v.undo \in 0..MaxAttempts
    BY <1>1 DEF ViewType
  <2>2. QED
    BY <1>1, <1>2, <1>3, <2>1, BoundsAssumption DEF UndoCount, Target
<1> DEFINE wrong == item[i].misread \/ i \in worker[w].outdated
           it == [Settled(item[i], Target(w), UndoCount(w)) EXCEPT !.misread = wrong]
<1>6. it \in ItemType /\ it.state = Target(w) /\ it.undo = UndoCount(w)
  <2>1. wrong \in BOOLEAN
    OBVIOUS
  <2> HIDE DEF wrong
  <2>2. QED
    BY <1>2, <1>4, <1>5, <2>1, EarlierType DEF Settled, ItemType
<1>7. item' = [item EXCEPT ![i] = it]
  BY DEF CommitItem
<1> HIDE DEF it
<1>8. item' \in [Items -> ItemType] /\ UndoBound'
  BY <1>1, <1>5, <1>6, <1>7 DEF Inductive, TypeOK, UndoBound
<1>9. job' \in JobType
  BY <1>1, MetricsType DEF CommitItem, Written, ViewType, Inductive, TypeOK
<1>10. slot' \in [Slots -> SlotType]
  BY DEF CommitItem, SlotsWithout, FreeSlot, SlotType, Inductive, TypeOK
<1>11. queue' \in 0..MaxMessages /\ queue <= queue'
  <2>1. Send \/ UNCHANGED queue
    BY DEF CommitItem
  <2>2. queue \in 0..MaxMessages
    BY DEF Inductive, TypeOK
  <2>3. QED
    BY <2>1, <2>2, QueueKept, SendType
<1>12. worker' = [worker EXCEPT ![w] = TaskSettled(w)] /\ worker[w].pc # "idle"
  BY <1>1 DEF CommitItem
<1>13. worker' \in [Workers -> WorkerType] /\ WorkerShape' /\ QueueHolds'
  BY <1>11, <1>12, TaskSettledType, WorkerMoves
<1>14. QED
  BY <1>8, <1>9, <1>10, <1>11, <1>13 DEF CommitItem, Inductive, TypeOK, HookShape

(* What the transaction leaves: the item settled, the others as they were.  *)
LEMMA CommitWrites ==
  ASSUME Inductive, NEW w \in Workers, CommitItem(w), NEW i, i = worker[w].cur
  PROVE  /\ i \in Items
         /\ \A k \in Items \ {i} : item'[k] = item[k]
         /\ item'[i].state = Target(w) /\ item'[i].attempts = item[i].attempts
         /\ item'[i].lease = "none" /\ item'[i].slot = NoSlot
         /\ item'[i].canary = item[i].canary /\ item'[i].undo = UndoCount(w)
         /\ item'[i].past = Earlier(item[i])
         /\ item'[i].misread = (item[i].misread \/ i \in worker[w].outdated)
<1>1. i \in Items
  BY DEF CommitItem, Inductive, WorkerShape, Shaped
<1>2. item \in [Items -> ItemType] /\ item[i] \in ItemType
  BY <1>1 DEF Inductive, TypeOK
<1> DEFINE wrong == item[i].misread \/ i \in worker[w].outdated
           it == [Settled(item[i], Target(w), UndoCount(w)) EXCEPT !.misread = wrong]
<1>3. item' = [item EXCEPT ![i] = it]
  BY DEF CommitItem
<1>4. /\ it.state = Target(w) /\ it.attempts = item[i].attempts
      /\ it.lease = "none" /\ it.slot = NoSlot
      /\ it.canary = item[i].canary /\ it.undo = UndoCount(w)
      /\ it.past = Earlier(item[i])
      /\ it.misread = wrong
  <2> HIDE DEF wrong
  <2>1. QED
    BY <1>2 DEF Settled, ItemType
<1> HIDE DEF it
<1>5. item'[i] = it /\ \A k \in Items \ {i} : item'[k] = item[k]
  BY <1>1, <1>2, <1>3
<1>6. QED
  BY <1>1, <1>4, <1>5

(* The transaction fails, but the item already is what it was to become.    *)
LEMMA CommitSeenKeeps ==
  ASSUME Inductive, NEW w \in Workers, CommitSeen(w)
  PROVE  Inductive'
<1>1. queue' \in 0..MaxMessages /\ queue <= queue'
  <2>1. Send \/ UNCHANGED queue
    BY DEF CommitSeen
  <2>2. queue \in 0..MaxMessages
    BY DEF Inductive, TypeOK
  <2>3. QED
    BY <2>1, <2>2, QueueKept, SendType
<1>2. worker' = [worker EXCEPT ![w] = TaskSettled(w)] /\ worker[w].pc # "idle"
  BY DEF CommitSeen
<1>3. worker' \in [Workers -> WorkerType] /\ WorkerShape' /\ QueueHolds'
  BY <1>1, <1>2, TaskSettledType, WorkerMoves
<1>4. QED
  BY <1>1, <1>3 DEF CommitSeen, Inductive, TypeOK, HookShape, UndoBound

(* continue_execution or finalize_cancellation ends the invocation.         *)
LEMMA ContinueKeeps ==
  ASSUME Inductive, NEW w \in Workers, Continue(w) \/ CancelDone(w)
  PROVE  Inductive'
<1>1. /\ worker[w].pc = "work" /\ worker' = [worker EXCEPT ![w] = Idle]
      /\ Acknowledge \/ UNCHANGED queue
      /\ \E look \in Looks : job' \in {job, Continued(job), Finalized(job, look)}
      /\ UNCHANGED <<item, slot, provider, touched, events, hook, owed, failures>>
  BY DEF Continue, CancelDone
<1>2. job' \in JobType
  BY <1>1, JobWrites DEF Inductive, TypeOK
<1>3. /\ worker' \in [Workers -> WorkerType] /\ WorkerShape'
      /\ QueueHolds' /\ queue' \in 0..MaxMessages
  BY <1>1, WorkerEnds
<1>4. QED
  BY <1>1, <1>2, <1>3 DEF Inductive, TypeOK, HookShape, UndoBound

-----------------------------------------------------------------------------
(* The webhook. *)

(* A step that leaves workers and queue alone keeps QueueHolds.             *)
LEMMA BusyKept ==
  ASSUME Inductive, UNCHANGED worker, queue' \in 0..MaxMessages, queue <= queue'
  PROVE  QueueHolds' /\ WorkerShape'
<1>1. Busy' \subseteq Busy
  BY DEF Busy
<1>2. queue \in Int /\ queue' \in Int
  BY BoundsAssumption DEF Inductive, TypeOK
<1>3. QueueHolds'
  BY <1>1, <1>2, BusyShrinks DEF Inductive
<1>4. QED
  BY <1>3 DEF Inductive, WorkerShape

(* reconcile_migration_webhook reads, then ignores or decides.              *)
LEMMA HookReadKeeps ==
  ASSUME Inductive, NEW i \in Items, NEW kind \in {"applied", "expired"},
         HookIgnore(i, kind) \/ HookDecide(i, kind)
  PROVE  Inductive'
<1>1. QueueHolds' /\ WorkerShape'
  BY QueueKept, BusyKept DEF HookIgnore, HookDecide
<1>2. HookTarget(i, kind) \in {"none"} \cup ItemStates
  BY DEF HookTarget, ItemStates, UndoneStates, AppliedStates, ReviewStates
<1>3. hook' \in HookType /\ HookShape'
  <2>1. CASE UNCHANGED hook
    BY <2>1 DEF Inductive, TypeOK, HookShape
  <2>2. CASE HookDecide(i, kind)
    <3> DEFINE pc == IF item[i].state = HookTarget(i, kind) THEN "continue" ELSE "finish"
               late == job.state = "canceling"
    <3>1. /\ pc \in {"continue", "finish"} /\ late \in BOOLEAN
          /\ item[i].attempts \in 0..MaxAttempts
          /\ HookTarget(i, kind) \in ItemStates
      BY <1>2, <2>2 DEF HookDecide, HookIgnores, Inductive, TypeOK, ItemType
    <3>2. hook' = [pc |-> pc, item |-> i, kind |-> kind, target |-> HookTarget(i, kind),
                   attempts |-> item[i].attempts, canceling |-> late]
      BY <2>2 DEF HookDecide
    <3> HIDE DEF pc, late
    <3>3. QED
      BY <3>1, <3>2 DEF HookType, HookShape
  <2>3. QED
    BY <2>1, <2>2 DEF HookIgnore
<1>4. events' \subseteq Items \X {"applied", "expired"}
  BY DEF HookIgnore, HookDecide, Inductive, TypeOK
<1>5. UNCHANGED <<job, item, slot, worker, provider, touched, queue, owed, failures>>
  BY DEF HookIgnore, HookDecide
<1>6. QED
  BY <1>1, <1>3, <1>4, <1>5 DEF Inductive, TypeOK, UndoBound

(* The webhook settles its item.                                            *)
LEMMA HookFinishKeeps ==
  ASSUME Inductive, HookFinish
  PROVE  Inductive'
<1> DEFINE i == hook.item
           it == Settled(item[i], hook.target, item[i].undo)
<1>1. i \in Items /\ hook.target \in ItemStates /\ hook.pc = "finish"
  BY DEF HookFinish, Inductive, HookShape
<1>2. item[i] \in ItemType /\ item[i].undo < MaxAttempts
  BY <1>1 DEF HookFinish, HookCanFinish, Inductive, TypeOK, UndoBound
<1>3. it \in ItemType /\ it.undo < MaxAttempts
  BY <1>1, <1>2, EarlierType DEF Settled, ItemType
<1>4. item' = [item EXCEPT ![i] = it]
  BY DEF HookFinish
<1> HIDE DEF it
<1>5. item' \in [Items -> ItemType] /\ UndoBound'
  BY <1>1, <1>3, <1>4 DEF Inductive, TypeOK, UndoBound
<1>6. job' \in JobType
  BY MetricsType DEF HookFinish, Inductive, TypeOK
<1>7. slot' \in [Slots -> SlotType]
  BY DEF HookFinish, SlotsWithout, FreeSlot, SlotType, Inductive, TypeOK
<1>8. hook' \in HookType /\ HookShape'
  BY <1>1 DEF HookFinish, HookShape, HookType, Inductive, TypeOK
<1>9. QueueHolds' /\ WorkerShape'
  BY QueueKept, BusyKept DEF HookFinish
<1>10. QED
  BY <1>5, <1>6, <1>7, <1>8, <1>9 DEF HookFinish, Inductive, TypeOK

(* The webhook continues or finalizes the job.                              *)
LEMMA HookContinueKeeps ==
  ASSUME Inductive, HookContinue
  PROVE  Inductive'
<1>1. queue' \in 0..MaxMessages /\ queue <= queue'
  <2>1. Send \/ UNCHANGED queue
    BY Zenon DEF HookContinue
  <2>2. queue \in 0..MaxMessages
    BY DEF Inductive, TypeOK
  <2>3. QED
    BY <2>1, <2>2, QueueKept, SendType
<1>2. QueueHolds' /\ WorkerShape'
  BY <1>1, BusyKept DEF HookContinue
<1>3. job' \in JobType
  BY JobWrites DEF HookContinue, Inductive, TypeOK
<1>4. hook' \in HookType /\ HookShape'
  BY IdleTypes DEF HookContinue, HookShape, IdleHook
<1>5. QED
  BY <1>1, <1>2, <1>3, <1>4 DEF HookContinue, Inductive, TypeOK, UndoBound

-----------------------------------------------------------------------------
(* The operator and the environment. *)

(* control: pause, resume and cancel.                                       *)
LEMMA ControlKeeps ==
  ASSUME Inductive, Pause \/ Resume \/ Cancel
  PROVE  Inductive'
<1>1. PICK j \in JobType : Control(j)
  <2>1. {"paused", "running", "cancel_requested"} \subseteq JobStates
    BY DEF JobStates, CancelStates
  <2>2. ASSUME NEW a \in BOOLEAN
        PROVE  /\ [job EXCEPT !.state = "paused"] \in JobType
               /\ [job EXCEPT !.state = "cancel_requested"] \in JobType
               /\ [job EXCEPT !.state = "running", !.approvalRequired = FALSE,
                              !.canaryApproved = a] \in JobType
    BY <2>1 DEF JobType, Inductive, TypeOK
  <2>3. (job.canaryApproved \/ job.approvalRequired) \in BOOLEAN
    OBVIOUS
  <2>4. QED
    BY Zenon, <2>2, <2>3 DEF Pause, Resume, Cancel
<1>2. /\ job' = [j EXCEPT !.revision = j.revision + 1] /\ Answer
      /\ UNCHANGED <<item, slot, worker, provider, touched, events, hook>>
  BY <1>1 DEF Control
<1>3. job' \in JobType
  BY <1>2 DEF JobType
<1>4. /\ queue' \in 0..MaxMessages /\ queue <= queue'
      /\ owed' \in BOOLEAN /\ failures' \in 0..MaxFailures
  <2>1. queue \in 0..MaxMessages /\ owed \in BOOLEAN /\ failures \in 0..MaxFailures
    BY DEF Inductive, TypeOK
  <2>2. CASE Send /\ UNCHANGED <<owed, failures>>
    BY <2>1, <2>2, SendType
  <2>3. CASE /\ failures < MaxFailures /\ failures' = failures + 1
             /\ owed' = TRUE /\ UNCHANGED queue
    BY <2>1, <2>3, QueueKept, BoundsAssumption
  <2>4. QED
    BY <1>2, <2>2, <2>3 DEF Answer
<1>5. QueueHolds' /\ WorkerShape'
  BY <1>2, <1>4, BusyKept
<1>6. QED
  BY <1>2, <1>3, <1>4, <1>5 DEF Inductive, TypeOK, HookShape, UndoBound

(* The replay of a control command sends its message.                       *)
LEMMA ReplayCommandKeeps ==
  ASSUME Inductive, ReplayCommand
  PROVE  Inductive'
<1>1. queue' \in 0..MaxMessages /\ queue <= queue'
  BY SendType DEF ReplayCommand, Inductive, TypeOK
<1>2. QueueHolds' /\ WorkerShape'
  BY <1>1, BusyKept DEF ReplayCommand
<1>3. QED
  BY <1>1, <1>2 DEF ReplayCommand, Inductive, TypeOK, HookShape, UndoBound

(* Stripe moves on without this job.                                        *)
LEMMA StripeKeeps ==
  ASSUME Inductive, NEW i \in Items,
         ProviderSettles(i) \/ Renewal(i) \/ ExternalUpdate(i)
  PROVE  Inductive'
<1>1. UNCHANGED <<job, item, slot, worker, touched, hook, queue, owed, failures>>
  BY DEF ProviderSettles, Renewal, ExternalUpdate
<1>2. provider' \in [Items -> ProviderStates]
  BY DEF ProviderSettles, Renewal, Attached, ExternalUpdate, Inductive, TypeOK, ProviderStates
<1>3. events' \subseteq Items \X {"applied", "expired"}
  BY DEF ProviderSettles, Renewal, ExternalUpdate, Inductive, TypeOK
<1>4. QueueHolds' /\ WorkerShape'
  BY <1>1, QueueKept, BusyKept
<1>5. QED
  BY <1>1, <1>2, <1>3, <1>4 DEF Inductive, TypeOK, ProviderStates, HookShape, UndoBound

(* The lease of an abandoned item runs out.                                 *)
LEMMA LeaseExpiresKeeps ==
  ASSUME Inductive, NEW i \in Items, LeaseExpires(i)
  PROVE  Inductive'
<1>1. item' \in [Items -> ItemType] /\ UndoBound'
  BY DEF LeaseExpires, Inductive, TypeOK, ItemType, UndoBound
<1>2. slot' \in [Slots -> SlotType]
  <2>1. ASSUME NEW s \in Slots
        PROVE  slot[s] \in SlotType /\ [slot[s] EXCEPT !.live = FALSE] \in SlotType
    BY DEF Inductive, TypeOK, SlotType
  <2>2. slot' = [s \in Slots |-> IF slot[s].owner = i THEN [slot[s] EXCEPT !.live = FALSE]
                                 ELSE slot[s]]
    BY DEF LeaseExpires
  <2>3. ASSUME NEW s \in Slots PROVE slot'[s] \in SlotType
    BY <2>1, <2>2
  <2>4. QED
    BY <2>2, <2>3
<1>3. QueueHolds' /\ WorkerShape'
  BY QueueKept, BusyKept DEF LeaseExpires
<1>4. QED
  BY <1>1, <1>2, <1>3 DEF LeaseExpires, Inductive, TypeOK, HookShape

(* Another job of the account takes or frees a slot.                        *)
LEMMA ForeignKeeps ==
  ASSUME Inductive, NEW s \in Slots, ForeignClaim(s) \/ ForeignFinish(s)
  PROVE  Inductive'
<1>1. slot' \in [Slots -> SlotType]
  <2>1. [owner |-> OtherJob, live |-> TRUE] \in SlotType /\ FreeSlot \in SlotType
    BY DEF FreeSlot, SlotType
  <2>2. PICK r \in SlotType : slot' = [slot EXCEPT ![s] = r]
    BY <2>1 DEF ForeignClaim, ForeignFinish
  <2>3. QED
    BY <2>2 DEF Inductive, TypeOK
<1>2. UNCHANGED <<job, item, worker, provider, touched, events, hook, queue, owed, failures>>
  BY DEF ForeignClaim, ForeignFinish
<1>3. QueueHolds' /\ WorkerShape'
  BY <1>2, QueueKept, BusyKept
<1>4. QED
  BY <1>1, <1>2, <1>3 DEF Inductive, TypeOK, HookShape, UndoBound

(* The webhook invocation fails or dies.                                    *)
LEMMA HookEndsKeeps ==
  ASSUME Inductive, HookFail \/ HookCrash
  PROVE  Inductive'
<1>1. /\ hook' = IdleHook
      /\ UNCHANGED <<job, item, slot, worker, provider, touched, events, queue, owed>>
      /\ failures' = failures \/ (failures < MaxFailures /\ failures' = failures + 1)
  BY DEF HookFail, HookCrash
<1>2. QueueHolds' /\ WorkerShape'
  BY <1>1, QueueKept, BusyKept
<1>3. hook' \in HookType /\ HookShape'
  BY <1>1, IdleTypes DEF HookShape, IdleHook
<1>4. failures' \in 0..MaxFailures
  BY <1>1, BoundsAssumption DEF Inductive, TypeOK
<1>5. QED
  BY <1>1, <1>2, <1>3, <1>4 DEF Inductive, TypeOK, UndoBound

-----------------------------------------------------------------------------
(* The scheduled job with its first message satisfies Inductive.            *)
LEMMA InitInductive == Init => Inductive
<1> SUFFICES ASSUME Init PROVE Inductive
  OBVIOUS
<1>1. PICK rejected \in SUBSET Items :
        /\ item = [i \in Items |->
                     [state |-> IF i \in rejected THEN "needs_review" ELSE "pending",
                      attempts |-> 0, lease |-> "none", slot |-> NoSlot,
                      canary |-> FALSE, undo |-> 0, past |-> {}, misread |-> FALSE]]
        /\ job = [state |-> "scheduled", revision |-> 1,
                  pending |-> Cardinality(Items \ rejected), applied |-> 0,
                  needsReview |-> Cardinality(rejected), awaiting |-> 0,
                  appliedItems |-> 0, remaining |-> 0, mutationStarted |-> FALSE,
                  canaryClaims |-> 0, canaryCompleted |-> 0,
                  canaryApproved |-> FALSE, approvalRequired |-> FALSE]
        /\ slot = [s \in Slots |-> FreeSlot]
        /\ worker = [w \in Workers |-> Idle]
        /\ provider = [i \in Items |-> "source"]
        /\ touched = {} /\ events = {} /\ hook = IdleHook
        /\ queue = 1 /\ owed = FALSE /\ failures = 0
  BY DEF Init
<1>2. Cardinality(Items \ rejected) \in Int /\ Cardinality(rejected) \in Int
  BY SetsAssumption, FS_Subset, FS_CardinalityType
<1>3. job \in JobType
  BY <1>1, <1>2 DEF JobType, JobStates
<1>4. item \in [Items -> ItemType] /\ UndoBound
  BY <1>1, BoundsAssumption DEF ItemType, ItemStates, PendingStates, ReviewStates, UndoBound
<1>5. worker \in [Workers -> WorkerType] /\ WorkerShape /\ hook \in HookType /\ HookShape
  BY <1>1, IdleTypes DEF WorkerShape, HookShape, IdleHook
<1>6. slot \in [Slots -> SlotType]
  BY <1>1 DEF FreeSlot, SlotType
<1>7. QueueHolds
  <2>1. Busy = {}
    BY <1>1 DEF Busy, Idle
  <2>2. QED
    BY <2>1, <1>1, FS_EmptySet DEF QueueHolds
<1>8. /\ provider \in [Items -> ProviderStates]
      /\ touched \subseteq Items /\ events \subseteq Items \X {"applied", "expired"}
      /\ queue \in 0..MaxMessages /\ owed \in BOOLEAN /\ failures \in 0..MaxFailures
  <2>1. provider \in [Items -> ProviderStates]
    BY <1>1 DEF ProviderStates
  <2>2. touched \subseteq Items /\ events \subseteq Items \X {"applied", "expired"}
    BY <1>1
  <2>3. queue \in 0..MaxMessages /\ owed \in BOOLEAN /\ failures \in 0..MaxFailures
    <3>1. queue \in 0..MaxMessages /\ failures \in 0..MaxFailures
      BY <1>1, BoundsAssumption
    <3>2. owed \in BOOLEAN
      BY <1>1
    <3>3. QED
      BY <3>1, <3>2
  <2>4. QED
    BY <2>1, <2>2, <2>3
<1>9. QED
  BY <1>3, <1>4, <1>5, <1>6, <1>7, <1>8 DEF Inductive, TypeOK, ProviderStates

(* Every step preserves Inductive.                                          *)
LEMMA NextInductive == Inductive /\ [Next]_vars => Inductive'
<1> SUFFICES ASSUME Inductive, [Next]_vars PROVE Inductive'
  OBVIOUS
<1>1. ASSUME NEW w \in Workers, WorkerStep(w) PROVE Inductive'
  BY <1>1, ReceiveStaleKeeps, ReceiveExecuteKeeps, ReceiveCancelKeeps, ClaimKeeps,
     EndClaimKeeps, ApplyItemKeeps, SkipPendingKeeps, UndoItemKeeps, AwaitPendingUpdateKeeps,
     LoadItemKeeps, AlreadySettledKeeps, RetryRecordedKeeps, CommitItemKeeps, CommitSeenKeeps, ConflictKeeps,
     ContinueKeeps, UnreadableKeeps
  DEF WorkerStep, ClaimStep
<1>2. CASE HookStep
  <2>1. CASE \E i \in Items, kind \in {"applied", "expired"} :
               HookIgnore(i, kind) \/ HookDecide(i, kind)
    BY <2>1, HookReadKeeps
  <2>2. QED
    BY <1>2, <2>1, HookFinishKeeps, HookContinueKeeps, HookEndsKeeps DEF HookStep
<1>3. CASE Operator
  BY <1>3, ControlKeeps, ReplayCommandKeeps DEF Operator
<1>4. CASE Environment
  BY <1>4, StripeKeeps, LeaseExpiresKeeps, ForeignKeeps, CrashKeeps, HookEndsKeeps
  DEF Environment
<1>5. CASE UNCHANGED vars
  <2>1. QueueHolds' /\ WorkerShape'
    BY <1>5, QueueKept, BusyKept DEF vars
  <2>2. QED
    BY <1>5, <2>1 DEF vars, Inductive, TypeOK, HookShape, UndoBound
<1>6. QED
  BY <1>1, <1>2, <1>3, <1>4, <1>5 DEF Next

(* In every reachable state the records are well formed, a handler that is  *)
(* about to settle an item knows which one and how, an item that may still  *)
(* be undone has a retry left (retry_cancellation_item), and SQS holds a    *)
(* message for every running invocation.                                    *)
THEOREM AlwaysInductive == Spec => []Inductive
  BY InitInductive, NextInductive, PTL DEF Spec

(* The records of migration_store.py keep their shape: in particular no     *)
(* item is attempted, and no cancellation of an item retried, more than     *)
(* _MAX_ATTEMPTS times.                                                     *)
THEOREM TypesHold == Spec => []TypeOK
<1>1. Inductive => TypeOK
  BY DEF Inductive
<1>2. QED
  BY <1>1, AlwaysInductive, PTL
=============================================================================
