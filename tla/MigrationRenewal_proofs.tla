------------------------ MODULE MigrationRenewal_proofs ------------------------
(***************************************************************************)
(* The migration at the next renewal, for any number of items, workers and *)
(* slots, on top of the counters' and the canary's proofs.                 *)
(*                                                                         *)
(* RenewalInv adds to their invariant what each worker may still write     *)
(* (TasksShaped), that what it holds is leased to it alone (HoldersLeased, *)
(* UndoneUnheld, AppliedUnheld), and what the job's record says once it is *)
(* under way or has ended (JobInv).  ProviderInv relates the items, and    *)
(* the decisions that workers carry, to what Stripe holds.                 *)
(*                                                                         *)
(* Renewing excludes webhooks: a pending update of the immediate policy    *)
(* lets a webhook settle an item that a worker also holds.  The work index *)
(* may lag as far as it likes: what a cancellation decided on an outdated  *)
(* version of an item is told from the rest by worker.outdated, and what   *)
(* it wrote by item.misread.                                               *)
(***************************************************************************)
EXTENDS MigrationCanary_proofs, MigrationCounters_proofs

(* The migration these theorems are about: the price changes at the renewal, *)
(* so that this job leaves no pending update, and nobody else's pending      *)
(* updates of its subscriptions send webhooks either.                        *)
Renewing == NextRenewal /\ ExternalSubs = {}

RenewalStates == {"pending", "applying", "retryable_failure", "applied",
                  "reverted", "skipped", "needs_review"}

(* No webhook ever runs. *)
NoWebhooks ==
  /\ events = {} /\ hook = IdleHook
  /\ \A i \in Items : provider[i] \in {"source", "scheduled", "renewed", "target"}
  /\ \A i \in Items : item[i].state \in RenewalStates

(* What a worker in each of its states carries: an execution applies what it *)
(* claimed, a cancellation never applies, and what either is about to write  *)
(* is one of the outcomes of its task.                                       *)
Settling(m) == m.pc \in {"finish", "commit"}
TaskShape(m) ==
  /\ m.pc = "idle" => m.mode = "none" /\ \A i \in Items : m.todo[i] = NoTask
  /\ m.pc # "idle" => m.mode \in {"execute", "cancel"}
  /\ m.pc = "claim" => m.mode = "execute"
  /\ \A i \in Items : /\ m.mode = "execute" => m.todo[i].kind \in {"none", "apply"}
                      /\ m.todo[i].kind = "apply" => m.mode = "execute"
  /\ ~Settling(m) => ~m.guarded
  /\ Settling(m) =>
       /\ m.todo[m.cur].kind # "none"
       /\ m.todo[m.cur].kind = "apply" =>
            m.res \in {"applied", "needs_review", "retryable_failure"}
       /\ m.todo[m.cur].kind = "skip" => m.res = "skipped" /\ ~m.guarded
       /\ m.todo[m.cur].kind \in {"release", "inspect"} =>
            m.res \in {"reverted", "needs_review", "retryable_failure"}
  /\ m.pc = "commit" /\ m.mode = "cancel" =>
       /\ m.view.state \notin CancelTerminal
       /\ m.res = "retryable_failure" /\ m.view.undo + 1 < MaxAttempts =>
            m.view.state \notin {"applying", "retryable_failure"}
TasksShaped == \A w \in Workers : TaskShape(worker[w])

(* An item a worker holds is under a lease of that attempt, or was settled    *)
(* by a cancellation behind the index; no other worker holds it.             *)
Leased(i) ==
  /\ item[i].state = "applying" /\ item[i].lease = "live"
  /\ item[i].slot \in Slots /\ slot[item[i].slot] = [owner |-> i, live |-> TRUE]
Astray(i) == item[i].misread /\ item[i].state \in CancelTerminal
HoldersLeased ==
  \A w \in Workers, i \in Items :
    Holds(w, i) =>
      /\ item[i].attempts = worker[w].todo[i].n
      /\ Leased(i) \/ Astray(i)
      /\ \A v \in Workers \ {w} : ~Holds(v, i)

(* An item a cancellation undoes is held by nobody, and one it skips is      *)
(* still pending or settled, unless it listed the item outdated.            *)
UndoneUnheld ==
  \A w \in Workers, i \in Items :
    /\ Undoes(w, i) /\ ~(worker[w].todo[i].kind = "inspect" /\ i \in worker[w].outdated)
         => \A v \in Workers : ~Holds(v, i)
    /\ worker[w].todo[i].kind = "skip" /\ i \notin worker[w].outdated =>
         item[i].state \in {"pending"} \cup CancelTerminal

(* What the index may show applied, current or not, is nobody's to migrate. *)
Was(i, state) == item[i].state = state \/ \E v \in item[i].past : v.state = state
AppliedUnheld ==
  \A i \in Items :
    Was(i, "applied") =>
      /\ item[i].state \in {"applied"} \cup CancelTerminal
      /\ \A w \in Workers : ~Holds(w, i)

TaskInv == TasksShaped /\ HoldersLeased /\ UndoneUnheld /\ AppliedUnheld

-----------------------------------------------------------------------------
(* Workers that only move on *)

(* A step of one worker that takes up no new task changes neither what is    *)
(* held nor what is undone.                                                  *)
LEMMA WorkerMovesOn ==
  ASSUME Inductive, TaskInv, NEW w \in Workers, NEW m \in WorkerType, TaskShape(m),
         worker' = [worker EXCEPT ![w] = m],
         \A i \in Items : \/ m.todo[i] = worker[w].todo[i] /\ m.outdated = worker[w].outdated
                         \/ m.todo[i] = NoTask,
         UNCHANGED <<item, slot>>
  PROVE  TaskInv'
<1>1. /\ worker'[w] = m /\ \A v \in Workers : v # w => worker'[v] = worker[v]
  BY DEF Inductive, TypeOK
<1>2. TasksShaped' BY <1>1 DEF TasksShaped, TaskInv
<1>3. ASSUME NEW v \in Workers, NEW i \in Items, worker'[v].todo[i].kind # "none"
      PROVE  /\ worker'[v].todo[i] = worker[v].todo[i]
             /\ worker'[v].outdated = worker[v].outdated
  BY <1>1, <1>3 DEF NoTask
<1>4. \A v \in Workers, i \in Items : Holds(v, i)' => Holds(v, i)
  BY <1>3 DEF Holds
<1>5. HoldersLeased'
  BY <1>3, <1>4 DEF HoldersLeased, Leased, Astray, Holds, TaskInv
<1>6. UndoneUnheld'
  BY <1>3, <1>4 DEF UndoneUnheld, Undoes, TaskInv
<1>7. AppliedUnheld'
  BY <1>4 DEF AppliedUnheld, Was, TaskInv
<1>8. QED BY <1>2, <1>5, <1>6, <1>7 DEF TaskInv

LEMMA IdleShaped == TaskShape(Idle)
  BY DEF TaskShape, Idle, NoTask, Settling

(* A worker whose invocation ends carries nothing. *)
LEMMA WorkerStops ==
  ASSUME Inductive, TaskInv, NEW w \in Workers, worker' = [worker EXCEPT ![w] = Idle],
         UNCHANGED <<item, slot>>
  PROVE  TaskInv'
  BY IdleTypes, IdleShaped, WorkerMovesOn DEF Idle

LEMMA TaskDoneShaped ==
  ASSUME Inductive, TaskInv, NEW w \in Workers, Settling(worker[w])
  PROVE  /\ TaskShape(TaskDone(w))
         /\ TaskDone(w).todo = [worker[w].todo EXCEPT ![worker[w].cur] = NoTask]
         /\ TaskDone(w).mode = worker[w].mode
         /\ TaskDone(w).outdated = worker[w].outdated
<1> DEFINE todo == [worker[w].todo EXCEPT ![worker[w].cur] = NoTask]
           m == [worker[w] EXCEPT !.pc = "work", !.cur = NoItem, !.res = "none",
                                  !.guarded = FALSE, !.view = NoView, !.todo = todo]
<1>1. worker[w] \in WorkerType /\ TaskShape(worker[w])
  BY WorkerTyped DEF TaskInv, TasksShaped
<1>2. TaskDone(w) = m
  BY <1>1 DEF TaskDone, WorkerType
<1>3. \A i \in Items : todo[i] = worker[w].todo[i] \/ todo[i] = NoTask
  BY <1>1 DEF WorkerType
<1> HIDE DEF todo
<1>4. /\ m.pc = "work" /\ m.mode = worker[w].mode /\ m.todo = todo /\ m.guarded = FALSE
      /\ m.outdated = worker[w].outdated
  BY <1>1 DEF WorkerType
<1> HIDE DEF m
<1>5. worker[w].mode \in {"execute", "cancel"}
  BY <1>1 DEF TaskShape, Settling
<1>6. TaskShape(m)
  BY <1>1, <1>3, <1>4, <1>5 DEF TaskShape, Settling, NoTask
<1>7. QED BY <1>2, <1>4, <1>6 DEF todo

(* _cancel_item gives up this job's schedule, if it releases the item, or    *)
(* leaves Stripe as it is; it reports the item reverted when no schedule is  *)
(* left.                                                                     *)
LEMMA UndoOutcome ==
  ASSUME NEW i \in Items, NEW kind, NEW out \in UndoOutcomes(i, kind)
  PROVE  /\ out.res \in {"reverted", "needs_review"} \cup Faults
         /\ out.guarded \in BOOLEAN
         /\ \/ out.to = provider[i]
            \/ Attached(provider[i]) /\ kind = "release" /\ out.to = GivenUp(i)
         /\ out.res = "reverted" => out.to = GivenUp(i) \/ provider[i] = "source"
<1>1. \/ \E f \in Faults : out = [to |-> provider[i], res |-> f, guarded |-> FALSE]
      \/ /\ Attached(provider[i]) /\ kind = "release"
         /\ \E r \in {"reverted"} \cup Faults :
              out = [to |-> GivenUp(i), res |-> r, guarded |-> r = "reverted"]
      \/ out = [to |-> provider[i],
                res |-> IF provider[i] = "source" THEN "reverted" ELSE "needs_review",
                guarded |-> TRUE]
      \/ out = [to |-> provider[i], res |-> "needs_review", guarded |-> FALSE]
  BY Zenon DEF UndoOutcomes
<1>2. CASE \E f \in Faults : out = [to |-> provider[i], res |-> f, guarded |-> FALSE]
  <2>1. out.res # "reverted" BY <1>2, ChoicesAssumption
  <2>2. QED BY <1>2, <2>1
<1>3. CASE /\ Attached(provider[i]) /\ kind = "release"
           /\ \E r \in {"reverted"} \cup Faults :
                out = [to |-> GivenUp(i), res |-> r, guarded |-> r = "reverted"]
  <2>1. PICK r \in {"reverted"} \cup Faults :
          out = [to |-> GivenUp(i), res |-> r, guarded |-> r = "reverted"]
    BY <1>3
  <2>2. out.to = GivenUp(i) /\ out.res = r /\ out.guarded = (r = "reverted")
    BY Zenon, <2>1
  <2>3. QED BY <1>3, <2>2
<1>4. CASE out = [to |-> provider[i],
                  res |-> IF provider[i] = "source" THEN "reverted" ELSE "needs_review",
                  guarded |-> TRUE]
  BY <1>4
<1>5. CASE out = [to |-> provider[i], res |-> "needs_review", guarded |-> FALSE]
  BY <1>5
<1>6. QED BY <1>1, <1>2, <1>3, <1>4, <1>5

(* What a worker's own steps make of its state, one group at a time. *)
LEMMA TaskStepInv ==
  ASSUME Inductive, TaskInv, Renewing, NoWebhooks, NEW w \in Workers, NEW i \in Items,
         \/ EndClaim(w) \/ ApplyItem(w, i) \/ SkipPending(w, i)
         \/ UndoItem(w, i) \/ AwaitPendingUpdate(w, i)
  PROVE  TaskInv'
<1>0. worker[w] \in WorkerType /\ TaskShape(worker[w]) /\ UNCHANGED <<item, slot>>
  BY WorkerTyped
  DEF TaskInv, TasksShaped, EndClaim, ApplyItem, SkipPending, UndoItem, AwaitPendingUpdate
<1>1. CASE EndClaim(w)
  <2> DEFINE m == [worker[w] EXCEPT !.pc = "work"]
  <2>1. worker' = [worker EXCEPT ![w] = m] /\ worker[w].pc = "claim"
    BY <1>1 DEF EndClaim
  <2>2. /\ m \in WorkerType /\ TaskShape(m) /\ m.todo = worker[w].todo
        /\ m.outdated = worker[w].outdated
    BY <1>0, <2>1 DEF WorkerType, TaskShape, Settling
  <2> HIDE DEF m
  <2>3. QED BY <1>0, <2>1, <2>2, WorkerMovesOn
<1>2. ASSUME NEW r \in ItemStates, NEW g \in BOOLEAN, worker[w].pc = "work",
             worker[w].todo[i].kind # "none",
             worker[w].todo[i].kind = "apply" =>
               r \in {"applied", "needs_review", "retryable_failure"},
             worker[w].todo[i].kind = "skip" => r = "skipped" /\ ~g,
             worker[w].todo[i].kind \in {"release", "inspect"} =>
               r \in {"reverted", "needs_review", "retryable_failure"},
             worker' = [worker EXCEPT ![w] =
               [worker[w] EXCEPT !.pc = "finish", !.cur = i, !.res = r, !.guarded = g]]
      PROVE  TaskInv'
  <2> DEFINE m == [worker[w] EXCEPT !.pc = "finish", !.cur = i, !.res = r, !.guarded = g]
  <2>1. /\ m \in WorkerType /\ m.todo = worker[w].todo /\ m.mode = worker[w].mode
        /\ m.pc = "finish" /\ m.cur = i /\ m.res = r /\ m.guarded = g
        /\ m.outdated = worker[w].outdated
    BY <1>0, <1>2 DEF WorkerType
  <2>2. worker' = [worker EXCEPT ![w] = m] BY <1>2
  <2> HIDE DEF m
  <2>3. TaskShape(m)
    BY <1>0, <1>2, <2>1 DEF TaskShape, Settling
  <2>4. QED BY <1>0, <2>1, <2>2, <2>3, WorkerMovesOn
<1>3. CASE ApplyItem(w, i)
  <2>1. PICK out \in ApplyOutcomes(provider[i]) :
          worker' = [worker EXCEPT ![w] =
            [worker[w] EXCEPT !.pc = "finish", !.cur = i,
               !.res = IF out.res = "retryable_failure" /\ worker[w].todo[i].n >= MaxAttempts
                       THEN "needs_review" ELSE out.res,
               !.guarded = out.res \in {"applied", "awaiting_provider"}]]
    BY <1>3 DEF ApplyItem
  <2>2. out.res \in {"applied", "needs_review", "retryable_failure"}
    BY ChoicesAssumption DEF ApplyOutcomes, Reached, Renewing, NextRenewal
  <2> DEFINE r == IF out.res = "retryable_failure" /\ worker[w].todo[i].n >= MaxAttempts
                  THEN "needs_review" ELSE out.res
             g == out.res \in {"applied", "awaiting_provider"}
  <2>3. /\ r \in {"applied", "needs_review", "retryable_failure"} /\ g \in BOOLEAN
        /\ r \in ItemStates
    BY <2>2 DEF ItemStates, AppliedStates, ReviewStates, PendingStates
  <2>4. worker' = [worker EXCEPT ![w] =
          [worker[w] EXCEPT !.pc = "finish", !.cur = i, !.res = r, !.guarded = g]]
    BY <2>1
  <2>5. worker[w].pc = "work" /\ worker[w].todo[i].kind = "apply"
    BY <1>3 DEF ApplyItem, Holds
  <2> HIDE DEF r, g
  <2>6. QED BY <1>2, <2>3, <2>4, <2>5
<1>4. CASE SkipPending(w, i)
  <2>1. /\ worker[w].pc = "work" /\ worker[w].todo[i].kind = "skip"
        /\ worker' = [worker EXCEPT ![w] =
             [worker[w] EXCEPT !.pc = "finish", !.cur = i, !.res = "skipped"]]
    BY <1>4 DEF SkipPending
  <2>2. worker[w].guarded = FALSE
    BY <1>0, <2>1 DEF TaskShape, Settling, WorkerType
  <2>3. worker' = [worker EXCEPT ![w] =
          [worker[w] EXCEPT !.pc = "finish", !.cur = i, !.res = "skipped", !.guarded = FALSE]]
    BY <1>0, <2>1, <2>2 DEF WorkerType
  <2>4. QED BY <1>2, <2>1, <2>3 DEF ItemStates, UndoneStates
<1>5. CASE UndoItem(w, i)
  <2>1. PICK out \in UndoOutcomes(i, worker[w].todo[i].kind) :
          worker' = [worker EXCEPT ![w] =
            [worker[w] EXCEPT !.pc = "finish", !.cur = i, !.res = out.res,
                              !.guarded = out.guarded]]
    BY <1>5 DEF UndoItem
  <2> DEFINE kind == worker[w].todo[i].kind
  <2> HIDE DEF kind
  <2>a. out \in UndoOutcomes(i, kind) BY Zenon DEF kind
  <2>b. out.res \in {"reverted", "needs_review"} \cup Faults /\ out.guarded \in BOOLEAN
    BY ONLY <2>a, UndoOutcome, i \in Items, Zenon
  <2>2. /\ out.res \in {"reverted", "needs_review", "retryable_failure"}
        /\ out.guarded \in BOOLEAN
    BY ChoicesAssumption, <2>b
  <2>3. worker[w].pc = "work" /\ worker[w].todo[i].kind \in {"release", "inspect"}
    BY <1>5 DEF UndoItem
  <2>4. QED
    BY <1>2, <2>1, <2>2, <2>3 DEF ItemStates, UndoneStates, ReviewStates, PendingStates
<1>6. CASE AwaitPendingUpdate(w, i)
  BY <1>6 DEF AwaitPendingUpdate, NoWebhooks
<1>7. QED BY <1>1, <1>3, <1>4, <1>5, <1>6

LEMMA SettleStepInv ==
  ASSUME Inductive, TaskInv, NEW w \in Workers,
         \/ LoadItem(w) \/ AlreadySettled(w) \/ RetryRecorded(w) \/ CommitSeen(w)
         \/ Conflict(w) \/ Continue(w) \/ CancelDone(w) \/ Unreadable(w) \/ Crash(w)
  PROVE  TaskInv'
<1>0. worker[w] \in WorkerType /\ TaskShape(worker[w]) /\ UNCHANGED <<item, slot>>
  BY WorkerTyped
  DEF TaskInv, TasksShaped, LoadItem, AlreadySettled, RetryRecorded, CommitSeen, Conflict,
      Continue, CancelDone, Unreadable, Crash
<1>1. CASE worker' = [worker EXCEPT ![w] = Idle]
  BY <1>0, <1>1, WorkerStops
<1>2. ASSUME NEW b \in BOOLEAN, Settling(worker[w]),
             worker' = [worker EXCEPT ![w] = [TaskDone(w) EXCEPT !.wait = b]]
      PROVE  TaskInv'
  <2> DEFINE m == [TaskDone(w) EXCEPT !.wait = b]
  <2>1. TaskDone(w) \in WorkerType /\ TaskShape(TaskDone(w))
        /\ TaskDone(w).todo = [worker[w].todo EXCEPT ![worker[w].cur] = NoTask]
        /\ TaskDone(w).outdated = worker[w].outdated
    BY <1>2, TaskDoneType, TaskDoneShaped
  <2>2. /\ m.outdated = worker[w].outdated /\ m \in WorkerType /\ m.todo = TaskDone(w).todo /\ m.pc = TaskDone(w).pc
        /\ m.mode = TaskDone(w).mode /\ m.cur = TaskDone(w).cur /\ m.res = TaskDone(w).res
        /\ m.guarded = TaskDone(w).guarded /\ m.view = TaskDone(w).view
    BY <2>1 DEF WorkerType
  <2>3. \A i \in Items : m.todo[i] = worker[w].todo[i] \/ m.todo[i] = NoTask
    BY <1>0, <2>1, <2>2 DEF WorkerType
  <2>4. worker' = [worker EXCEPT ![w] = m] BY <1>2
  <2> HIDE DEF m
  <2>5. TaskShape(m)
    BY <2>1, <2>2 DEF TaskShape, Settling
  <2>6. QED BY <1>0, <2>2, <2>3, <2>4, <2>5, WorkerMovesOn
<1>3. CASE LoadItem(w)
  <2> DEFINE v == [job |-> job, state |-> item[worker[w].cur].state,
                   attempts |-> item[worker[w].cur].attempts,
                   undo |-> item[worker[w].cur].undo]
             m == [worker[w] EXCEPT !.pc = "commit", !.view = v]
  <2>1. worker' = [worker EXCEPT ![w] = m] /\ worker[w].pc = "finish"
        /\ (worker[w].mode = "cancel" => v.state \notin CancelTerminal)
        /\ v.state \in Finishable /\ worker[w].cur \in Items
        /\ (worker[w].mode = "cancel" /\ worker[w].res = "retryable_failure"
              /\ v.undo + 1 < MaxAttempts => v.state \notin {"applying", "retryable_failure"})
    BY <1>3 DEF LoadItem, CanLoad, Retrying, TakesUndo, Inductive, WorkerShape, Shaped
  <2>2. v \in ViewType
    BY <2>1 DEF ViewType, Inductive, TypeOK, ItemType
  <2> HIDE DEF v
  <2>3. /\ m \in WorkerType /\ m.todo = worker[w].todo /\ m.mode = worker[w].mode
        /\ m.pc = "commit" /\ m.cur = worker[w].cur /\ m.res = worker[w].res
        /\ m.guarded = worker[w].guarded /\ m.view = v /\ m.outdated = worker[w].outdated
    BY <1>0, <2>2 DEF WorkerType
  <2> HIDE DEF m
  <2>4. TaskShape(m)
    BY <1>0, <2>1, <2>3 DEF TaskShape, Settling
  <2>5. QED BY <1>0, <2>1, <2>3, <2>4, WorkerMovesOn
<1>4. CASE AlreadySettled(w)
  <2>1. worker' = [worker EXCEPT ![w] = TaskDone(w)] /\ Settling(worker[w])
    BY <1>4 DEF AlreadySettled, Settling
  <2>2. \A i \in Items : TaskDone(w).todo[i] = worker[w].todo[i] \/ TaskDone(w).todo[i] = NoTask
    BY <1>0, <2>1, TaskDoneShaped DEF WorkerType
  <2>3. QED BY <1>0, <2>1, <2>2, TaskDoneType, TaskDoneShaped, WorkerMovesOn
<1>5. CASE RetryRecorded(w)
  BY <1>2, <1>5 DEF RetryRecorded, Settling
<1>6. CASE CommitSeen(w)
  <2>1. (worker[w].wait \/ (Retrying(w) /\ UndoCount(w) < MaxAttempts)) \in BOOLEAN
    BY <1>0 DEF WorkerType
  <2>2. QED BY <1>2, <1>6, <2>1 DEF CommitSeen, TaskSettled, Settling
<1>7. CASE Conflict(w) /\ worker[w].guarded
  <2> DEFINE m == [worker[w] EXCEPT !.pc = "finish", !.res = "needs_review",
                                    !.guarded = FALSE, !.view = NoView]
  <2>1. worker' = [worker EXCEPT ![w] = m] /\ Settling(worker[w])
    BY <1>7 DEF Conflict, Settling
  <2>2. /\ m \in WorkerType /\ m.todo = worker[w].todo /\ m.mode = worker[w].mode
        /\ m.pc = "finish" /\ m.cur = worker[w].cur /\ m.res = "needs_review"
        /\ m.guarded = FALSE /\ m.outdated = worker[w].outdated
    BY <1>0 DEF WorkerType, ItemStates, ReviewStates
  <2> HIDE DEF m
  <2>3. TaskShape(m)
    BY <1>0, <1>7, <2>1, <2>2 DEF TaskShape, Settling
  <2>4. QED BY <1>0, <2>1, <2>2, <2>3, WorkerMovesOn
<1>8. CASE Conflict(w) /\ ~worker[w].guarded
  BY <1>1, <1>8 DEF Conflict
<1>9. CASE Continue(w) \/ CancelDone(w) \/ Unreadable(w) \/ Crash(w)
  BY <1>1, <1>9 DEF Continue, CancelDone, Unreadable, Crash
<1>10. QED
  BY <1>3, <1>4, <1>5, <1>6, <1>7, <1>8, <1>9

-----------------------------------------------------------------------------
(* A settlement, and the steps that take or free a lease *)

(* A worker cancels only while the job is being canceled, or has been. *)
CancelsOnly == \A w \in Workers : worker[w].mode = "cancel" => job.state \in {"canceling", "canceled"}

(* What _finish_item does to an item: an execution settles the claim it     *)
(* holds, a cancellation an item that is not settled yet.                   *)
LEMMA CommitOutcome ==
  ASSUME Inductive, TaskInv, Renewing, NoWebhooks, NEW w \in Workers, CommitItem(w),
         NEW i, i = worker[w].cur
  PROVE  /\ i \in Items /\ OwnsSlot(i)
         /\ item'[i].state = Target(w) /\ item'[i].attempts = item[i].attempts
         /\ item'[i].canary = item[i].canary
         /\ item'[i].past = Earlier(item[i])
         /\ item'[i].misread = (item[i].misread \/ i \in worker[w].outdated)
         /\ \A k \in Items : k # i => item'[k] = item[k]
         /\ \/ /\ worker[w].mode = "execute" /\ Holds(w, i) /\ item[i].state = "applying"
               /\ Target(w) \in {"applied", "needs_review", "retryable_failure"}
            \/ /\ worker[w].mode = "cancel" /\ ~Holds(w, i)
               /\ item[i].state \in {"pending", "applying", "retryable_failure", "applied"}
               /\ Target(w) \in {"reverted", "skipped", "needs_review", item[i].state}
               /\ Target(w) \in {"applying", "retryable_failure"} => item[i].state # Target(w)
               /\ worker[w].todo[i].kind = "skip" => Target(w) = "skipped"
               /\ Target(w) = "skipped" => worker[w].todo[i].kind = "skip"
               /\ worker[w].todo[i].kind \in {"skip", "release", "inspect"}
               /\ Target(w) = "reverted" => worker[w].res = "reverted"
<1> DEFINE me == worker[w]
<1>1. /\ me.pc = "commit" /\ i \in Items /\ me.view \in ViewType
      /\ TaskShape(me) /\ me \in WorkerType /\ item[i] \in ItemType
      /\ item \in [Items -> ItemType]
  BY WorkerTyped
  DEF CommitItem, Inductive, WorkerShape, Shaped, TypeOK, TaskInv, TasksShaped
<1>2. /\ item[i].state = me.view.state /\ me.view.state \in Finishable /\ OwnsSlot(i)
      /\ item[i].state \in RenewalStates
  BY <1>1 DEF CommitItem, Unchanged, ViewType, NoWebhooks
<1>3. /\ item'[i].state = Target(w) /\ item'[i].attempts = item[i].attempts
      /\ item'[i].canary = item[i].canary /\ \A k \in Items : k # i => item'[k] = item[k]
      /\ item'[i].past = Earlier(item[i])
      /\ item'[i].misread = (item[i].misread \/ i \in worker[w].outdated)
  BY CommitWrites
<1>4. CASE me.mode = "execute"
  <2>1. Holds(w, i) /\ me.res \in {"applied", "needs_review", "retryable_failure"}
    BY <1>1, <1>4 DEF TaskShape, Settling, Holds
  <2>2. Target(w) = me.res
    BY <1>4 DEF Target, Retrying
  <2>3. item[i].state \in {"applying"} \cup CancelTerminal
    BY <1>1, <2>1 DEF TaskInv, HoldersLeased, Leased, Astray
  <2>4. item[i].state \notin CancelTerminal
    BY <1>2 DEF Finishable, WorkStates, PendingStates, RenewalStates, CancelTerminal,
                UndoneStates, ReviewStates
  <2>5. QED BY <1>1, <1>2, <1>3, <1>4, <2>1, <2>2, <2>3, <2>4
<1>5. CASE me.mode = "cancel"
  <2>1. item[i].state \in {"pending", "applying", "retryable_failure", "applied"}
    BY <1>1, <1>2, <1>5
    DEF TaskShape, RenewalStates, CancelTerminal, UndoneStates, ReviewStates
  <2>2. ~Holds(w, i) /\ me.todo[i].kind \in {"skip", "release", "inspect"}
    BY <1>1, <1>5 DEF TaskShape, Settling, Holds, WorkerType, TaskType
  <2>3. CASE me.todo[i].kind = "skip"
    <3>1. me.res = "skipped" BY <1>1, <2>3 DEF TaskShape, Settling
    <3>2. Target(w) = "skipped" BY <3>1 DEF Target, Retrying
    <3>3. QED BY <1>1, <1>2, <1>3, <1>5, <2>1, <2>2, <2>3, <3>2
  <2>4. CASE me.todo[i].kind \in {"release", "inspect"}
    <3>1. me.res \in {"reverted", "needs_review", "retryable_failure"}
      BY <1>1, <2>4 DEF TaskShape, Settling
    <3>2. /\ Target(w) \in {"reverted", "needs_review", item[i].state}
          /\ Target(w) = "reverted" => me.res = "reverted"
          /\ Target(w) = item[i].state =>
               me.res = "retryable_failure" /\ me.view.undo + 1 < MaxAttempts
      BY <1>2, <1>5, <2>1, <3>1 DEF Target, Retrying, UndoCount
    <3>3. Target(w) # "skipped" BY <2>1, <3>2
    <3>4. Target(w) = item[i].state => Target(w) \notin {"applying", "retryable_failure"}
      BY <1>1, <1>2, <1>5, <3>2 DEF TaskShape
    <3>5. QED BY <1>1, <1>2, <1>3, <1>5, <2>1, <2>2, <2>4, <3>2, <3>3, <3>4
  <2>5. QED BY <2>2, <2>3, <2>4
<1>6. QED BY <1>1, <1>4, <1>5 DEF TaskShape

(* What the index may show applied was applied before, or is now. *)
LEMMA EarlierShown ==
  ASSUME NEW i \in Items, NEW state,
         item'[i].past = item[i].past \/ item'[i].past = Earlier(item[i]),
         Was(i, state)'
  PROVE  Was(i, state) \/ item'[i].state = state
<1>1. CASE item'[i].state = state
  BY <1>1
<1>2. CASE \E v \in item'[i].past : v.state = state
  <2>1. PICK v \in item'[i].past : v.state = state
    BY <1>2
  <2>2. v \in item[i].past \/ v = Version(item[i], TRUE)
    BY <2>1 DEF Earlier
  <2>3. v = Version(item[i], TRUE) => item[i].state = state
    BY <2>1 DEF Version
  <2>4. QED
    BY <2>1, <2>2, <2>3 DEF Was
<1>3. QED
  BY <1>1, <1>2 DEF Was

LEMMA CommitInv ==
  ASSUME Inductive, TaskInv, Renewing, NoWebhooks, NEW w \in Workers, CommitItem(w)
  PROVE  TaskInv'
<1>1. PICK i : i = worker[w].cur OBVIOUS
<1>2. /\ i \in Items /\ OwnsSlot(i)
      /\ item'[i].state = Target(w) /\ item'[i].attempts = item[i].attempts
      /\ item'[i].past = Earlier(item[i])
      /\ item'[i].misread = (item[i].misread \/ i \in worker[w].outdated)
      /\ \A k \in Items : k # i => item'[k] = item[k]
      /\ \/ /\ worker[w].mode = "execute" /\ Holds(w, i) /\ item[i].state = "applying"
            /\ Target(w) \in {"applied", "needs_review", "retryable_failure"}
         \/ /\ worker[w].mode = "cancel" /\ ~Holds(w, i)
            /\ item[i].state \in {"pending", "applying", "retryable_failure", "applied"}
            /\ Target(w) \in {"reverted", "skipped", "needs_review", item[i].state}
            /\ worker[w].todo[i].kind = "skip" => Target(w) = "skipped"
            /\ Target(w) \in {"applying", "retryable_failure"} => item[i].state # Target(w)
            /\ worker[w].todo[i].kind \in {"skip", "release", "inspect"}
  BY <1>1, CommitOutcome
<1> DEFINE more == worker[w].wait \/ (Retrying(w) /\ UndoCount(w) < MaxAttempts)
           m == [TaskDone(w) EXCEPT !.wait = more]
<1>3. worker' = [worker EXCEPT ![w] = m] /\ Settling(worker[w]) /\ worker[w] \in WorkerType
  BY WorkerTyped DEF CommitItem, TaskSettled, Settling
<1>4. more \in BOOLEAN BY <1>3 DEF WorkerType
<1> HIDE DEF more
<1>5. TaskDone(w) \in WorkerType /\ TaskShape(TaskDone(w))
      /\ TaskDone(w).todo = [worker[w].todo EXCEPT ![i] = NoTask]
      /\ TaskDone(w).outdated = worker[w].outdated
  BY <1>1, <1>3, TaskDoneType, TaskDoneShaped
<1>6. /\ m.outdated = TaskDone(w).outdated /\ m \in WorkerType /\ m.todo = TaskDone(w).todo /\ m.pc = TaskDone(w).pc
      /\ m.mode = TaskDone(w).mode /\ m.cur = TaskDone(w).cur /\ m.res = TaskDone(w).res
      /\ m.guarded = TaskDone(w).guarded /\ m.view = TaskDone(w).view
  BY <1>4, <1>5 DEF WorkerType
<1> HIDE DEF m
<1>7. TaskShape(m) BY <1>5, <1>6 DEF TaskShape, Settling
<1>8. /\ worker'[w] = m /\ \A v \in Workers : v # w => worker'[v] = worker[v]
  BY <1>3 DEF Inductive, TypeOK
<1>9. TasksShaped' BY <1>7, <1>8 DEF TasksShaped, TaskInv
<1>10. /\ m.todo[i] = NoTask /\ \A k \in Items : k # i => m.todo[k] = worker[w].todo[k]
  BY <1>2, <1>3, <1>5, <1>6 DEF WorkerType
<1>11. ASSUME NEW v \in Workers, NEW k \in Items, worker'[v].todo[k].kind # "none"
       PROVE  /\ worker'[v].todo[k] = worker[v].todo[k] /\ ~(v = w /\ k = i)
              /\ worker'[v].outdated = worker[v].outdated
  <2>1. CASE v = w
    <3>1. worker'[v].outdated = worker[v].outdated BY <1>5, <1>6, <1>8, <2>1
    <3>2. worker'[v].todo[k] = worker[v].todo[k] /\ k # i
      BY <1>8, <1>10, <1>11, <2>1 DEF NoTask
    <3>3. QED BY <3>1, <3>2
  <2>2. CASE v # w
    BY <1>8, <2>2
  <2>3. QED BY <2>1, <2>2
<1>12. \A v \in Workers, k \in Items : Holds(v, k)' => Holds(v, k) /\ ~(v = w /\ k = i)
  BY <1>11 DEF Holds
<1>13. ASSUME NEW v \in Workers, NEW k \in Items, Holds(v, k)'
       PROVE  item'[k].attempts = worker'[v].todo[k].n /\ (Leased(k)' \/ Astray(k)')
  <2>1. Holds(v, k) /\ worker'[v].todo[k] = worker[v].todo[k]
    BY <1>11, <1>12, <1>13 DEF Holds
  <2>2. /\ item[k].attempts = worker[v].todo[k].n /\ (Leased(k) \/ Astray(k))
        /\ \A u \in Workers \ {v} : ~Holds(u, k)
    BY <2>1 DEF TaskInv, HoldersLeased
  <2>3. CASE k = i
    <3>1. v # w BY <1>12, <1>13, <2>3
    <3>2. worker[w].mode = "cancel" BY <1>2, <2>2, <2>3, <3>1
    <3>3. item[i].state = "applying"
      <4>1. item[i].state \notin CancelTerminal
        BY <1>2, <3>2 DEF CancelTerminal, UndoneStates, ReviewStates
      <4>2. QED BY <2>2, <2>3, <4>1 DEF Leased, Astray
    <3>4. i \in worker[w].outdated
      <4>1. CASE worker[w].todo[i].kind = "skip"
        BY <1>2, <3>3, <4>1 DEF TaskInv, UndoneUnheld, CancelTerminal, UndoneStates, ReviewStates
      <4>2. CASE worker[w].todo[i].kind \in {"release", "inspect"}
        BY <1>2, <2>1, <2>3, <4>2 DEF TaskInv, UndoneUnheld, Undoes
      <4>3. QED BY <1>2, <3>2, <4>1, <4>2
    <3>5. Target(w) \in CancelTerminal
      BY <1>2, <3>2, <3>3 DEF CancelTerminal, UndoneStates, ReviewStates
    <3>6. QED BY <1>2, <2>1, <2>2, <2>3, <3>4, <3>5 DEF Astray
  <2>4. CASE k # i
    <3>1. item'[k] = item[k] BY <1>2, <2>4
    <3>2. CASE Leased(k)
      <4>1. slot[item[k].slot].owner = k /\ item[k].slot \in Slots
        BY <3>2 DEF Leased
      <4>2. item[k].slot # item[i].slot
        BY <1>2, <2>4, <4>1, SetsAssumption DEF OwnsSlot
      <4>3. slot'[item[k].slot] = slot[item[k].slot]
        BY <1>1, <4>1, <4>2 DEF CommitItem, SlotsWithout
      <4>4. QED BY <2>1, <2>2, <3>1, <3>2, <4>3 DEF Leased
    <3>3. CASE Astray(k)
      BY <2>1, <2>2, <3>1, <3>3 DEF Astray
    <3>4. QED BY <2>2, <3>2, <3>3
  <2>5. QED BY <2>3, <2>4
<1>14. \A v \in Workers, k \in Items : Holds(v, k)' => \A u \in Workers \ {v} : ~Holds(u, k)'
  BY <1>12 DEF TaskInv, HoldersLeased
<1>15. HoldersLeased' BY <1>13, <1>14 DEF HoldersLeased
<1>16. ASSUME NEW v \in Workers, NEW k \in Items
       PROVE  /\ Undoes(v, k)'
                   /\ ~(worker'[v].todo[k].kind = "inspect" /\ k \in worker'[v].outdated)
                   => \A u \in Workers : ~Holds(u, k)'
              /\ worker'[v].todo[k].kind = "skip" /\ k \notin worker'[v].outdated =>
                   item'[k].state \in {"pending"} \cup CancelTerminal
  <2>1. ASSUME Undoes(v, k)',
               ~(worker'[v].todo[k].kind = "inspect" /\ k \in worker'[v].outdated)
        PROVE  \A u \in Workers : ~Holds(u, k)'
    <3>1. /\ worker'[v].todo[k] = worker[v].todo[k] /\ worker'[v].outdated = worker[v].outdated
      BY <1>11, <2>1 DEF Undoes
    <3>2. \A u \in Workers : ~Holds(u, k)
      BY <2>1, <3>1 DEF TaskInv, UndoneUnheld, Undoes
    <3>3. QED BY <1>12, <3>2
  <2>2. ASSUME worker'[v].todo[k].kind = "skip", k \notin worker'[v].outdated
        PROVE  item'[k].state \in {"pending"} \cup CancelTerminal
    <3>1. worker[v].todo[k].kind = "skip" /\ k \notin worker[v].outdated
      BY <1>11, <2>2
    <3>2. item[k].state \in {"pending"} \cup CancelTerminal
      BY <3>1 DEF TaskInv, UndoneUnheld
    <3>3. CASE k # i BY <1>2, <3>2, <3>3
    <3>4. CASE k = i
      <4>1. item[i].state # "applying"
        BY <3>2, <3>4 DEF CancelTerminal, UndoneStates, ReviewStates
      <4>2. Target(w) \in {"reverted", "skipped", "needs_review", item[i].state}
        BY <1>2, <4>1
      <4>3. QED BY <1>2, <3>2, <3>4, <4>2 DEF CancelTerminal, UndoneStates, ReviewStates
    <3>5. QED BY <3>3, <3>4
  <2>3. QED BY <2>1, <2>2
<1>17. UndoneUnheld' BY <1>16 DEF UndoneUnheld
<1>18. ASSUME NEW k \in Items, Was(k, "applied")'
       PROVE  /\ item'[k].state \in {"applied"} \cup CancelTerminal
              /\ \A u \in Workers : ~Holds(u, k)'
  <2>1. CASE k # i
    <3>1. item'[k] = item[k] BY <1>2, <2>1
    <3>2. Was(k, "applied") BY <1>18, <3>1 DEF Was
    <3>3. QED BY <1>12, <3>1, <3>2 DEF TaskInv, AppliedUnheld
  <2>2. CASE k = i /\ Was(i, "applied")
    <3>1. /\ item[i].state \in {"applied"} \cup CancelTerminal
          /\ \A u \in Workers : ~Holds(u, i)
      BY <1>2, <2>2 DEF TaskInv, AppliedUnheld
    <3>2. Target(w) \in {"reverted", "skipped", "needs_review", item[i].state}
      BY <1>2, <3>1
    <3>3. QED
      BY <1>2, <1>12, <2>2, <3>1, <3>2 DEF CancelTerminal, UndoneStates, ReviewStates
  <2>3. CASE k = i /\ ~Was(i, "applied")
    <3>1. item'[i].state = "applied"
      BY <1>2, <1>18, <2>3, EarlierShown
    <3>2. Holds(w, i)
      BY <1>2, <2>3, <3>1 DEF Was
    <3>3. \A u \in Workers : ~Holds(u, i)'
      BY <1>2, <1>12, <3>2 DEF TaskInv, HoldersLeased
    <3>4. QED BY <2>3, <3>1, <3>3
  <2>4. QED BY <2>1, <2>2, <2>3
<1>19. AppliedUnheld' BY <1>18 DEF AppliedUnheld
<1>20. QED BY <1>9, <1>15, <1>17, <1>19 DEF TaskInv

(* A claim needs a running job, so no cancellation has begun; the item it    *)
(* takes is held by nobody, for its lease is not live.                       *)
LEMMA ClaimInv ==
  ASSUME Inductive, TaskInv, CancelsOnly, NEW w \in Workers, NEW i \in Items,
         NEW s \in Slots, Claim(w, i, s)
  PROVE  TaskInv'
<1> DEFINE attempt == IF ReconcileOnly(i) THEN MaxAttempts ELSE item[i].attempts + 1
           mark == IF ReconcileOnly(i) THEN item[i].canary
                   ELSE worker[w].first /\ ~ReconcileOnly(i)
           task == [kind |-> "apply", n |-> attempt]
           todo == [worker[w].todo EXCEPT ![i] = task]
           m == [worker[w] EXCEPT !.todo = todo]
<1>1. /\ worker[w] \in WorkerType /\ worker \in [Workers -> WorkerType]
      /\ item \in [Items -> ItemType] /\ item[i] \in ItemType /\ slot \in [Slots -> SlotType]
      /\ TaskShape(worker[w]) /\ worker[w].pc = "claim"
  BY DEF Inductive, TypeOK, TaskInv, TasksShaped, Claim
<1>2. attempt \in 0..MaxAttempts
  BY <1>1, BoundsAssumption DEF Claim, ItemType, ReconcileOnly
<1>3. /\ item'[i].state = "applying" /\ item'[i].lease = "live" /\ item'[i].slot = s
      /\ item'[i].attempts = attempt /\ \A k \in Items : k # i => item'[k] = item[k]
      /\ item'[i].past = Earlier(item[i])
  <2>1. mark \in BOOLEAN BY <1>1 DEF ItemType, WorkerType
  <2>2. item' = [item EXCEPT ![i] = [@ EXCEPT !.state = "applying", !.attempts = attempt,
                     !.lease = "live", !.slot = s, !.past = Earlier(item[i]), !.canary = mark]]
    BY Zenon DEF Claim
  <2> HIDE DEF mark, attempt
  <2>3. QED BY <1>1, <2>2 DEF ItemType
<1>4. /\ slot'[s] = [owner |-> i, live |-> TRUE] /\ ~slot[s].live
      /\ \A t \in Slots : t # s => slot'[t] = slot[t]
  BY <1>1 DEF Claim
<1>5. worker' = [worker EXCEPT ![w] = m]
  BY <1>1 DEF Claim, WorkerType
<1>6. task \in TaskType BY <1>2 DEF TaskType
<1> HIDE DEF task, attempt, mark
<1>7. /\ todo[i] = task /\ \A k \in Items : k # i => todo[k] = worker[w].todo[k]
  BY <1>1 DEF WorkerType
<1> HIDE DEF todo
<1>8. /\ m.todo = todo /\ m.pc = worker[w].pc /\ m.mode = worker[w].mode
      /\ m.guarded = worker[w].guarded /\ m.outdated = worker[w].outdated
  BY <1>1 DEF WorkerType
<1> HIDE DEF m
<1>9. task.kind = "apply" /\ task.n = attempt BY DEF task
<1>10. TaskShape(m)
  BY <1>1, <1>7, <1>8, <1>9 DEF TaskShape, Settling
<1>11. /\ worker'[w] = m /\ \A v \in Workers : v # w => worker'[v] = worker[v]
  BY <1>1, <1>5
<1>12. TasksShaped' BY <1>10, <1>11 DEF TasksShaped, TaskInv
<1>13. \A v \in Workers : ~Holds(v, i)
  <2>1. item[i].state \notin CancelTerminal /\ (item[i].state = "applying" => item[i].lease # "live")
    BY DEF Claim, Claimable, ClaimableStates, CancelTerminal, UndoneStates, ReviewStates
  <2>2. QED BY <2>1 DEF TaskInv, HoldersLeased, Leased, Astray
<1>14. \A v \in Workers, k \in Items :
         worker'[v].todo[k] = IF v = w /\ k = i THEN task ELSE worker[v].todo[k]
  BY <1>7, <1>8, <1>11
<1>15. \A v \in Workers, k \in Items : Holds(v, k)' <=> Holds(v, k) \/ (v = w /\ k = i)
  BY <1>9, <1>13, <1>14 DEF Holds
<1>16. ASSUME NEW v \in Workers, NEW k \in Items, Holds(v, k)'
       PROVE  /\ item'[k].attempts = worker'[v].todo[k].n
              /\ Leased(k)' \/ Astray(k)'
              /\ \A u \in Workers \ {v} : ~Holds(u, k)'
  <2>1. CASE k = i
    <3>1. v = w BY <1>13, <1>15, <1>16, <2>1
    <3>2. QED BY <1>3, <1>4, <1>9, <1>13, <1>14, <1>15, <2>1, <3>1 DEF Leased
  <2>2. CASE k # i
    <3>1. Holds(v, k) /\ worker'[v].todo[k] = worker[v].todo[k] /\ item'[k] = item[k]
      BY <1>3, <1>14, <1>15, <1>16, <2>2
    <3>2. /\ item[k].attempts = worker[v].todo[k].n
          /\ Leased(k) \/ Astray(k)
          /\ \A u \in Workers \ {v} : ~Holds(u, k)
      BY <3>1 DEF TaskInv, HoldersLeased
    <3>3. Leased(k) => Leased(k)'
      <4>1. ASSUME Leased(k) PROVE slot'[item[k].slot] = slot[item[k].slot]
        BY <1>4, <4>1 DEF Leased
      <4>2. QED BY <3>1, <4>1 DEF Leased
    <3>4. Astray(k) => Astray(k)' BY <3>1 DEF Astray
    <3>5. QED BY <1>15, <2>2, <3>1, <3>2, <3>3, <3>4
  <2>3. QED BY <2>1, <2>2
<1>17. HoldersLeased' BY <1>16 DEF HoldersLeased
<1>18. ASSUME NEW v \in Workers, NEW k \in Items
       PROVE  worker'[v].todo[k].kind \in {"none", "apply"}
  <2>1. job.state = "running" BY DEF Claim
  <2>2. worker[v].mode # "cancel" BY <2>1 DEF CancelsOnly
  <2>3. TaskShape(worker[v]) BY DEF TaskInv, TasksShaped
  <2>4. worker[v].todo[k].kind \in {"none", "apply"}
    BY <2>2, <2>3 DEF TaskShape, NoTask
  <2>5. QED BY <1>9, <1>14, <2>4
<1>19. UndoneUnheld' BY <1>18 DEF UndoneUnheld, Undoes
<1>20. ASSUME NEW k \in Items, Was(k, "applied")'
       PROVE  /\ item'[k].state \in {"applied"} \cup CancelTerminal
              /\ \A u \in Workers : ~Holds(u, k)'
  <2>1. CASE k # i
    <3>1. item'[k] = item[k] BY <1>3, <2>1
    <3>2. Was(k, "applied") BY <1>20, <3>1 DEF Was
    <3>3. QED BY <1>15, <2>1, <3>1, <3>2 DEF TaskInv, AppliedUnheld
  <2>2. CASE k = i
    <3>1. item[i].state \notin {"applied"} \cup CancelTerminal
      BY DEF Claim, Claimable, ClaimableStates, CancelTerminal, UndoneStates, ReviewStates
    <3>2. ~Was(i, "applied") BY <3>1 DEF TaskInv, AppliedUnheld
    <3>3. item'[i].state = "applied" BY <1>3, <1>20, <2>2, <3>2, EarlierShown
    <3>4. QED BY <1>3, <3>3
  <2>3. QED BY <2>1, <2>2
<1>21. AppliedUnheld' BY <1>20 DEF AppliedUnheld
<1>22. QED BY <1>12, <1>17, <1>19, <1>21 DEF TaskInv

(* What a cancellation lists an item for, given the version the index shows. *)
LEMMA CancelTaskKinds ==
  ASSUME NEW i \in Items, NEW late, NEW v, NEW t, t = CancelTask(i, v, late)
  PROVE  /\ t.kind \in {"none", "skip", "release", "inspect"}
         /\ t.kind = "skip" => v.state = "pending"
         /\ t.kind = "release" => v.state = "applied"
         /\ t.kind \in {"release", "inspect"} => ~UnderLease(i, v)
<1>1. CASE i \in late \/ UnderLease(i, v)
  BY <1>1 DEF CancelTask, NoTask
<1>2. CASE ~(i \in late \/ UnderLease(i, v))
  <2>1. t = [kind |-> IF v.state = "pending" THEN "skip"
                      ELSE IF v.state = "applied" THEN "release" ELSE "inspect",
             n |-> v.undo]
    BY Zenon, <1>2 DEF CancelTask, UndoTask
  <2>2. t.kind = IF v.state = "pending" THEN "skip"
                 ELSE IF v.state = "applied" THEN "release" ELSE "inspect"
    BY <2>1
  <2>3. QED BY <1>2, <2>2
<1>3. QED BY <1>1, <1>2

(* What the index shows of an item: the version it has, or one it had. *)
LEMMA LookFacts ==
  ASSUME Inductive, NEW look \in Looks, NEW i \in Items
  PROVE  /\ Was(i, look[i].state)
         /\ ~look[i].old => look[i].state = item[i].state
<1>1. look[i] \in Shown(i) BY LookTypes
<1>2. item[i] \in ItemType BY DEF Inductive, TypeOK
<1>3. CASE look[i] = Version(item[i], FALSE)
  BY <1>3 DEF Version, Was
<1>4. CASE look[i] \in item[i].past
  <2>1. look[i].old = TRUE BY <1>2, <1>4 DEF ItemType, PastType
  <2>2. QED BY <1>4, <2>1 DEF Was
<1>5. QED BY <1>1, <1>3, <1>4 DEF Shown

(* Receiving a message gives a worker its batch; a cancellation leaves alone *)
(* what the index shows under a live lease.                                  *)
LEMMA ReceiveInv ==
  ASSUME Inductive, TaskInv, NEW w \in Workers, NEW late \in SUBSET Items,
         ReceiveStale(w) \/ ReceiveExecute(w) \/ ReceiveCancel(w, late)
  PROVE  TaskInv'
<1>1. CASE ReceiveStale(w)
  BY <1>1 DEF ReceiveStale, TaskInv, TasksShaped, HoldersLeased, Leased, Astray, UndoneUnheld,
              Undoes, AppliedUnheld, Was, Holds
<1>2. CASE ReceiveExecute(w)
  <2>1. PICK r, f : worker' = [worker EXCEPT ![w] =
          [Idle EXCEPT !.pc = "claim", !.mode = "execute", !.rev = r, !.first = f]]
    BY <1>2 DEF ReceiveExecute
  <2> DEFINE m == [Idle EXCEPT !.pc = "claim", !.mode = "execute", !.rev = r, !.first = f]
  <2>2. m.pc = "claim" /\ m.mode = "execute" /\ m.guarded = FALSE
        /\ \A i \in Items : m.todo[i] = NoTask
    BY DEF Idle
  <2>3. worker' = [worker EXCEPT ![w] = m] BY <2>1
  <2> HIDE DEF m
  <2>4. TaskShape(m) BY <2>2 DEF TaskShape, Settling, NoTask
  <2>5. /\ worker'[w] = m /\ \A v \in Workers : v # w => worker'[v] = worker[v]
    BY <2>3 DEF Inductive, TypeOK
  <2>6. TasksShaped' BY <2>4, <2>5 DEF TasksShaped, TaskInv
  <2>7. ASSUME NEW v \in Workers, NEW i \in Items, worker'[v].todo[i].kind # "none"
        PROVE  /\ worker'[v].todo[i] = worker[v].todo[i]
               /\ worker'[v].outdated = worker[v].outdated
    BY <2>2, <2>5, <2>7 DEF NoTask
  <2>8. \A v \in Workers, i \in Items : Holds(v, i)' => Holds(v, i)
    BY <2>7 DEF Holds
  <2>9. UNCHANGED <<item, slot>> BY <1>2 DEF ReceiveExecute
  <2>10. HoldersLeased'
    BY <2>7, <2>8, <2>9 DEF HoldersLeased, Leased, Astray, Holds, TaskInv
  <2>11. UndoneUnheld' BY <2>7, <2>8, <2>9 DEF UndoneUnheld, Undoes, TaskInv
  <2>12. AppliedUnheld' BY <2>8, <2>9 DEF AppliedUnheld, Was, TaskInv
  <2>13. QED BY <2>6, <2>10, <2>11, <2>12 DEF TaskInv
<1>3. CASE ReceiveCancel(w, late)
  <2>1. PICK look \in Looks : \E listed \in Listings(look) :
          worker' = [worker EXCEPT ![w] = CancelPass(listed, late, look)]
    BY <1>3 DEF ReceiveCancel
  <2>2. PICK listed \in Listings(look) :
          worker' = [worker EXCEPT ![w] = CancelPass(listed, late, look)]
    BY <2>1
  <2> DEFINE m == CancelPass(listed, late, look)
  <2>3. /\ m.pc = "work" /\ m.mode = "cancel" /\ m.guarded = FALSE
        /\ m.outdated = {i \in listed : look[i].old}
        /\ \A i \in Items : m.todo[i] = IF i \in listed THEN CancelTask(i, look[i], late)
                                        ELSE NoTask
    BY DEF CancelPass, Idle
  <2> HIDE DEF m
  <2>4. \A i \in Items : m.todo[i].kind \in {"none", "skip", "release", "inspect"}
    BY <2>3, CancelTaskKinds DEF NoTask
  <2>5. TaskShape(m) BY <2>3, <2>4 DEF TaskShape, Settling
  <2>6. /\ worker'[w] = m /\ \A v \in Workers : v # w => worker'[v] = worker[v]
        /\ UNCHANGED <<item, slot>>
    BY <1>3, <2>2 DEF ReceiveCancel, Inductive, TypeOK, m
  <2>7. TasksShaped' BY <2>5, <2>6 DEF TasksShaped, TaskInv
  <2>8. \A v \in Workers, i \in Items :
          Holds(v, i)' => Holds(v, i) /\ worker'[v] = worker[v]
    BY <2>4, <2>6 DEF Holds
  <2>9. HoldersLeased' BY <2>6, <2>8 DEF HoldersLeased, Leased, Astray, TaskInv, Holds
  <2>10. ASSUME NEW i \in Items, m.todo[i].kind # "none"
         PROVE  /\ i \in listed /\ m.todo[i] = CancelTask(i, look[i], late)
                /\ look[i].state \in WorkStates
                /\ i \notin m.outdated => ~look[i].old /\ look[i].state = item[i].state
    <3>1. i \in listed /\ m.todo[i] = CancelTask(i, look[i], late)
      BY <2>3, <2>10 DEF NoTask
    <3>2. look[i].state \in WorkStates
      BY <3>1 DEF Listings, SeenIn
    <3>3. QED BY <2>3, <3>1, <3>2, LookFacts
  <2>11. ASSUME NEW i \in Items, m.todo[i].kind \in {"release", "inspect"},
                ~(m.todo[i].kind = "inspect" /\ i \in m.outdated)
         PROVE  \A v \in Workers : ~Holds(v, i)
    <3>1. CASE m.todo[i].kind = "release"
      <4>1. Was(i, "applied") BY <2>10, <3>1, CancelTaskKinds, LookFacts
      <4>2. QED BY <4>1 DEF TaskInv, AppliedUnheld
    <3>2. CASE m.todo[i].kind = "inspect" /\ i \notin m.outdated
      <4>1. /\ ~look[i].old /\ item[i].state \in WorkStates
            /\ ~(item[i].state = "applying" /\ item[i].lease = "live")
        BY <2>10, <3>2, CancelTaskKinds DEF UnderLease
      <4>2. item[i].state \notin CancelTerminal
        BY <4>1 DEF WorkStates, PendingStates, CancelTerminal, UndoneStates, ReviewStates
      <4>3. QED BY <4>1, <4>2 DEF TaskInv, HoldersLeased, Leased, Astray
    <3>3. QED BY <2>11, <3>1, <3>2
  <2>12. ASSUME NEW i \in Items, m.todo[i].kind = "skip", i \notin m.outdated
         PROVE  item[i].state = "pending"
    BY <2>10, <2>12, CancelTaskKinds
  <2>13. UndoneUnheld'
    BY <2>6, <2>8, <2>11, <2>12 DEF UndoneUnheld, Undoes, TaskInv
  <2>14. AppliedUnheld' BY <2>6, <2>8 DEF AppliedUnheld, Was, TaskInv
  <2>15. QED BY <2>7, <2>9, <2>13, <2>14 DEF TaskInv
<1>4. QED BY <1>1, <1>2, <1>3

(* Time and the account's other jobs free or take no lease somebody holds. *)
LEMMA LeaseInv ==
  ASSUME Inductive, TaskInv, NEW i \in Items, LeaseExpires(i)
  PROVE  TaskInv'
<1>1. /\ item \in [Items -> ItemType] /\ slot \in [Slots -> SlotType]
      /\ worker' = worker /\ \A v \in Workers : ~Holds(v, i)
  BY DEF Inductive, TypeOK, LeaseExpires
<1>2. /\ \A k \in Items : k # i => item'[k] = item[k]
      /\ \A k \in Items : /\ item'[k].state = item[k].state
                          /\ item'[k].past = item[k].past
  BY <1>1 DEF LeaseExpires, ItemType
<1>3. \A s \in Slots : slot[s].owner # i => slot'[s] = slot[s]
  BY <1>1 DEF LeaseExpires
<1>4. \A v \in Workers, k \in Items : Holds(v, k)' <=> Holds(v, k)
  BY <1>1 DEF Holds
<1>5. ASSUME NEW v \in Workers, NEW k \in Items, Holds(v, k), Leased(k)
      PROVE  Leased(k)'
  <2>1. k # i BY <1>1, <1>5
  <2>2. slot[item[k].slot].owner = k /\ item[k].slot \in Slots BY <1>5 DEF Leased
  <2>3. QED BY <1>2, <1>3, <1>5, <2>1, <2>2 DEF Leased
<1>6. ASSUME NEW v \in Workers, NEW k \in Items, Holds(v, k)
      PROVE  item'[k].attempts = item[k].attempts /\ (Astray(k) => Astray(k)')
  BY <1>1, <1>2, <1>6 DEF Astray
<1>7. HoldersLeased'
  BY <1>1, <1>4, <1>5, <1>6 DEF HoldersLeased, TaskInv
<1>8. TasksShaped' /\ UndoneUnheld'
  BY <1>1, <1>2, <1>4 DEF TasksShaped, UndoneUnheld, Undoes, TaskInv
<1>9. AppliedUnheld'
  BY <1>2, <1>4 DEF AppliedUnheld, Was, TaskInv
<1>10. QED BY <1>7, <1>8, <1>9 DEF TaskInv

LEMMA ForeignInv ==
  ASSUME Inductive, TaskInv, NEW s \in Slots, ForeignClaim(s) \/ ForeignFinish(s)
  PROVE  TaskInv'
<1>1. UNCHANGED <<item, worker>> BY DEF ForeignClaim, ForeignFinish
<1>2. /\ ~slot[s].live \/ slot[s].owner = OtherJob
      /\ \A t \in Slots : t # s => slot'[t] = slot[t]
  BY DEF ForeignClaim, ForeignFinish, Inductive, TypeOK
<1>3. \A i \in Items : Leased(i) => Leased(i)'
  <2>1. ASSUME NEW i \in Items, Leased(i) PROVE item[i].slot # s
    BY <1>2, <2>1, SetsAssumption DEF Leased
  <2>2. QED BY <1>1, <1>2, <2>1 DEF Leased
<1>4. \A v \in Workers, k \in Items : Holds(v, k)' <=> Holds(v, k)
  BY <1>1 DEF Holds
<1>5. QED
  BY <1>1, <1>3, <1>4
  DEF TaskInv, TasksShaped, HoldersLeased, Astray, UndoneUnheld, Undoes, AppliedUnheld, Was

-----------------------------------------------------------------------------
(* The job record *)

(* Nothing settles or claims an item. *)
ItemsKept ==
  \A i \in Items : /\ item'[i].state = item[i].state /\ item'[i].attempts = item[i].attempts
                   /\ item'[i].canary = item[i].canary /\ item'[i].misread = item[i].misread

(* What the job may do in a step that neither claims nor settles an item. *)
StateShift ==
  \/ job'.state = job.state
  \/ job.state = "scheduled" /\ job'.state = "running"
  \/ job.state \in {"scheduled", "running"} /\ job'.state = "paused"
  \/ job.state = "paused" /\ job'.state = "running"
  \/ /\ job.state \in {"scheduled", "running", "paused", "completed", "completed_with_errors"}
     /\ job'.state = "cancel_requested"
  \/ job.state = "cancel_requested" /\ job'.state = "canceling"
  \/ /\ job.state = "running" /\ ~(job.pending > 0)
     /\ job'.state = IF job.needsReview > 0 THEN "completed_with_errors" ELSE "completed"
  \/ job.state = "canceling" /\ job.remaining = 0 /\ job'.state = "canceled"
JobShift ==
  /\ SameCounters /\ StateShift
  /\ job'.canaryClaims = job.canaryClaims /\ job'.canaryCompleted = job.canaryCompleted
  /\ job'.mutationStarted => job.mutationStarted
  /\ job'.remaining = IF job'.state = "canceling" /\ job.state # "canceling"
                      THEN job.pending + job.appliedItems ELSE job.remaining
  /\ job'.canaryApproved /\ job'.approvalRequired => job.canaryApproved /\ job.approvalRequired

LEMMA WritesShift ==
  ASSUME job \in JobType,
         \/ job' = job
         \/ job.state = "scheduled" /\ job' = [job EXCEPT !.state = "running", !.revision = @ + 1]
         \/ job.state = "cancel_requested" /\ job' = BeginCancel(job)
         \/ job' = Continued(job)
         \/ \E look : job' = Finalized(job, look)
  PROVE  JobShift
<1>1. CASE job' = job
  BY <1>1 DEF JobShift, SameCounters, StateShift
<1>2. CASE job.state = "scheduled" /\ job' = [job EXCEPT !.state = "running", !.revision = @ + 1]
  BY <1>2 DEF JobShift, SameCounters, StateShift, JobType
<1>3. CASE job.state = "cancel_requested" /\ job' = BeginCancel(job)
  BY <1>3 DEF JobShift, SameCounters, StateShift, JobType, BeginCancel
<1>4. CASE job' = Continued(job) /\ job' # job
  <2>1. CASE CanaryPause(job)
    <3>1. /\ job' = [job EXCEPT !.state = "paused", !.revision = @ + 1, !.approvalRequired = TRUE]
          /\ job.state = "running" /\ ~job.canaryApproved
      BY <1>4, <2>1 DEF Continued, CanaryPause
    <3>2. QED BY <3>1 DEF JobShift, SameCounters, StateShift, JobType
  <2>2. CASE ~CanaryPause(job)
    <3>1. /\ job' = [job EXCEPT !.state = IF job.needsReview > 0 THEN "completed_with_errors"
                                          ELSE "completed",
                                !.revision = @ + 1, !.approvalRequired = FALSE]
          /\ job.state = "running" /\ ~(job.pending > 0)
      BY <1>4, <2>2 DEF Continued
    <3> DEFINE s == IF job.needsReview > 0 THEN "completed_with_errors" ELSE "completed"
    <3>2. s # "canceling" OBVIOUS
    <3>3. job'.state = s BY <3>1 DEF JobType
    <3>4. /\ SameCounters /\ job'.canaryClaims = job.canaryClaims
          /\ job'.canaryCompleted = job.canaryCompleted
          /\ job'.mutationStarted = job.mutationStarted
          /\ job'.remaining = job.remaining /\ ~job'.approvalRequired
      BY <3>1 DEF JobType, SameCounters
    <3>5. StateShift BY <3>1, <3>3 DEF StateShift
    <3>6. QED BY <3>2, <3>3, <3>4, <3>5 DEF JobShift
  <2>3. QED BY <2>1, <2>2
<1>5. CASE (\E look : job' = Finalized(job, look)) /\ job' # job
  <2>1. job' = [job EXCEPT !.state = "canceled", !.revision = @ + 1]
        /\ job.remaining = 0 /\ job.state = "canceling"
    BY <1>5 DEF Finalized, CanFinalize
  <2>2. QED BY <2>1 DEF JobShift, SameCounters, StateShift, JobType
<1>6. QED BY <1>1, <1>2, <1>3, <1>4, <1>5

LEMMA ControlShift ==
  ASSUME job \in JobType, Operator
  PROVE  JobShift
<1>1. CASE Pause
  BY <1>1 DEF Pause, Control, JobShift, SameCounters, StateShift, JobType
<1>2. CASE Cancel
  BY <1>2 DEF Cancel, Control, JobShift, SameCounters, StateShift, JobType
<1>3. CASE Resume
  <2>1. PICK ok : job' = [[job EXCEPT !.state = "running", !.approvalRequired = FALSE,
                                      !.canaryApproved = ok] EXCEPT !.revision = @ + 1]
    BY <1>3 DEF Resume, Control
  <2>2. job.state = "paused" BY <1>3 DEF Resume
  <2>3. QED BY <2>1, <2>2 DEF JobShift, SameCounters, StateShift, JobType
<1>4. CASE ReplayCommand
  BY <1>4, WritesShift DEF ReplayCommand
<1>5. QED BY <1>1, <1>2, <1>3, <1>4 DEF Operator

(* Every step claims an item, settles one, or leaves the items alone. *)
LEMMA StepKinds ==
  ASSUME Inductive, Renewing, NoWebhooks, [Next]_vars,
         ~\E w \in Workers : ClaimStep(w) \/ CommitItem(w)
  PROVE  JobShift /\ ItemsKept
<1>1. job \in JobType /\ item \in [Items -> ItemType] BY DEF Inductive, TypeOK
<1>2. CASE UNCHANGED vars
  BY <1>1, <1>2, WritesShift DEF vars, ItemsKept
<1>3. CASE \E w \in Workers : WorkerStep(w)
  <2>1. PICK w \in Workers : WorkerStep(w) BY <1>3
  <2>2. UNCHANGED item
    BY <2>1 DEF WorkerStep, ReceiveStale, ReceiveExecute, ReceiveCancel, EndClaim, ApplyItem,
                SkipPending, UndoItem, AwaitPendingUpdate, LoadItem, AlreadySettled,
                RetryRecorded, CommitSeen, Conflict, Continue, CancelDone, Unreadable
  <2>3. \/ job' = job
        \/ job.state = "scheduled" /\ job' = [job EXCEPT !.state = "running", !.revision = @ + 1]
        \/ job.state = "cancel_requested" /\ job' = BeginCancel(job)
        \/ job' = Continued(job)
        \/ \E look : job' = Finalized(job, look)
    <3>1. CASE ReceiveExecute(w)
      BY <3>1 DEF ReceiveExecute
    <3>2. CASE \E late \in SUBSET Items : ReceiveCancel(w, late)
      BY <3>2 DEF ReceiveCancel, CancelStates
    <3>3. CASE Continue(w) \/ CancelDone(w)
      BY <3>3 DEF Continue, CancelDone
    <3>4. QED
      BY <2>1, <3>1, <3>2, <3>3
      DEF WorkerStep, ReceiveStale, EndClaim, ApplyItem, SkipPending, UndoItem,
          AwaitPendingUpdate, LoadItem, AlreadySettled, RetryRecorded, CommitSeen, Conflict,
          Unreadable
  <2>4. QED BY <1>1, <2>2, <2>3, WritesShift DEF ItemsKept
<1>4. CASE HookStep
  BY <1>4 DEF HookStep, HookIgnore, HookDecide, HookFinish, HookContinue, HookFail,
              NoWebhooks, IdleHook
<1>5. CASE Operator
  BY <1>1, <1>5, ControlShift
  DEF ItemsKept, Operator, Pause, Resume, Cancel, Control, ReplayCommand
<1>6. CASE Environment
  <2>1. UNCHANGED job
    BY <1>6 DEF Environment, ProviderSettles, Renewal, ExternalUpdate, LeaseExpires,
                ForeignClaim, ForeignFinish, Crash, HookCrash
  <2>2. CASE UNCHANGED item BY <1>1, <2>1, <2>2, WritesShift DEF ItemsKept
  <2>3. CASE \E i \in Items : LeaseExpires(i)
    BY <1>1, <2>1, <2>3, WritesShift DEF ItemsKept, LeaseExpires, ItemType
  <2>4. QED
    BY <1>6, <2>2, <2>3 DEF Environment, ProviderSettles, Renewal, ExternalUpdate,
                ForeignClaim, ForeignFinish, Crash, HookCrash
<1>7. QED BY <1>2, <1>3, <1>4, <1>5, <1>6 DEF Next

(* A step of an invocation that is under way leaves it in its mode, or ends it. *)
LEMMA ModesKept ==
  ASSUME Inductive, TaskInv, NoWebhooks, [Next]_vars, NEW v \in Workers
  PROVE  /\ worker'[v].mode = "cancel" => worker[v].mode = "cancel" \/ job'.state = "canceling"
         /\ job'.state = "scheduled" /\ worker[v].pc = "idle" => worker'[v].pc = "idle"
<1> DEFINE Moves(w) == /\ worker[w].pc # "idle" /\ worker'[w].mode \in {worker[w].mode, "none"}
                       /\ \A u \in Workers : u # w => worker'[u] = worker[u]
<1>1. worker \in [Workers -> WorkerType] /\ job \in JobType BY DEF Inductive, TypeOK
<1>2. CASE UNCHANGED worker BY <1>2
<1>3. ASSUME NEW w \in Workers, Moves(w)
      PROVE  /\ worker'[v].mode = "cancel" => worker[v].mode = "cancel"
             /\ worker[v].pc = "idle" => worker'[v] = worker[v]
  BY <1>3
<1>4. ASSUME NEW w \in Workers, WorkerStep(w) \/ Crash(w), worker' # worker,
             ~ReceiveExecute(w), ~\E late \in SUBSET Items : ReceiveCancel(w, late)
      PROVE  Moves(w)
  <2>1. worker[w] \in WorkerType BY <1>1
  <2>2. ASSUME NEW m, worker' = [worker EXCEPT ![w] = m], m.mode \in {worker[w].mode, "none"},
               worker[w].pc # "idle"
        PROVE  Moves(w)
    BY <1>1, <2>2
  <2> HIDE DEF Moves
  <2>3. Idle.mode = "none" BY DEF Idle
  <2>4. TaskDone(w).mode = worker[w].mode /\ TaskDone(w) \in WorkerType
    BY <2>1, TaskDoneType DEF TaskDone, WorkerType
  <2>5. CASE Unreadable(w) \/ Crash(w) \/ Continue(w) \/ CancelDone(w)
    BY <2>2, <2>3, <2>5 DEF Unreadable, Crash, Continue, CancelDone
  <2>6. CASE AlreadySettled(w)
    BY <2>2, <2>4, <2>6 DEF AlreadySettled
  <2>7. CASE RetryRecorded(w)
    <3>1. [TaskDone(w) EXCEPT !.wait = TRUE].mode = worker[w].mode BY <2>4 DEF WorkerType
    <3>2. QED BY <2>2, <2>7, <3>1 DEF RetryRecorded
  <2>8. CASE CommitItem(w) \/ CommitSeen(w)
    <3>1. TaskSettled(w).mode = worker[w].mode BY <2>4 DEF TaskSettled, WorkerType
    <3>2. QED BY <2>2, <2>8, <3>1 DEF CommitItem, CommitSeen
  <2>9. CASE Conflict(w)
    <3>1. [worker[w] EXCEPT !.pc = "finish", !.res = "needs_review", !.guarded = FALSE,
                            !.view = NoView].mode = worker[w].mode
      BY <2>1 DEF WorkerType
    <3>2. CASE worker[w].guarded BY <2>2, <2>9, <3>1, <3>2 DEF Conflict
    <3>3. CASE ~worker[w].guarded BY <2>2, <2>3, <2>9, <3>3 DEF Conflict
    <3>4. QED BY <3>2, <3>3
  <2>10. CASE LoadItem(w)
    <3>1. PICK x : worker' = [worker EXCEPT ![w] = [worker[w] EXCEPT !.pc = "commit", !.view = x]]
      BY <2>10 DEF LoadItem
    <3>2. [worker[w] EXCEPT !.pc = "commit", !.view = x].mode = worker[w].mode
      BY <2>1 DEF WorkerType
    <3>3. QED BY <2>2, <2>10, <3>1, <3>2 DEF LoadItem
  <2>11. CASE EndClaim(w)
    <3>1. [worker[w] EXCEPT !.pc = "work"].mode = worker[w].mode BY <2>1 DEF WorkerType
    <3>2. QED BY <2>2, <2>11, <3>1 DEF EndClaim
  <2>12. CASE ClaimStep(w)
    <3>0. PICK i \in Items : \E s \in Slots : Claim(w, i, s) BY <2>12 DEF ClaimStep
    <3>1. PICK n : worker' = [worker EXCEPT ![w] = [worker[w] EXCEPT
                                !.todo[i] = [kind |-> "apply", n |-> n]]]
      BY <3>0 DEF Claim
    <3>2. [worker[w] EXCEPT !.todo[i] = [kind |-> "apply", n |-> n]].mode = worker[w].mode
      BY <2>1 DEF WorkerType
    <3>3. QED BY <2>2, <2>12, <3>1, <3>2 DEF ClaimStep, Claim
  <2>13. ASSUME NEW i \in Items, ApplyItem(w, i) \/ UndoItem(w, i) PROVE Moves(w)
    <3>1. PICK r, g : worker' = [worker EXCEPT ![w] =
            [worker[w] EXCEPT !.pc = "finish", !.cur = i, !.res = r, !.guarded = g]]
      BY <2>13 DEF ApplyItem, UndoItem
    <3>2. [worker[w] EXCEPT !.pc = "finish", !.cur = i, !.res = r, !.guarded = g].mode
            = worker[w].mode
      BY <2>1 DEF WorkerType
    <3>3. QED BY <2>2, <2>13, <3>1, <3>2 DEF ApplyItem, UndoItem
  <2>14. ASSUME NEW i \in Items, SkipPending(w, i) \/ AwaitPendingUpdate(w, i) PROVE Moves(w)
    <3>1. /\ [worker[w] EXCEPT !.pc = "finish", !.cur = i, !.res = "skipped"].mode
               = worker[w].mode
          /\ [worker[w] EXCEPT !.wait = TRUE, !.todo[i] = NoTask].mode = worker[w].mode
      BY <2>1 DEF WorkerType
    <3>2. QED BY <2>2, <2>14, <3>1 DEF SkipPending, AwaitPendingUpdate
  <2>15. QED
    BY <1>4, <2>5, <2>6, <2>7, <2>8, <2>9, <2>10, <2>11, <2>12, <2>13, <2>14
    DEF WorkerStep, ReceiveStale
<1> HIDE DEF Moves
<1>5. ASSUME NEW w \in Workers, ReceiveExecute(w)
      PROVE  job'.state = "running" /\ worker'[v].mode = "cancel" => worker[v].mode = "cancel"
  <2>1. PICK r, f : worker' = [worker EXCEPT ![w] =
          [Idle EXCEPT !.pc = "claim", !.mode = "execute", !.rev = r, !.first = f]]
    BY <1>5 DEF ReceiveExecute
  <2>2. worker'[w].mode = "execute" /\ \A u \in Workers : u # w => worker'[u] = worker[u]
    BY <1>1, <2>1 DEF Idle
  <2>3. QED BY <2>2
<1>6. ASSUME NEW w \in Workers, ReceiveExecute(w) PROVE job'.state = "running"
  BY <1>1, <1>6 DEF ReceiveExecute, JobType
<1>7. ASSUME NEW w \in Workers, \E late \in SUBSET Items : ReceiveCancel(w, late)
      PROVE  job'.state = "canceling"
  BY <1>1, <1>7 DEF ReceiveCancel, BeginCancel, JobType
<1>8. CASE \E w \in Workers : WorkerStep(w) \/ Crash(w)
  BY <1>2, <1>3, <1>4, <1>5, <1>6, <1>7, <1>8
<1>9. ASSUME ~\E w \in Workers : WorkerStep(w) \/ Crash(w) PROVE UNCHANGED worker
  BY <1>9 DEF Next, vars, HookStep, HookIgnore, HookDecide, HookFinish, HookContinue, HookFail,
              Operator, Pause, Resume, Cancel, Control, ReplayCommand, Environment,
              ProviderSettles, Renewal, ExternalUpdate, LeaseExpires, ForeignClaim,
              ForeignFinish, HookCrash
<1>10. QED BY <1>2, <1>8, <1>9

(* No webhook is ever sent. *)
LEMMA WebhooksAbsent ==
  ASSUME Inductive, TaskInv, Renewing, NoWebhooks, [Next]_vars
  PROVE  NoWebhooks'
<1>0. /\ item \in [Items -> ItemType]
      /\ provider \in [Items -> {"source", "scheduled", "renewed", "target", "paying", "other"}]
  BY DEF Inductive, TypeOK
<1>1. events' = {} /\ hook' = IdleHook
  <2>1. ~HookStep
    BY DEF HookStep, HookIgnore, HookDecide, HookFinish, HookContinue, HookFail,
           NoWebhooks, IdleHook
  <2>2. ~HookCrash BY DEF HookCrash, NoWebhooks, IdleHook
  <2>3. ~\E i \in Items : ProviderSettles(i) \/ ExternalUpdate(i)
    BY DEF ProviderSettles, ExternalUpdate, NoWebhooks, Renewing
  <2>4. ASSUME NEW w \in Workers, WorkerStep(w) PROVE UNCHANGED <<events, hook>>
    BY <2>4
    DEF WorkerStep, ReceiveStale, ReceiveExecute, ReceiveCancel, ClaimStep, Claim, EndClaim,
        ApplyItem, SkipPending, UndoItem, AwaitPendingUpdate, LoadItem, AlreadySettled,
        RetryRecorded, CommitItem, CommitSeen, Conflict, Continue, CancelDone, Unreadable
  <2>5. CASE Operator
    BY <2>5 DEF Operator, Pause, Resume, Cancel, Control, ReplayCommand, NoWebhooks
  <2>6. CASE Environment
    BY <2>2, <2>3, <2>6
    DEF Environment, Renewal, LeaseExpires, ForeignClaim, ForeignFinish, Crash, NoWebhooks
  <2>7. QED BY <2>1, <2>4, <2>5, <2>6 DEF Next, vars, NoWebhooks
<1>2. \A k \in Items : provider'[k] \in {"source", "scheduled", "renewed", "target"}
  <2>1. ASSUME NEW i \in Items, NEW p \in {"source", "scheduled", "renewed", "target"},
               provider' = [provider EXCEPT ![i] = p]
        PROVE  \A k \in Items : provider'[k] \in {"source", "scheduled", "renewed", "target"}
    BY <1>0, <2>1 DEF NoWebhooks
  <2>2. ASSUME NEW w \in Workers, NEW i \in Items, ApplyItem(w, i)
        PROVE  \A k \in Items : provider'[k] \in {"source", "scheduled", "renewed", "target"}
    <3>1. PICK out \in ApplyOutcomes(provider[i]) : provider' = [provider EXCEPT ![i] = out.to]
      BY <2>2 DEF ApplyItem
    <3>2. out.to \in {provider[i], "scheduled"}
      BY DEF ApplyOutcomes, Reached, Renewing, NextRenewal
    <3>3. QED BY <2>1, <3>1, <3>2 DEF NoWebhooks
  <2>3. ASSUME NEW w \in Workers, NEW i \in Items, UndoItem(w, i)
        PROVE  \A k \in Items : provider'[k] \in {"source", "scheduled", "renewed", "target"}
    <3>1. PICK out \in UndoOutcomes(i, worker[w].todo[i].kind) :
            provider' = [provider EXCEPT ![i] = out.to]
      BY <2>3 DEF UndoItem
    <3>2. out.to = provider[i] \/ out.to = GivenUp(i) BY UndoOutcome
    <3>3. QED BY <2>1, <3>1, <3>2 DEF NoWebhooks, GivenUp
  <2>4. ASSUME NEW i \in Items, Renewal(i)
        PROVE  \A k \in Items : provider'[k] \in {"source", "scheduled", "renewed", "target"}
    BY <2>1, <2>4 DEF Renewal
  <2>5. CASE UNCHANGED provider BY <2>5 DEF NoWebhooks
  <2>6. ~\E i \in Items : ProviderSettles(i) \/ ExternalUpdate(i)
    BY DEF ProviderSettles, ExternalUpdate, NoWebhooks, Renewing
  <2>7. ASSUME NEW w \in Workers, WorkerStep(w),
               ~\E i \in Items : ApplyItem(w, i) \/ UndoItem(w, i)
        PROVE  UNCHANGED provider
    BY <2>7
    DEF WorkerStep, ReceiveStale, ReceiveExecute, ReceiveCancel, ClaimStep, Claim, EndClaim,
        SkipPending, AwaitPendingUpdate, LoadItem, AlreadySettled, RetryRecorded, CommitItem,
        CommitSeen, Conflict, Continue, CancelDone, Unreadable
  <2>8. CASE \E w \in Workers : WorkerStep(w) BY <2>2, <2>3, <2>5, <2>7, <2>8
  <2>9. CASE Operator
    BY <2>5, <2>9 DEF Operator, Pause, Resume, Cancel, Control, ReplayCommand
  <2>10. CASE HookStep
    BY <2>10 DEF HookStep, HookIgnore, HookDecide, HookFinish, HookContinue, HookFail,
                 NoWebhooks, IdleHook
  <2>11. CASE Environment
    BY <2>4, <2>5, <2>6, <2>11
    DEF Environment, LeaseExpires, ForeignClaim, ForeignFinish, Crash, HookCrash
  <2>12. QED BY <2>5, <2>8, <2>9, <2>10, <2>11 DEF Next, vars
<1>3. \A k \in Items : item'[k].state \in RenewalStates
  <2>1. ASSUME NEW w \in Workers, ClaimStep(w)
        PROVE  \A k \in Items : item'[k].state \in RenewalStates
    <3>1. PICK i \in Items, s \in Slots : Claim(w, i, s)
      BY <2>1 DEF ClaimStep
    <3>2. PICK a, c : item' = [item EXCEPT ![i] =
            [item[i] EXCEPT !.state = "applying", !.attempts = a, !.lease = "live",
                            !.slot = s, !.past = Earlier(item[i]), !.canary = c]]
      BY <3>1 DEF Claim
    <3>3. item'[i].state = "applying" /\ \A k \in Items : k # i => item'[k] = item[k]
      BY <1>0, <3>2 DEF ItemType
    <3>4. QED BY <3>3 DEF NoWebhooks, RenewalStates
  <2>2. ASSUME NEW w \in Workers, CommitItem(w)
        PROVE  \A k \in Items : item'[k].state \in RenewalStates
    <3>1. PICK i : i = worker[w].cur OBVIOUS
    <3>2. /\ i \in Items /\ item'[i].state = Target(w)
          /\ \A k \in Items : k # i => item'[k] = item[k]
          /\ Target(w) \in {"applied", "needs_review", "retryable_failure", "reverted",
                            "skipped", item[i].state}
      BY <2>2, <3>1, CommitOutcome
    <3>3. QED BY <3>2 DEF NoWebhooks, RenewalStates
  <2>3. CASE ~\E w \in Workers : ClaimStep(w) \/ CommitItem(w)
    BY <2>3, StepKinds DEF ItemsKept, NoWebhooks
  <2>4. QED BY <2>1, <2>2, <2>3
<1>4. QED BY <1>1, <1>2, <1>3 DEF NoWebhooks

(* A job that has ended has decided every item, one that was canceled has    *)
(* undone them, and only a job that needs a reviewer says so; no worker runs *)
(* before the job has started.                                              *)
JobSettled ==
  /\ job.state = "scheduled" => \A w \in Workers : worker[w].pc = "idle"
  /\ job.state \in ClosedJobStates => ItemsIn(PendingStates) = {}
  /\ job.state = "canceled" => ItemsIn(AppliedStates) = {}
  /\ job.state = "completed" => ItemsIn(ReviewStates) = {}
  /\ job.state = "completed_with_errors" => ItemsIn(ReviewStates) # {}

(* The fields of the job that CountersAgree says nothing of. *)
CanariesDone == {i \in Items : item[i].canary /\ item[i].state \in TerminalStates}
JobRest ==
  /\ job.remaining = IF job.state = "canceling" THEN job.pending + job.appliedItems ELSE 0
  /\ job.canaryCompleted = Cardinality(CanariesDone)
  /\ job.mutationStarted => job.canaryClaims > 0
  /\ ~(job.canaryApproved /\ job.approvalRequired)

JobInv == CancelsOnly /\ JobSettled /\ JobRest

LEMMA CancelsOnlyKept ==
  ASSUME Inductive, TaskInv, NoWebhooks, CancelsOnly, [Next]_vars,
         job'.state = job.state \/ StateShift
  PROVE  CancelsOnly'
  BY ModesKept DEF CancelsOnly, StateShift

(* Counters that agree with no items, or with some. *)
LEMMA GroupSizes ==
  ASSUME CountersAgree
  PROVE  /\ job.pending \in Nat /\ job.needsReview \in Nat /\ job.appliedItems \in Nat
         /\ job.pending = 0 <=> ItemsIn(PendingStates) = {}
         /\ job.needsReview = 0 <=> ItemsIn(ReviewStates) = {}
         /\ job.appliedItems = 0 <=> ItemsIn(AppliedStates) = {}
  BY ItemsInFinite, FS_EmptySet DEF CountersAgree

(* A cancellation of which nothing remains has settled every item. *)
LEMMA NothingRemains ==
  ASSUME CountersAgree, JobRest, job.state = "canceling", job.remaining = 0
  PROVE  ItemsIn(PendingStates) = {} /\ ItemsIn(AppliedStates) = {}
<1>1. job.pending \in Nat /\ job.appliedItems \in Nat BY GroupSizes
<1>2. job.pending + job.appliedItems = 0 BY DEF JobRest
<1>3. job.pending = 0 /\ job.appliedItems = 0 BY <1>1, <1>2
<1>4. QED BY <1>3, GroupSizes

(* Steps that neither claim nor settle an item. *)
LEMMA QuietJobInv ==
  ASSUME Inductive, TaskInv, NoWebhooks, CountersAgree, JobInv, [Next]_vars,
         JobShift, ItemsKept
  PROVE  JobInv'
<1>1. CancelsOnly' BY CancelsOnlyKept DEF JobShift, JobInv
<1>2. \A S : ItemsIn(S)' = ItemsIn(S) BY DEF ItemsKept, ItemsIn
<1>3. CanariesDone' = CanariesDone BY DEF ItemsKept, CanariesDone
<1>4. JobSettled'
  <2>1. job'.state = "scheduled" => \A w \in Workers : worker'[w].pc = "idle"
    BY ModesKept DEF JobShift, StateShift, JobInv, JobSettled
  <2>2. CASE job'.state = job.state
    BY <1>2, <2>1, <2>2 DEF JobSettled, JobInv
  <2>3. CASE job'.state # job.state /\ job'.state \in {"completed", "completed_with_errors"}
    <3>1. /\ ~(job.pending > 0)
          /\ job'.state = IF job.needsReview > 0 THEN "completed_with_errors" ELSE "completed"
      BY <2>3 DEF JobShift, StateShift
    <3>2. job.pending = 0 /\ (job'.state = "completed" => job.needsReview = 0)
          /\ (job'.state = "completed_with_errors" => job.needsReview # 0)
      BY <3>1, GroupSizes
    <3>3. QED BY <1>2, <2>1, <2>3, <3>2, GroupSizes DEF JobSettled
  <2>4. CASE job'.state # job.state /\ job'.state = "canceled"
    <3>1. job.state = "canceling" /\ job.remaining = 0
      BY <2>4 DEF JobShift, StateShift
    <3>2. ItemsIn(PendingStates) = {} /\ ItemsIn(AppliedStates) = {}
      BY <3>1, NothingRemains DEF JobInv
    <3>3. QED BY <1>2, <2>1, <2>4, <3>2 DEF JobSettled
  <2>5. CASE job'.state # job.state /\ job'.state \notin ClosedJobStates
    BY <2>1, <2>5 DEF JobSettled, ClosedJobStates
  <2>6. QED BY <2>2, <2>3, <2>4, <2>5 DEF ClosedJobStates
<1>5. JobRest'
  <2>1. /\ job'.canaryCompleted = Cardinality(CanariesDone')
        /\ job'.mutationStarted => job'.canaryClaims > 0
        /\ ~(job'.canaryApproved /\ job'.approvalRequired)
    BY <1>3 DEF JobShift, JobRest, JobInv
  <2>2. job'.remaining = IF job'.state = "canceling" THEN job'.pending + job'.appliedItems ELSE 0
    <3>1. /\ job.remaining = IF job.state = "canceling" THEN job.pending + job.appliedItems ELSE 0
          /\ job'.pending = job.pending /\ job'.appliedItems = job.appliedItems
          /\ job'.remaining = IF job'.state = "canceling" /\ job.state # "canceling"
                              THEN job.pending + job.appliedItems ELSE job.remaining
      BY DEF JobShift, SameCounters, JobRest, JobInv
    <3>2. CASE job.state = "canceling" /\ job'.state # "canceling"
      <4>1. job.remaining = 0 BY <3>2 DEF JobShift, StateShift
      <4>2. QED BY <3>1, <3>2, <4>1
    <3>3. QED BY <3>1, <3>2
  <2>3. QED BY <2>1, <2>2 DEF JobRest
<1>6. QED BY <1>1, <1>4, <1>5 DEF JobInv

(* A claim leaves every canary that was done as it is. *)
LEMMA ClaimFacts ==
  ASSUME Inductive, NEW w \in Workers, NEW i \in Items, NEW s \in Slots, Claim(w, i, s)
  PROVE  /\ job.state = "running" /\ job'.state = "running"
         /\ item[i].state \in ClaimableStates /\ item'[i].state = "applying"
         /\ \A k \in Items : k # i => item'[k] = item[k]
         /\ SameCounters /\ job'.remaining = job.remaining
         /\ job'.canaryCompleted = job.canaryCompleted
         /\ job'.canaryApproved = job.canaryApproved
         /\ job'.approvalRequired = job.approvalRequired
         /\ \/ job'.mutationStarted = job.mutationStarted /\ job'.canaryClaims = job.canaryClaims
            \/ job'.canaryClaims = job.canaryClaims + 1
<1>1. /\ job \in JobType /\ item \in [Items -> ItemType] /\ job.state = "running"
      /\ item[i].state \in ClaimableStates
  BY DEF Inductive, TypeOK, Claim, Claimable
<1>2. PICK a, c : item' = [item EXCEPT ![i] = [item[i] EXCEPT !.state = "applying",
                       !.attempts = a, !.lease = "live", !.slot = s,
                       !.past = Earlier(item[i]), !.canary = c]]
  BY DEF Claim
<1>3. item'[i].state = "applying" /\ \A k \in Items : k # i => item'[k] = item[k]
  BY <1>1, <1>2 DEF ItemType
<1>4. \/ job' = job
      \/ \E b : job' = [job EXCEPT !.canaryClaims = @ + 1, !.mutationStarted = b]
  BY DEF Claim
<1>5. /\ job'.state = "running" /\ SameCounters /\ job'.remaining = job.remaining
      /\ job'.canaryCompleted = job.canaryCompleted
      /\ job'.canaryApproved = job.canaryApproved
      /\ job'.approvalRequired = job.approvalRequired
      /\ \/ job'.mutationStarted = job.mutationStarted /\ job'.canaryClaims = job.canaryClaims
         \/ job'.canaryClaims = job.canaryClaims + 1
  BY <1>1, <1>4 DEF SameCounters, JobType
<1>6. QED BY <1>1, <1>3, <1>5

LEMMA CanariesFinite ==
  /\ IsFiniteSet(Canaries) /\ Cardinality(Canaries) \in Nat
  /\ IsFiniteSet(CanariesDone) /\ Cardinality(CanariesDone) \in Nat
  /\ Cardinality(CanariesDone) <= Cardinality(Canaries)
<1>1. Canaries \subseteq Items /\ CanariesDone \subseteq Canaries
  BY DEF Canaries, CanariesDone
<1>2. IsFiniteSet(Canaries) BY <1>1, SetsAssumption, FS_Subset
<1>3. QED BY <1>1, <1>2, FS_Subset, FS_CardinalityType

LEMMA ClaimJobInv ==
  ASSUME Inductive, TaskInv, NoWebhooks, CanaryInv, JobInv, [Next]_vars,
         NEW w \in Workers, NEW i \in Items, NEW s \in Slots, Claim(w, i, s)
  PROVE  JobInv'
<1>1. CancelsOnly' BY CancelsOnlyKept, ClaimFacts DEF JobInv
<1>2. JobSettled' BY ClaimFacts DEF JobSettled, ClosedJobStates
<1>3. CanariesDone' = CanariesDone
  <2>1. /\ item[i].state \in ClaimableStates /\ item'[i].state = "applying"
        /\ \A k \in Items : k # i => item'[k] = item[k]
    BY ClaimFacts
  <2>2. item[i].state \notin TerminalStates /\ item'[i].state \notin TerminalStates
    BY <2>1 DEF ClaimableStates, TerminalStates, AppliedBucket, AppliedStates, UndoneStates,
                ReviewStates
  <2>3. QED BY <2>1, <2>2 DEF CanariesDone
<1>4. job.canaryClaims + 1 > 0 /\ job.canaryClaims \in Int
  BY CanariesFinite DEF CanaryInv, Inductive, TypeOK, JobType
<1>5. JobRest' BY <1>3, <1>4, ClaimFacts DEF JobRest, JobInv, SameCounters
<1>6. QED BY <1>1, <1>2, <1>5 DEF JobInv

(* What _finish_item makes of the job: as it writes the fields of the item   *)
(* it settles, whether or not the job changed since it was read.            *)
LEMMA CommitJob ==
  ASSUME Inductive, TaskInv, Renewing, NoWebhooks, CountersAgree,
         NEW w \in Workers, CommitItem(w), NEW i, i = worker[w].cur
  PROVE  /\ job'.state = job.state /\ job'.canaryClaims = job.canaryClaims
         /\ job'.mutationStarted = job.mutationStarted
         /\ job'.canaryApproved = job.canaryApproved
         /\ job'.approvalRequired = job.approvalRequired
         /\ job'.remaining = job.remaining -
              (IF job.state = "canceling"
               THEN Bit(item[i].state \notin CancelTerminal /\ Target(w) \in CancelTerminal) ELSE 0)
         /\ job'.canaryCompleted = job.canaryCompleted +
              (IF item[i].canary
               THEN Bit(item[i].state \notin TerminalStates /\ Target(w) \in TerminalStates) ELSE 0)
<1> DEFINE v == worker[w].view
           it == [item[i] EXCEPT !.state = v.state]
           new == Target(w)
<1>1. /\ i \in Items /\ item[i] \in ItemType /\ item \in [Items -> ItemType]
      /\ job \in JobType /\ v.job \in JobType /\ item[i].state = v.state
  BY DEF CommitItem, Unchanged, Inductive, TypeOK, WorkerShape, Shaped, ViewType
<1>2. it.state = item[i].state /\ it.canary = item[i].canary
  BY <1>1 DEF ItemType
<1>3. Written(w) = Metrics(v.job, it, new) BY DEF Written
<1>4. CASE Written(w) # v.job
  <2>1. job' = Metrics(job, it, new)
    BY <1>3, <1>4 DEF CommitItem, Unchanged
  <2> HIDE DEF it, new, v
  <2>2. QED BY <1>1, <1>2, <2>1 DEF Metrics, JobType, new
<1>5. CASE Written(w) = v.job
  <2>1. job' = job BY <1>5 DEF CommitItem
  <2>2. item'[i].state = new /\ \A k \in Items \ {i} : item'[k].state = item[k].state
    BY CommitOutcome
  <2>3. ASSUME NEW S \in Groups PROVE new \in S <=> item[i].state \in S
    <3>1. Cardinality(ItemsIn(S)') = Cardinality(ItemsIn(S))
      BY <2>1, CommitCounters DEF Groups, CountersAgree
    <3>2. Cardinality(ItemsIn(S)') = Cardinality(ItemsIn(S)) +
                                      (Bit(new \in S) - Bit(item[i].state \in S))
      BY <1>1, <2>2, GroupChange
    <3>3. Cardinality(ItemsIn(S)) \in Nat BY ItemsInFinite
    <3>4. Bit(new \in S) \in {0, 1} /\ Bit(item[i].state \in S) \in {0, 1} BY DEF Bit
    <3>5. Bit(new \in S) = Bit(item[i].state \in S) BY <3>1, <3>2, <3>3, <3>4
    <3>6. QED BY <3>5 DEF Bit
  <2>4. /\ new \in PendingStates <=> item[i].state \in PendingStates
        /\ new \in AppliedStates <=> item[i].state \in AppliedStates
        /\ new \in AppliedBucket <=> item[i].state \in AppliedBucket
        /\ new \in ReviewStates <=> item[i].state \in ReviewStates
    BY <2>3 DEF Groups
  <2>5. /\ ~(item[i].state \notin CancelTerminal /\ new \in CancelTerminal)
        /\ ~(item[i].state \notin TerminalStates /\ new \in TerminalStates)
    BY <2>4 DEF CancelTerminal, TerminalStates, AppliedBucket, AppliedStates, UndoneStates,
                ReviewStates
  <2>6. /\ Bit(item[i].state \notin CancelTerminal /\ new \in CancelTerminal) = 0
        /\ Bit(item[i].state \notin TerminalStates /\ new \in TerminalStates) = 0
    BY <2>5 DEF Bit
  <2>7. QED BY <1>1, <2>1, <2>6 DEF JobType
<1>6. QED BY <1>4, <1>5

(* An item is settled only while the job has work for it. *)
LEMMA CommitUnderWay ==
  ASSUME Inductive, TaskInv, Renewing, NoWebhooks, JobInv,
         NEW w \in Workers, CommitItem(w)
  PROVE  /\ job.state \in {"running", "paused", "cancel_requested", "canceling"}
         /\ worker[w].mode = "cancel" => job.state = "canceling"
<1>1. PICK i : i = worker[w].cur OBVIOUS
<1>2. /\ i \in Items
      /\ item[i].state \in {"pending", "applying", "retryable_failure", "applied"}
      /\ item[i].state = "applied" => worker[w].mode = "cancel"
  BY <1>1, CommitOutcome
<1>3. worker[w].pc # "idle" BY DEF CommitItem
<1>4. job.state # "scheduled" BY <1>3 DEF JobInv, JobSettled
<1>5. job.state \in ClosedJobStates => item[i].state = "applied" /\ job.state # "canceled"
  BY <1>2 DEF JobInv, JobSettled, ItemsIn, PendingStates, AppliedStates
<1>6. worker[w].mode = "cancel" => job.state \in {"canceling", "canceled"}
  BY DEF JobInv, CancelsOnly
<1>7. job.state \in JobStates BY DEF Inductive, TypeOK, JobType
<1>8. QED
  BY <1>2, <1>4, <1>5, <1>6, <1>7 DEF JobStates, CancelStates, ClosedJobStates

LEMMA CommitJobInv ==
  ASSUME Inductive, TaskInv, Renewing, NoWebhooks, CountersAgree, JobInv, [Next]_vars,
         NEW w \in Workers, CommitItem(w)
  PROVE  JobInv'
<1>1. PICK i : i = worker[w].cur OBVIOUS
<1> DEFINE new == Target(w)
           old == item[i].state
<1>2. /\ i \in Items /\ item'[i].state = new /\ item'[i].canary = item[i].canary
      /\ \A k \in Items : k # i => item'[k] = item[k]
      /\ \/ old = "applying" /\ new \in {"applied", "needs_review", "retryable_failure"}
         \/ /\ old \in {"pending", "applying", "retryable_failure", "applied"}
            /\ new \in {"reverted", "skipped", "needs_review", old}
  BY <1>1, CommitOutcome
<1>3. /\ job'.state = job.state /\ job'.canaryClaims = job.canaryClaims
      /\ job'.mutationStarted = job.mutationStarted
      /\ job'.canaryApproved = job.canaryApproved
      /\ job'.approvalRequired = job.approvalRequired
      /\ job'.remaining = job.remaining -
           (IF job.state = "canceling"
            THEN Bit(old \notin CancelTerminal /\ new \in CancelTerminal) ELSE 0)
      /\ job'.canaryCompleted = job.canaryCompleted +
           (IF item[i].canary
            THEN Bit(old \notin TerminalStates /\ new \in TerminalStates) ELSE 0)
  BY <1>1, CommitJob
<1>4. CancelsOnly' BY <1>3, CancelsOnlyKept DEF JobInv
<1>5. JobSettled'
  BY <1>3, CommitUnderWay DEF JobSettled, ClosedJobStates
<1>6. /\ job'.pending + job'.appliedItems = (job.pending + job.appliedItems)
           - Bit(old \notin CancelTerminal /\ new \in CancelTerminal)
      /\ job.pending + job.appliedItems \in Int
  <2> DEFINE P == Bit(new \in PendingStates) - Bit(old \in PendingStates)
             A == Bit(new \in AppliedStates) - Bit(old \in AppliedStates)
             E == Bit(old \notin CancelTerminal /\ new \in CancelTerminal)
  <2>1. Cardinality(ItemsIn(PendingStates)') = Cardinality(ItemsIn(PendingStates)) + P
    BY <1>2, GroupChange
  <2>2. Cardinality(ItemsIn(AppliedStates)') = Cardinality(ItemsIn(AppliedStates)) + A
    BY <1>2, GroupChange
  <2>3. /\ job.pending = Cardinality(ItemsIn(PendingStates))
        /\ job.appliedItems = Cardinality(ItemsIn(AppliedStates))
        /\ job'.pending = Cardinality(ItemsIn(PendingStates)')
        /\ job'.appliedItems = Cardinality(ItemsIn(AppliedStates)')
    BY CommitCounters DEF CountersAgree
  <2>4. P + A + E = 0 /\ P \in Int /\ A \in Int /\ E \in Int
    <3>1. CASE new = old
      <4>1. /\ new \in PendingStates <=> old \in PendingStates
            /\ new \in AppliedStates <=> old \in AppliedStates
            /\ ~(old \notin CancelTerminal /\ new \in CancelTerminal)
        BY <3>1
      <4>2. P = 0 /\ A = 0 /\ E = 0 BY <4>1 DEF Bit
      <4> HIDE DEF P, A, E
      <4>3. QED BY <4>2
    <3>2. CASE old \in {"pending", "applying", "retryable_failure"} /\ new # old
      <4>1. new \in {"applied", "needs_review", "retryable_failure", "reverted", "skipped"}
        BY <1>2, <3>2
      <4>2. QED
        BY <3>2, <4>1 DEF Bit, PendingStates, AppliedStates, CancelTerminal, UndoneStates, ReviewStates
    <3>3. CASE old = "applied" /\ new # old
      <4>1. new \in {"needs_review", "reverted", "skipped"}
        BY <1>2, <3>3
      <4>2. QED
        BY <3>3, <4>1 DEF Bit, PendingStates, AppliedStates, CancelTerminal, UndoneStates, ReviewStates
    <3>4. QED BY <1>2, <3>1, <3>2, <3>3
  <2>5. job.pending \in Int /\ job.appliedItems \in Int BY GroupSizes
  <2> HIDE DEF P, A, E
  <2>6. /\ job'.pending + job'.appliedItems = (job.pending + job.appliedItems) - E
        /\ job.pending + job.appliedItems \in Int
    BY <2>1, <2>2, <2>3, <2>4, <2>5
  <2>7. QED BY <2>6 DEF E
<1>7. Cardinality(CanariesDone') = Cardinality(CanariesDone) +
        (IF item[i].canary THEN Bit(old \notin TerminalStates /\ new \in TerminalStates) ELSE 0)
  <2>1. old \in TerminalStates => new \in TerminalStates
    BY <1>2 DEF TerminalStates, AppliedBucket, AppliedStates, UndoneStates, ReviewStates
  <2>2. CASE item[i].canary /\ old \notin TerminalStates /\ new \in TerminalStates
    <3>1. CanariesDone' = CanariesDone \cup {i} /\ i \notin CanariesDone
      BY <1>2, <2>2 DEF CanariesDone
    <3>2. Cardinality(CanariesDone') = Cardinality(CanariesDone) + 1
      BY <3>1, CanariesFinite, FS_AddElement
    <3>3. QED BY <2>2, <3>2 DEF Bit
  <2>3. CASE ~(item[i].canary /\ old \notin TerminalStates /\ new \in TerminalStates)
    <3>1. CanariesDone' = CanariesDone
      BY <1>2, <2>1, <2>3 DEF CanariesDone
    <3>2. QED BY <2>3, <3>1, CanariesFinite DEF Bit
  <2>4. QED BY <2>2, <2>3
<1>8. Bit(old \notin CancelTerminal /\ new \in CancelTerminal) \in Int BY DEF Bit
<1> DEFINE ended == Bit(old \notin CancelTerminal /\ new \in CancelTerminal)
<1>9. /\ job.remaining \in Int /\ job'.state = job.state /\ ended \in Int
      /\ job'.remaining = job.remaining - (IF job.state = "canceling" THEN ended ELSE 0)
      /\ job'.pending + job'.appliedItems = (job.pending + job.appliedItems) - ended
  BY <1>3, <1>6, <1>8 DEF Inductive, TypeOK, JobType
<1> HIDE DEF new, old, ended
<1>10. JobRest'
  <2>1. /\ job.remaining = IF job.state = "canceling" THEN job.pending + job.appliedItems ELSE 0
        /\ job.canaryCompleted = Cardinality(CanariesDone)
        /\ job.mutationStarted => job.canaryClaims > 0
        /\ ~(job.canaryApproved /\ job.approvalRequired)
    BY DEF JobInv, JobRest
  <2>2. job'.remaining = IF job'.state = "canceling" THEN job'.pending + job'.appliedItems ELSE 0
    <3>1. CASE job.state = "canceling"
      <4>1. job'.remaining = job.remaining - ended BY <1>9, <3>1
      <4>2. job.remaining = job.pending + job.appliedItems BY <2>1, <3>1
      <4>3. QED BY <1>9, <3>1, <4>1, <4>2
    <3>2. CASE job.state # "canceling"
      <4>1. job'.remaining = job.remaining - 0 BY <1>9, <3>2
      <4>2. QED BY <1>9, <2>1, <3>2, <4>1
    <3>3. QED BY <3>1, <3>2
  <2>3. QED BY <1>3, <1>7, <2>1, <2>2 DEF JobRest
<1>11. QED BY <1>4, <1>5, <1>10 DEF JobInv

-----------------------------------------------------------------------------
(* The inductive invariant of the next-renewal migration *)

RenewalInv ==
  /\ Inductive /\ CanaryInv /\ CountersAgree
  /\ NoWebhooks /\ TaskInv /\ JobInv

LEMMA InitRenewal == Init => RenewalInv
<1> SUFFICES ASSUME Init PROVE RenewalInv
  OBVIOUS
<1>1. /\ \A i \in Items : /\ item[i].state \in {"pending", "needs_review"}
                          /\ item[i].canary = FALSE /\ item[i].past = {}
      /\ \A w \in Workers : worker[w] = Idle
      /\ \A i \in Items : provider[i] = "source"
      /\ events = {} /\ hook = IdleHook
      /\ job.state = "scheduled" /\ job.remaining = 0 /\ job.canaryCompleted = 0
      /\ job.mutationStarted = FALSE /\ job.canaryApproved = FALSE
  BY DEF Init
<1>2. NoWebhooks BY <1>1 DEF NoWebhooks, RenewalStates
<1>3. \A w \in Workers : TaskShape(worker[w]) /\ worker[w].pc = "idle" /\ worker[w].mode = "none"
  BY <1>1, IdleShaped DEF Idle
<1>4. \A w \in Workers, i \in Items : worker[w].todo[i].kind = "none"
  BY <1>1 DEF Idle, NoTask
<1>5. TaskInv
  <2>1. \A i \in Items : ~Was(i, "applied")
    BY <1>1 DEF Was
  <2>2. QED
    BY <1>3, <1>4, <2>1
    DEF TaskInv, TasksShaped, HoldersLeased, UndoneUnheld, Undoes, AppliedUnheld, Holds
<1>6. CanariesDone = {} BY <1>1 DEF CanariesDone
<1>7. JobInv
  BY <1>1, <1>3, <1>6, FS_EmptySet
  DEF JobInv, CancelsOnly, JobSettled, JobRest, ClosedJobStates
<1>8. QED
  BY <1>2, <1>5, <1>7, InitInductive, InitCanary, InitCounters DEF RenewalInv

(* Every step keeps what the workers carry. *)
LEMMA NextTaskInv ==
  ASSUME RenewalInv, Renewing, [Next]_vars
  PROVE  TaskInv'
<1>0. Inductive /\ TaskInv /\ NoWebhooks /\ CancelsOnly BY DEF RenewalInv, JobInv
<1>1. CASE \E w \in Workers : WorkerStep(w)
  <2>1. PICK w \in Workers : WorkerStep(w) BY <1>1
  <2>2. CASE ClaimStep(w) BY <1>0, <2>2, ClaimInv DEF ClaimStep
  <2>3. CASE CommitItem(w) BY <1>0, <2>3, CommitInv
  <2>4. CASE \E late \in SUBSET Items :
               ReceiveStale(w) \/ ReceiveExecute(w) \/ ReceiveCancel(w, late)
    BY <1>0, <2>4, ReceiveInv
  <2>5. CASE \E i \in Items : \/ ApplyItem(w, i) \/ SkipPending(w, i)
                              \/ UndoItem(w, i) \/ AwaitPendingUpdate(w, i)
    BY <1>0, <2>5, TaskStepInv
  <2>6. CASE EndClaim(w)
    <3> DEFINE m == [worker[w] EXCEPT !.pc = "work"]
    <3>1. worker[w] \in WorkerType /\ TaskShape(worker[w]) /\ worker[w].pc = "claim"
      BY <1>0, <2>6, WorkerTyped DEF EndClaim, TaskInv, TasksShaped
    <3>2. /\ m \in WorkerType /\ TaskShape(m) /\ m.todo = worker[w].todo
          /\ m.outdated = worker[w].outdated
      BY <3>1 DEF WorkerType, TaskShape, Settling
    <3>3. worker' = [worker EXCEPT ![w] = m] /\ UNCHANGED <<item, slot>>
      BY <2>6 DEF EndClaim
    <3> HIDE DEF m
    <3>4. QED BY <1>0, <3>2, <3>3, WorkerMovesOn
  <2>7. QED BY <1>0, <2>1, <2>2, <2>3, <2>4, <2>5, <2>6, SettleStepInv DEF WorkerStep
<1>2. CASE HookStep
  BY <1>0, <1>2 DEF HookStep, HookIgnore, HookDecide, HookFinish, HookContinue, HookFail,
                    NoWebhooks, IdleHook
<1>3. CASE UNCHANGED <<item, slot, worker>>
  BY <1>0, <1>3 DEF TaskInv, TasksShaped, HoldersLeased, Leased, Astray, UndoneUnheld, Undoes,
                    AppliedUnheld, Was, Holds
<1>4. CASE Operator
  BY <1>3, <1>4 DEF Operator, Pause, Resume, Cancel, Control, ReplayCommand
<1>5. CASE Environment
  BY <1>0, <1>3, <1>5, LeaseInv, ForeignInv, SettleStepInv
  DEF Environment, ProviderSettles, Renewal, ExternalUpdate, HookCrash
<1>6. QED BY <1>1, <1>2, <1>3, <1>4, <1>5 DEF Next, vars

LEMMA NextRenewalInv ==
  ASSUME RenewalInv, Renewing, [Next]_vars
  PROVE  RenewalInv'
<1>0. /\ Inductive /\ CanaryInv /\ CountersAgree
      /\ NoWebhooks /\ TaskInv /\ JobInv
  BY DEF RenewalInv
<1>1. Inductive' /\ CanaryInv' BY <1>0, NextInductive, NextCanary
<1>2. NoWebhooks' BY <1>0, WebhooksAbsent
<1>3. TaskInv' BY NextTaskInv
<1>4. CountersAgree' /\ JobInv'
  <2>1. CASE \E w \in Workers : ClaimStep(w)
    BY <1>0, <2>1, ClaimCounters, ClaimJobInv DEF ClaimStep
  <2>2. CASE \E w \in Workers : CommitItem(w)
    BY <1>0, <2>2, CommitCounters, CommitJobInv
  <2>3. CASE ~\E w \in Workers : ClaimStep(w) \/ CommitItem(w)
    <3>1. JobShift /\ ItemsKept BY <1>0, <2>3, StepKinds
    <3>2. CountersAgree' BY <1>0, <3>1, QuietCounters DEF JobShift, ItemsKept
    <3>3. QED BY <1>0, <3>1, <3>2, QuietJobInv
  <2>4. QED BY <2>1, <2>2, <2>3
<1>5. QED BY <1>1, <1>2, <1>3, <1>4 DEF RenewalInv

(* Every step of the workers, the operator and the environment keeps the    *)
(* counters, the leases, the tasks and the job's record as RenewalInv says. *)
THEOREM RenewalInductive == ASSUME Renewing PROVE Spec => []RenewalInv
<1>1. RenewalInv /\ [Next]_vars => RenewalInv' BY NextRenewalInv
<1>2. QED BY <1>1, InitRenewal, PTL DEF Spec

-----------------------------------------------------------------------------
(* What it implies *)

LEMMA SplitStates ==
  ASSUME Inductive
  PROVE  /\ ItemsIn(PendingStates) \cup ItemsIn(AppliedBucket) \cup ItemsIn(ReviewStates) = Items
         /\ ItemsIn(PendingStates) \cap ItemsIn(AppliedBucket) = {}
         /\ (ItemsIn(PendingStates) \cup ItemsIn(AppliedBucket)) \cap ItemsIn(ReviewStates) = {}
<1>1. \A i \in Items : item[i].state \in ItemStates BY DEF Inductive, TypeOK, ItemType
<1>2. /\ PendingStates \cap AppliedBucket = {} /\ PendingStates \cap ReviewStates = {}
      /\ AppliedBucket \cap ReviewStates = {}
      /\ ItemStates = PendingStates \cup AppliedBucket \cup ReviewStates
  BY DEF ItemStates, AppliedBucket, PendingStates, AppliedStates, UndoneStates, ReviewStates
<1>3. QED BY <1>1, <1>2 DEF ItemsIn

LEMMA Readable == ASSUME RenewalInv PROVE JobReadable
<1>0. /\ Inductive /\ CanaryInv /\ CountersAgree /\ JobSettled /\ JobRest
  BY DEF RenewalInv, JobInv
<1> DEFINE P == ItemsIn(PendingStates)
           A == ItemsIn(AppliedBucket)
           R == ItemsIn(ReviewStates)
<1>1. /\ IsFiniteSet(P) /\ Cardinality(P) \in Nat /\ IsFiniteSet(A) /\ Cardinality(A) \in Nat
      /\ IsFiniteSet(R) /\ Cardinality(R) \in Nat
  BY ItemsInFinite
<1>2. Cardinality(P) + Cardinality(A) + Cardinality(R) = Cardinality(Items)
  <2>1. P \cap A = {} /\ (P \cup A) \cap R = {} /\ P \cup A \cup R = Items
    BY <1>0, SplitStates
  <2> HIDE DEF P, A, R
  <2>2. IsFiniteSet(P \cup A) /\ Cardinality(P \cup A) = Cardinality(P) + Cardinality(A)
    <3>1. /\ IsFiniteSet(P \cup A)
          /\ Cardinality(P \cup A) = Cardinality(P) + Cardinality(A) - Cardinality(P \cap A)
      BY <1>1, FS_Union
    <3>2. Cardinality(P \cap A) = 0 BY <2>1, FS_EmptySet
    <3>3. QED BY <1>1, <3>1, <3>2
  <2>3. Cardinality((P \cup A) \cup R) = Cardinality(P \cup A) + Cardinality(R)
    <3>1. Cardinality((P \cup A) \cup R)
            = Cardinality(P \cup A) + Cardinality(R) - Cardinality((P \cup A) \cap R)
      BY <1>1, <2>2, FS_Union
    <3>2. Cardinality((P \cup A) \cap R) = 0 BY <2>1, FS_EmptySet
    <3>3. Cardinality(P \cup A) \in Nat BY <1>1, <2>2
    <3>4. QED BY <1>1, <3>1, <3>2, <3>3
  <2>4. QED BY <1>1, <2>1, <2>2, <2>3
<1>3. /\ job.pending = Cardinality(P) /\ job.applied = Cardinality(A)
      /\ job.needsReview = Cardinality(R)
      /\ job.awaiting = Cardinality(ItemsIn({"awaiting_provider"}))
      /\ job.appliedItems = Cardinality(ItemsIn(AppliedStates))
  BY <1>0 DEF CountersAgree
<1>4. job.awaiting \in 0..job.pending
  <2>1. ItemsIn({"awaiting_provider"}) \subseteq P
    BY DEF ItemsIn, PendingStates
  <2>2. Cardinality(ItemsIn({"awaiting_provider"})) <= Cardinality(P)
    BY <1>1, <2>1, FS_Subset
  <2>3. QED BY <1>1, <1>3, <2>2, ItemsInFinite
<1>5. job.appliedItems \in 0..job.applied
  <2>1. ItemsIn(AppliedStates) \subseteq A
    BY DEF ItemsIn, AppliedBucket
  <2>2. Cardinality(ItemsIn(AppliedStates)) <= Cardinality(A)
    BY <1>1, <2>1, FS_Subset
  <2>3. QED BY <1>1, <1>3, <2>2, ItemsInFinite
<1>6. P = {} <=> Cardinality(P) = 0 BY <1>1, FS_EmptySet
<1>7. R = {} <=> Cardinality(R) = 0 BY <1>1, FS_EmptySet
<1>8. ItemsIn(AppliedStates) = {} => job.appliedItems = 0 BY <1>3, FS_EmptySet
<1>9. /\ job.state = "canceled" => job.appliedItems = 0
      /\ job.state \in ClosedJobStates => job.pending = 0
      /\ job.state = "completed" => job.needsReview = 0
      /\ job.state = "completed_with_errors" => job.needsReview > 0
  BY <1>0, <1>1, <1>3, <1>6, <1>7, <1>8 DEF JobSettled
<1> HIDE DEF P, A, R
<1>10. /\ job.pending \in Nat /\ job.applied \in Nat /\ job.needsReview \in Nat
       /\ job.pending + job.applied + job.needsReview = Cardinality(Items)
  BY <1>1, <1>2, <1>3
<1>11. job.canaryClaims \in 0..CanarySize /\ job.canaryCompleted \in 0..job.canaryClaims
  BY <1>0, CanariesFinite, BoundsAssumption
  DEF CanaryInv, JobRest, Inductive, TypeOK, JobType
<1>12. job.remaining \in 0..Cardinality(Items)
       /\ job.remaining = IF job.state = "canceling" THEN job.pending + job.appliedItems ELSE 0
  BY <1>0, <1>5, <1>10 DEF JobRest
<1>13. QED
  BY <1>0, <1>4, <1>5, <1>9, <1>10, <1>11, <1>12 DEF JobReadable, RecordValid, JobRest

(* No sequence of claims, settlements, controls and crashes leaves a job     *)
(* record that load_job rejects (migration_store.py _decode_job): as long as *)
(* no webhook settles an item, which Renewing excludes, the operator and the *)
(* workers can always read the job.                                          *)
THEOREM JobStaysReadable == ASSUME Renewing PROVE Spec => []JobReadable
<1>1. RenewalInv => JobReadable BY Readable
<1>2. QED BY <1>1, RenewalInductive, PTL

(* A subscription a worker is about to migrate is its alone, and no pass     *)
(* releases its schedule.  The item is under a live lease of that attempt    *)
(* and in a slot of its own (claim_items), so that the account's concurrency *)
(* bounds the migrations, unless a cancellation settled the item from an     *)
(* outdated listing.                                                         *)
THEOREM MutationsStayLeased ==
  ASSUME Renewing PROVE Spec => []MutationsAreLeased
<1>1. RenewalInv => MutationsAreLeased
  <2> SUFFICES ASSUME RenewalInv, NEW w \in Workers, NEW i \in Items, Holds(w, i)
               PROVE  /\ \A v \in Workers \ {w} : ~Holds(v, i)
                      /\ \A v \in Workers :
                           Undoes(v, i) => worker[v].todo[i].kind = "inspect"
                                           /\ i \in worker[v].outdated
                      /\ item[i].misread \/ (Leased(i) /\ item[i].attempts = worker[w].todo[i].n)
    BY DEF MutationsAreLeased, Leased
  <2>1. /\ \A v \in Workers \ {w} : ~Holds(v, i)
        /\ item[i].misread \/ (Leased(i) /\ item[i].attempts = worker[w].todo[i].n)
    BY DEF RenewalInv, TaskInv, HoldersLeased, Astray
  <2>2. \A v \in Workers :
          Undoes(v, i) => worker[v].todo[i].kind = "inspect" /\ i \in worker[v].outdated
    BY DEF RenewalInv, TaskInv, UndoneUnheld
  <2>3. QED BY <2>1, <2>2
<1>2. QED BY <1>1, RenewalInductive, PTL

(* Nobody is about to migrate a subscription of a job that is finished or    *)
(* canceled, unless a cancellation settled its item from an outdated         *)
(* listing, nor to undo one of a job that is finished.                       *)
THEOREM ClosedJobsAreQuiet ==
  ASSUME Renewing PROVE Spec => []ClosedJobIsQuiet
<1>1. RenewalInv => ClosedJobIsQuiet
  <2> SUFFICES ASSUME RenewalInv, NEW w \in Workers, NEW i \in Items
               PROVE  /\ Holds(w, i) /\ job.state \in ClosedJobStates => item[i].misread
                      /\ Undoes(w, i) => job.state \notin {"completed", "completed_with_errors"}
    BY DEF ClosedJobIsQuiet
  <2>1. ASSUME Holds(w, i), job.state \in ClosedJobStates PROVE item[i].misread
    <3>1. item[i].state # "applying"
      BY <2>1 DEF RenewalInv, JobInv, JobSettled, ItemsIn, PendingStates
    <3>2. QED BY <2>1, <3>1 DEF RenewalInv, TaskInv, HoldersLeased, Leased, Astray
  <2>2. ASSUME Undoes(w, i) PROVE job.state \notin {"completed", "completed_with_errors"}
    <3>1. TaskShape(worker[w]) BY DEF RenewalInv, TaskInv, TasksShaped
    <3>2. worker[w].todo[i].kind \notin {"none", "apply"} BY <2>2 DEF Undoes
    <3>3. worker[w].mode = "cancel" BY <3>1, <3>2 DEF TaskShape, NoTask
    <3>4. QED BY <3>3 DEF RenewalInv, JobInv, CancelsOnly
  <2>3. QED BY <2>1, <2>2
<1>2. QED BY <1>1, RenewalInductive, PTL

-----------------------------------------------------------------------------
(* The life cycle *)

Out == [i \in Items |-> OutcomeOf(i)]

LEMMA OutcomeFacts ==
  ASSUME NEW i \in Items
  PROVE  /\ item[i].state \in PendingStates => OutcomeOf(i) = "open"
         /\ item[i].state = "applied" => OutcomeOf(i) = "migrated"
         /\ item[i].state \in {"reverted", "skipped"} => OutcomeOf(i) = "undone"
         /\ item[i].state = "needs_review" => OutcomeOf(i) = "review"
  BY DEF OutcomeOf, PendingStates, AppliedStates, UndoneStates, ReviewStates

LEMMA PhaseFacts ==
  /\ job.state = "scheduled" => Phase = "planned"
  /\ job.state = "running" => Phase = "active"
  /\ job.state = "paused" => Phase = "held"
  /\ job.state \in {"cancel_requested", "canceling"} => Phase = "unwinding"
  /\ job.state \in {"completed", "completed_with_errors"} => Phase = "finished"
  /\ job.state = "canceled" => Phase = "withdrawn"
  BY DEF Phase, CancelStates

(* A control, or the end of the job. *)
LEMMA ShiftLifecycle ==
  ASSUME RenewalInv, JobShift, ItemsKept
  PROVE  [Lifecycle!Next]_(Lifecycle!lifecycle)
<1>1. UNCHANGED Out
  <2>1. \A i \in Items : OutcomeOf(i)' = OutcomeOf(i) BY DEF ItemsKept, OutcomeOf
  <2>2. QED BY <2>1 DEF Out
<1>2. CASE job'.state = job.state
  <2>1. Phase' = Phase BY <1>2 DEF Phase
  <2>2. QED BY <1>1, <2>1 DEF Lifecycle!lifecycle, Out
<1>3. CASE job.state = "scheduled" /\ job'.state = "running"
  <2>1. Phase = "planned" /\ Phase' = "active" BY <1>3 DEF Phase, CancelStates
  <2>2. QED BY <1>1, <2>1 DEF Lifecycle!Next, Lifecycle!Start, Out
<1>4. CASE job.state \in {"scheduled", "running"} /\ job'.state = "paused"
  <2>1. Phase \in {"planned", "active"} /\ Phase' = "held" BY <1>4 DEF Phase, CancelStates
  <2>2. QED BY <1>1, <2>1 DEF Lifecycle!Next, Lifecycle!Hold, Out
<1>5. CASE job.state = "paused" /\ job'.state = "running"
  <2>1. Phase = "held" /\ Phase' = "active" BY <1>5 DEF Phase, CancelStates
  <2>2. QED BY <1>1, <2>1 DEF Lifecycle!Next, Lifecycle!Release, Out
<1>6. CASE /\ job.state \in {"scheduled", "running", "paused", "completed", "completed_with_errors"}
           /\ job'.state = "cancel_requested"
  <2>1. Phase \in {"planned", "active", "held", "finished"} /\ Phase' = "unwinding"
    BY <1>6 DEF Phase, CancelStates
  <2>2. QED BY <1>1, <2>1 DEF Lifecycle!Next, Lifecycle!Unwind, Out
<1>7. CASE job.state = "cancel_requested" /\ job'.state = "canceling"
  <2>1. Phase = "unwinding" /\ Phase' = "unwinding" BY <1>7 DEF Phase, CancelStates
  <2>2. QED BY <1>1, <2>1 DEF Lifecycle!lifecycle, Out
<1>8. CASE /\ job.state = "running" /\ ~(job.pending > 0)
           /\ job'.state = IF job.needsReview > 0 THEN "completed_with_errors" ELSE "completed"
  <2>1. job'.state \in {"completed", "completed_with_errors"} BY <1>8
  <2>2. Phase = "active" /\ Phase' = "finished" BY <1>8, <2>1 DEF Phase, CancelStates
  <2>3. CountersAgree BY DEF RenewalInv
  <2>4. ItemsIn(PendingStates) = {} BY <1>8, <2>3, GroupSizes
  <2>5. \A i \in Items : Out[i] # "open"
    <3>1. ASSUME NEW i \in Items PROVE OutcomeOf(i) # "open"
      <4>1. item[i].state \in {"applied", "reverted", "skipped", "needs_review"}
        BY <2>4 DEF ItemsIn, RenewalInv, NoWebhooks, RenewalStates, PendingStates
      <4>2. QED BY <4>1, OutcomeFacts
    <3>2. QED BY <3>1 DEF Out
  <2>6. QED BY <1>1, <2>2, <2>5 DEF Lifecycle!Next, Lifecycle!Finish, Out
<1>9. CASE job.state = "canceling" /\ job.remaining = 0 /\ job'.state = "canceled"
  <2>1. Phase = "unwinding" /\ Phase' = "withdrawn" BY <1>9 DEF Phase, CancelStates
  <2>2. \A i \in Items : Out[i] \in {"undone", "review"}
    <3>1. ASSUME NEW i \in Items PROVE OutcomeOf(i) \in {"undone", "review"}
      <4>1. item[i].state \in {"reverted", "skipped", "needs_review"}
        <5>1. ItemsIn(PendingStates) = {} /\ ItemsIn(AppliedStates) = {}
          BY <1>9, NothingRemains DEF RenewalInv, JobInv
        <5>2. QED
          BY <5>1 DEF ItemsIn, RenewalInv, NoWebhooks, RenewalStates, PendingStates, AppliedStates
      <4>2. QED BY <4>1, OutcomeFacts
    <3>2. QED BY <3>1 DEF Out
  <2>3. QED BY <1>1, <2>1, <2>2 DEF Lifecycle!Next, Lifecycle!Withdraw, Out
<1>10. QED
  BY <1>2, <1>3, <1>4, <1>5, <1>6, <1>7, <1>8, <1>9 DEF JobShift, StateShift

(* A claim is not seen; a settlement decides an item, or is not seen. *)
LEMMA ItemLifecycle ==
  ASSUME RenewalInv, Renewing, NEW w \in Workers, ClaimStep(w) \/ CommitItem(w)
  PROVE  [Lifecycle!Next]_(Lifecycle!lifecycle)
<1>0. /\ Inductive /\ TaskInv /\ NoWebhooks /\ CountersAgree /\ JobInv
  BY DEF RenewalInv
<1>1. CASE ClaimStep(w)
  <2>1. PICK i \in Items, s \in Slots : Claim(w, i, s) BY <1>1 DEF ClaimStep
  <2>2. /\ job.state = "running" /\ job'.state = "running"
        /\ item[i].state \in ClaimableStates /\ item'[i].state = "applying"
        /\ \A k \in Items : k # i => item'[k] = item[k]
    BY <1>0, <2>1, ClaimFacts
  <2>3. \A k \in Items : OutcomeOf(k)' = OutcomeOf(k)
    <3>1. OutcomeOf(i) = "open" /\ OutcomeOf(i)' = "open"
      BY <2>2 DEF OutcomeOf, ClaimableStates, PendingStates, AppliedStates, UndoneStates,
                  ReviewStates
    <3>2. \A k \in Items : k # i => OutcomeOf(k)' = OutcomeOf(k) BY <2>2 DEF OutcomeOf
    <3>3. QED BY <3>1, <3>2
  <2>4. Phase' = Phase BY <2>2 DEF Phase
  <2>5. QED BY <2>3, <2>4 DEF Lifecycle!lifecycle
<1>2. CASE CommitItem(w)
  <2>1. PICK i : i = worker[w].cur OBVIOUS
  <2> DEFINE old == item[i].state
             new == item'[i].state
  <2>2. /\ i \in Items /\ \A k \in Items : k # i => item'[k] = item[k]
        /\ \/ /\ old = "applying" /\ new \in {"applied", "needs_review", "retryable_failure"}
           \/ /\ worker[w].mode = "cancel"
              /\ old \in {"pending", "applying", "retryable_failure", "applied"}
              /\ new \in {"reverted", "skipped", "needs_review", old}
    BY <1>0, <1>2, <2>1, CommitOutcome
  <2>3. /\ job.state \in {"running", "paused", "cancel_requested", "canceling"}
        /\ worker[w].mode = "cancel" => job.state = "canceling"
        /\ job'.state = job.state
    BY <1>0, <1>2, <2>1, CommitUnderWay, CommitJob
  <2>4. /\ Phase \in {"active", "held", "unwinding"} /\ Phase' = Phase
        /\ worker[w].mode = "cancel" => Phase = "unwinding"
    BY <2>3 DEF Phase, CancelStates
  <2>5. \A k \in Items : k # i => OutcomeOf(k)' = OutcomeOf(k)
    BY <2>2 DEF OutcomeOf
  <2>6. Out' = [Out EXCEPT ![i] = OutcomeOf(i)'] BY <2>2, <2>5 DEF Out
  <2>7. CASE OutcomeOf(i)' = OutcomeOf(i)
    <3>1. Out' = Out BY <2>5, <2>7 DEF Out
    <3>2. QED BY <2>4, <3>1 DEF Lifecycle!lifecycle, Out
  <2>8. CASE /\ old = "applying" /\ new \in {"applied", "needs_review"}
    <3>1. OutcomeOf(i) = "open" /\ OutcomeOf(i)' \in {"migrated", "review"}
      BY <2>8 DEF OutcomeOf, PendingStates, AppliedStates, UndoneStates, ReviewStates
    <3>2. Lifecycle!Settle(i)
      BY <2>2, <2>4, <2>6, <3>1 DEF Lifecycle!Settle, Out
    <3>3. QED BY <2>2, <3>2 DEF Lifecycle!Next
  <2>9. CASE /\ worker[w].mode = "cancel"
             /\ old \in {"pending", "applying", "retryable_failure", "applied"}
             /\ new \in {"reverted", "skipped", "needs_review"}
    <3>1. OutcomeOf(i) \in {"open", "migrated"} /\ OutcomeOf(i)' \in {"undone", "review"}
      BY <2>9 DEF OutcomeOf, PendingStates, AppliedStates, UndoneStates, ReviewStates
    <3>2. Lifecycle!Undo(i)
      BY <2>2, <2>4, <2>6, <2>9, <3>1 DEF Lifecycle!Undo, Out
    <3>3. QED BY <2>2, <3>2 DEF Lifecycle!Next
  <2>10. CASE new = old \/ (old = "applying" /\ new = "retryable_failure")
    <3>1. CASE new = old BY <3>1, <2>7 DEF OutcomeOf
    <3>2. CASE old = "applying" /\ new = "retryable_failure"
      BY <2>7, <3>2 DEF OutcomeOf, PendingStates, AppliedStates, UndoneStates, ReviewStates
    <3>3. QED BY <2>10, <3>1, <3>2
  <2>11. QED BY <2>2, <2>8, <2>9, <2>10
<1>3. QED BY <1>1, <1>2

(* The migration keeps the promises of MigrationLifecycle: an outcome is     *)
(* decided while the job is under way and undone only by a cancellation, a   *)
(* finished job has decided every item and a withdrawn one has migrated none *)
(* (migration_store.py claim_items, _finish_item, continue_execution,        *)
(* finalize_cancellation).                                                   *)
THEOREM RenewalKeepsLifecycle == ASSUME Renewing PROVE Spec => KeepsLifecycle
<1>1. Init => Lifecycle!Init
  <2> SUFFICES ASSUME Init PROVE Lifecycle!Init
    OBVIOUS
  <2>1. job.state = "scheduled" /\ \A i \in Items : item[i].state \in {"pending", "needs_review"}
    BY DEF Init
  <2>2. \A i \in Items : OutcomeOf(i) \in {"open", "review"}
    BY <2>1, OutcomeFacts DEF PendingStates
  <2>3. Phase = "planned" BY <2>1, PhaseFacts
  <2>4. QED BY <2>2, <2>3 DEF Lifecycle!Init
<1>2. RenewalInv /\ [Next]_vars => [Lifecycle!Next]_(Lifecycle!lifecycle)
  <2> SUFFICES ASSUME RenewalInv, [Next]_vars PROVE [Lifecycle!Next]_(Lifecycle!lifecycle)
    OBVIOUS
  <2>1. CASE \E w \in Workers : ClaimStep(w) \/ CommitItem(w)
    BY <2>1, ItemLifecycle
  <2>2. CASE ~\E w \in Workers : ClaimStep(w) \/ CommitItem(w)
    BY <2>2, StepKinds, ShiftLifecycle DEF RenewalInv
  <2>3. QED BY <2>1, <2>2
<1>3. QED BY <1>1, <1>2, RenewalInductive, PTL DEF Spec, KeepsLifecycle, Lifecycle!Spec

(* A settled item is never reopened, and an applied one is only ever undone, *)
(* by a cancellation that runs, and skipped only from an outdated listing:   *)
(* the conditions of _finish_item hold against workers that settle the same  *)
(* item late.                                                                *)
THEOREM SettlementsLast ==
  ASSUME Renewing PROVE Spec => SettledForGood
<1> DEFINE Lasts == \A i \in Items :
       /\ item[i].state \in {"reverted", "skipped", "needs_review"}
            => item'[i].state = item[i].state
       /\ item[i].state = "applied" /\ item'[i].state # "applied"
            => /\ job.state = "canceling"
               /\ \/ item'[i].state \in {"reverted", "needs_review"}
                  \/ item'[i].state = "skipped" /\ item'[i].misread
<1>1. RenewalInv /\ [Next]_vars => Lasts
  <2> SUFFICES ASSUME RenewalInv, [Next]_vars PROVE Lasts
    OBVIOUS
  <2>0. /\ Inductive /\ TaskInv /\ NoWebhooks /\ JobInv BY DEF RenewalInv
  <2>1. CASE \E w \in Workers : ClaimStep(w)
    <3>1. PICK w \in Workers, i \in Items, s \in Slots : Claim(w, i, s) BY <2>1 DEF ClaimStep
    <3>2. /\ item[i].state \in ClaimableStates
          /\ \A k \in Items : k # i => item'[k] = item[k]
      BY <2>0, <3>1, ClaimFacts
    <3>3. QED BY <3>2 DEF ClaimableStates
  <2>2. CASE \E w \in Workers : CommitItem(w)
    <3>1. PICK w \in Workers : CommitItem(w) BY <2>2
    <3>2. PICK i : i = worker[w].cur OBVIOUS
    <3>3. /\ i \in Items /\ item'[i].state = Target(w)
          /\ item'[i].misread = (item[i].misread \/ i \in worker[w].outdated)
          /\ \A k \in Items : k # i => item'[k] = item[k]
          /\ \/ item[i].state = "applying"
             \/ /\ worker[w].mode = "cancel"
                /\ item[i].state \in {"pending", "applying", "retryable_failure", "applied"}
                /\ Target(w) \in {"reverted", "skipped", "needs_review", item[i].state}
                /\ Target(w) = "skipped" => worker[w].todo[i].kind = "skip"
      BY <2>0, <3>1, <3>2, CommitOutcome
    <3>4. worker[w].todo[i].kind = "skip" /\ i \notin worker[w].outdated
            => item[i].state # "applied"
      BY <2>0, <3>3 DEF TaskInv, UndoneUnheld, CancelTerminal, UndoneStates, ReviewStates
    <3>5. worker[w].mode = "cancel" => job.state = "canceling"
      BY <2>0, <3>1, CommitUnderWay
    <3>6. QED BY <3>3, <3>4, <3>5
  <2>3. CASE ~\E w \in Workers : ClaimStep(w) \/ CommitItem(w)
    BY <2>0, <2>3, StepKinds DEF ItemsKept
  <2>4. QED BY <2>1, <2>2, <2>3
<1>2. SettledForGood <=> [][Lasts]_vars BY DEF SettledForGood
<1> HIDE DEF Lasts
<1>3. QED BY <1>1, <1>2, RenewalInductive, PTL DEF Spec

-----------------------------------------------------------------------------
(* What Stripe holds *)

(* An item that was never claimed has its source price; one a cancellation   *)
(* skipped was never claimed, unless its listing was outdated.               *)
Untouched ==
  \A i \in Items :
    /\ item[i].state = "pending" => item[i].attempts = 0
    /\ item[i].state = "skipped" => item[i].attempts = 0 \/ item[i].misread
    /\ item[i].attempts = 0 => provider[i] = "source"

(* What a worker decided of the item it settles, and what the settled items *)
(* say, is what Stripe holds, except what rests on an outdated listing.     *)
Migrated(p) == p \in {"scheduled", "renewed", "target"}
Restored(p) == p \in {"source", "target"}
ItemsMatch ==
  \A i \in Items :
    /\ item[i].state = "reverted" => Restored(provider[i]) \/ item[i].misread
    /\ item[i].state = "applied" /\ job.state \notin {"canceling", "canceled"}
         => Migrated(provider[i])
WorkersMatch ==
  \A w \in Workers :
    Settling(worker[w]) =>
      /\ worker[w].res = "applied" => Migrated(provider[worker[w].cur])
      /\ worker[w].res = "reverted" =>
           Restored(provider[worker[w].cur]) \/ worker[w].cur \in worker[w].outdated
ProviderInv == Untouched /\ ItemsMatch /\ WorkersMatch

(* What an undoing worker may make of a subscription. *)
Undone(w, i, p) ==
  \/ p = provider[i]
  \/ Attached(provider[i]) /\ worker[w].todo[i].kind = "release" /\ p = GivenUp(i)

(* How a call or a renewal may change what Stripe holds for one item. *)
LEMMA ProviderMoves ==
  ASSUME Renewing, NoWebhooks, Inductive, [Next]_vars
  PROVE  \/ UNCHANGED provider
         \/ \E i \in Items, p \in {"source", "scheduled", "renewed", "target"} :
              /\ provider' = [provider EXCEPT ![i] = p]
              /\ \/ Renewal(i)
                 \/ \E w \in Workers : ApplyItem(w, i) /\ p \in {provider[i], "scheduled"}
                 \/ \E w \in Workers : UndoItem(w, i) /\ Undone(w, i, p)
<1>1. ASSUME NEW w \in Workers, NEW i \in Items, ApplyItem(w, i)
      PROVE  \E p \in {"source", "scheduled", "renewed", "target"} :
               /\ provider' = [provider EXCEPT ![i] = p]
               /\ ApplyItem(w, i) /\ p \in {provider[i], "scheduled"}
  <2>1. PICK out \in ApplyOutcomes(provider[i]) : provider' = [provider EXCEPT ![i] = out.to]
    BY <1>1 DEF ApplyItem
  <2>2. out.to \in {provider[i], "scheduled"}
    BY DEF ApplyOutcomes, Reached, Renewing, NextRenewal
  <2>3. QED BY <1>1, <2>1, <2>2 DEF NoWebhooks
<1>2. ASSUME NEW w \in Workers, NEW i \in Items, UndoItem(w, i)
      PROVE  \E p \in {"source", "scheduled", "renewed", "target"} :
               /\ provider' = [provider EXCEPT ![i] = p]
               /\ UndoItem(w, i) /\ Undone(w, i, p)
  <2>1. PICK out \in UndoOutcomes(i, worker[w].todo[i].kind) :
          provider' = [provider EXCEPT ![i] = out.to]
    BY <1>2 DEF UndoItem
  <2>2. Undone(w, i, out.to) BY UndoOutcome DEF Undone
  <2>3. QED BY <1>2, <2>1, <2>2 DEF NoWebhooks, GivenUp, Undone
<1>3. ASSUME NEW i \in Items, Renewal(i)
      PROVE  \E p \in {"source", "scheduled", "renewed", "target"} :
               provider' = [provider EXCEPT ![i] = p]
  BY <1>3 DEF Renewal
<1>4. ASSUME NEW w \in Workers, WorkerStep(w),
             ~\E i \in Items : ApplyItem(w, i) \/ UndoItem(w, i)
      PROVE  UNCHANGED provider
  BY <1>4
  DEF WorkerStep, ReceiveStale, ReceiveExecute, ReceiveCancel, ClaimStep, Claim, EndClaim,
      SkipPending, AwaitPendingUpdate, LoadItem, AlreadySettled, RetryRecorded, CommitItem,
      CommitSeen, Conflict, Continue, CancelDone, Unreadable
<1>5. CASE \E w \in Workers : WorkerStep(w) BY <1>1, <1>2, <1>4, <1>5
<1>6. CASE Operator
  BY <1>6 DEF Operator, Pause, Resume, Cancel, Control, ReplayCommand
<1>7. CASE HookStep
  BY <1>7 DEF HookStep, HookIgnore, HookDecide, HookFinish, HookContinue, HookFail,
              NoWebhooks, IdleHook
<1>8. CASE Environment
  <2>1. ~\E i \in Items : ProviderSettles(i) \/ ExternalUpdate(i)
    BY DEF ProviderSettles, ExternalUpdate, NoWebhooks, Renewing
  <2>2. QED
    BY <1>3, <1>8, <2>1
    DEF Environment, LeaseExpires, ForeignClaim, ForeignFinish, Crash, HookCrash
<1>9. QED BY <1>5, <1>6, <1>7, <1>8 DEF Next, vars

(* What a step does to an item's state and attempts. *)
LEMMA ItemMoves ==
  ASSUME RenewalInv, Renewing, [Next]_vars, NEW i \in Items
  PROVE  \/ /\ item'[i].state = item[i].state /\ item'[i].attempts = item[i].attempts
            /\ item[i].misread => item'[i].misread
         \/ item'[i].state = "applying" /\ item'[i].attempts # 0 /\ UNCHANGED provider
         \/ /\ item'[i].attempts = item[i].attempts /\ UNCHANGED provider
            /\ job'.state = job.state
            /\ \E w \in Workers :
                 /\ CommitItem(w) /\ i = worker[w].cur
                 /\ \/ item'[i].state \in {"retryable_failure", "needs_review"}
                    \/ item'[i].state = "applied" /\ worker[w].res = "applied"
                    \/ /\ item'[i].state = "reverted" /\ worker[w].res = "reverted"
                       /\ i \in worker[w].outdated => item'[i].misread
                    \/ /\ item'[i].state = "skipped"
                       /\ item[i].state = "pending" \/ item'[i].misread
<1>0. Inductive /\ TaskInv /\ NoWebhooks /\ CountersAgree BY DEF RenewalInv
<1>1. CASE \E w \in Workers : ClaimStep(w)
  <2>1. PICK w \in Workers, k \in Items, s \in Slots : Claim(w, k, s) BY <1>1 DEF ClaimStep
  <2>2. /\ item'[k].state = "applying" /\ \A j \in Items : j # k => item'[j] = item[j]
    BY <1>0, <2>1, ClaimFacts
  <2>3. UNCHANGED provider BY <2>1 DEF Claim
  <2>4. item'[k].attempts # 0
    <3> DEFINE a == IF ReconcileOnly(k) THEN MaxAttempts ELSE item[k].attempts + 1
               c == IF ReconcileOnly(k) THEN item[k].canary
                    ELSE worker[w].first /\ ~ReconcileOnly(k)
    <3>1. item' = [item EXCEPT ![k] = [item[k] EXCEPT !.state = "applying", !.attempts = a,
                       !.lease = "live", !.slot = s, !.past = Earlier(item[k]),
                       !.canary = c]]
      BY <2>1, Zenon DEF Claim
    <3>2. item \in [Items -> ItemType] /\ item[k] \in ItemType
      BY <1>0 DEF Inductive, TypeOK
    <3>3. a # 0 BY <3>2, BoundsAssumption DEF ItemType
    <3> HIDE DEF a, c
    <3>4. item'[k].attempts = a BY <3>1, <3>2 DEF ItemType
    <3>5. QED BY <3>3, <3>4
  <2>5. QED BY <2>2, <2>3, <2>4
<1>2. CASE \E w \in Workers : CommitItem(w)
  <2>1. PICK w \in Workers : CommitItem(w) BY <1>2
  <2>2. PICK k : k = worker[w].cur OBVIOUS
  <2>3. /\ k \in Items /\ item'[k].state = Target(w)
        /\ item'[k].attempts = item[k].attempts
        /\ item'[k].misread = (item[k].misread \/ k \in worker[w].outdated)
        /\ \A j \in Items : j # k => item'[j] = item[j]
    BY <1>0, <2>1, <2>2, CommitOutcome
  <2>4. job'.state = job.state BY <1>0, <2>1, <2>2, CommitJob
  <2>5. UNCHANGED provider BY <2>1 DEF CommitItem
  <2>6. CASE worker[w].mode = "execute"
    <3>1. Target(w) = worker[w].res BY <2>6 DEF Target, Retrying
    <3>2. Target(w) \in {"applied", "needs_review", "retryable_failure"}
      BY <1>0, <2>1, <2>2, <2>6, CommitOutcome
    <3>3. QED BY <2>1, <2>2, <2>3, <2>4, <2>5, <3>1, <3>2
  <2>7. CASE worker[w].mode = "cancel"
    <3>1. /\ Target(w) \in {"reverted", "skipped", "needs_review", item[k].state}
          /\ Target(w) = "skipped" => worker[w].todo[k].kind = "skip"
          /\ Target(w) = "reverted" => worker[w].res = "reverted"
          /\ item[k].state \in {"pending", "applying", "retryable_failure", "applied"}
      BY <1>0, <2>1, <2>2, <2>7, CommitOutcome
    <3>2. worker[w].todo[k].kind = "skip" /\ k \notin worker[w].outdated
            => item[k].state = "pending"
      BY <1>0, <2>3, <3>1
      DEF TaskInv, UndoneUnheld, CancelTerminal, UndoneStates, ReviewStates
    <3>3. QED BY <2>1, <2>2, <2>3, <2>4, <2>5, <3>1, <3>2
  <2>8. worker[w].mode \in {"execute", "cancel"}
    BY <1>0, <2>1, <2>2, CommitOutcome
  <2>9. QED BY <2>6, <2>7, <2>8
<1>3. CASE ~\E w \in Workers : ClaimStep(w) \/ CommitItem(w)
  BY <1>0, <1>3, StepKinds DEF ItemsKept
<1>4. QED BY <1>1, <1>2, <1>3

(* A subscription is changed by the worker that holds its item, by one that  *)
(* undoes it, or by a renewal of the schedule this job made.                 *)
LEMMA UntouchedKept ==
  ASSUME RenewalInv, Renewing, Untouched, [Next]_vars
  PROVE  Untouched'
<1>0. Inductive /\ CanaryInv /\ NoWebhooks BY DEF RenewalInv
<1>1. ASSUME NEW i \in Items, item'[i].attempts = item[i].attempts, item[i].attempts = 0
      PROVE  provider'[i] = provider[i]
  <2>1. ~Attached(provider[i]) BY <1>1 DEF Untouched, Attached
  <2>2. ASSUME NEW w \in Workers PROVE ~ApplyItem(w, i)
    <3>1. ~(item[i].attempts > 0) BY <1>1
    <3>2. ~Holds(w, i) BY <1>0, <3>1 DEF CanaryInv
    <3>3. QED BY <3>2 DEF ApplyItem
  <2>3. ~Renewal(i) BY <2>1 DEF Renewal
  <2>4. provider \in [Items -> {"source", "scheduled", "renewed", "target", "paying", "other"}]
    BY <1>0 DEF Inductive, TypeOK
  <2>5. \A w \in Workers : \A p : Undone(w, i, p) => p = provider[i]
    BY <2>1 DEF Undone
  <2>6. QED BY <1>0, <2>1, <2>2, <2>3, <2>4, <2>5, ProviderMoves
<1>2. ASSUME NEW i \in Items
      PROVE  /\ item'[i].state = "pending" => item'[i].attempts = 0
             /\ item'[i].state = "skipped" => item'[i].attempts = 0 \/ item'[i].misread
             /\ item'[i].attempts = 0 => provider'[i] = "source"
  <2>1. CASE item'[i].state = "applying" /\ item'[i].attempts # 0
    BY <2>1
  <2>2. CASE /\ item'[i].state = item[i].state /\ item'[i].attempts = item[i].attempts
             /\ item[i].misread => item'[i].misread
    BY <1>1, <2>2 DEF Untouched
  <2>3. CASE /\ item'[i].attempts = item[i].attempts
             /\ \/ item'[i].state \in {"retryable_failure", "needs_review", "applied", "reverted"}
                \/ /\ item'[i].state = "skipped"
                   /\ item[i].state = "pending" \/ item'[i].misread
    BY <1>1, <2>3 DEF Untouched
  <2>4. QED BY <2>1, <2>2, <2>3, ItemMoves
<1>3. QED BY <1>2 DEF Untouched

LEMMA SettlersKind ==
  ASSUME Inductive, TaskInv, NEW w \in Workers, Settling(worker[w])
  PROVE  /\ worker[w].cur \in Items
         /\ worker[w].res = "applied" => worker[w].todo[worker[w].cur].kind = "apply"
         /\ worker[w].res = "reverted" =>
              worker[w].todo[worker[w].cur].kind \in {"release", "inspect"}
         /\ worker[w].todo[worker[w].cur].kind # "none"
<1>1. TaskShape(worker[w]) BY DEF TaskInv, TasksShaped
<1>2. worker[w].cur \in Items /\ worker[w].todo[worker[w].cur] \in TaskType
  BY DEF Inductive, TypeOK, WorkerType, WorkerShape, Shaped, Settling
<1>3. QED BY <1>1, <1>2 DEF TaskShape, Settling, TaskType

(* A worker that settles an item decided on it in this step, or was settling *)
(* it with the same decision.                                               *)
LEMMA SettlingSteps ==
  ASSUME Inductive, TaskInv, NoWebhooks, [Next]_vars, NEW w \in Workers,
         Settling(worker[w])', worker'[w].res \in {"applied", "reverted"}
  PROVE  \/ /\ Settling(worker[w]) /\ worker'[w].res = worker[w].res
            /\ worker'[w].cur = worker[w].cur /\ worker'[w].outdated = worker[w].outdated
            /\ ~\E i \in Items : ApplyItem(w, i) \/ UndoItem(w, i)
         \/ \E i \in Items : /\ ApplyItem(w, i) \/ UndoItem(w, i)
                             /\ worker'[w].cur = i
<1>0. worker \in [Workers -> WorkerType] /\ worker[w] \in WorkerType
  BY DEF Inductive, TypeOK
<1>1. CASE worker'[w] = worker[w]
  <2>1. \A i \in Items : ~ApplyItem(w, i) /\ ~UndoItem(w, i)
    BY <1>1 DEF ApplyItem, UndoItem, Settling
  <2>2. QED BY <1>1, <2>1 DEF Settling
<1>2. ASSUME NEW v \in Workers, v # w, WorkerStep(v) \/ Crash(v) PROVE worker'[w] = worker[w]
  <2>1. UNCHANGED worker \/ \E m : worker' = [worker EXCEPT ![v] = m]
    <3>1. CASE Crash(v) \/ ReceiveStale(v) BY <3>1 DEF Crash, ReceiveStale
    <3>2. CASE \E late \in SUBSET Items : ReceiveCancel(v, late)
      BY <3>2 DEF ReceiveCancel
    <3>3. CASE ReceiveExecute(v) BY <3>3 DEF ReceiveExecute
    <3>4. CASE ClaimStep(v) BY <3>4 DEF ClaimStep, Claim
    <3>5. CASE \E i \in Items : ApplyItem(v, i) \/ UndoItem(v, i)
      <4>1. CASE \E i \in Items : ApplyItem(v, i) BY <4>1 DEF ApplyItem
      <4>2. CASE \E i \in Items : UndoItem(v, i) BY <4>2 DEF UndoItem
      <4>3. QED BY <3>5, <4>1, <4>2
    <3>6. CASE \E i \in Items : SkipPending(v, i) \/ AwaitPendingUpdate(v, i)
      BY <3>6 DEF SkipPending, AwaitPendingUpdate
    <3>7. CASE EndClaim(v) \/ LoadItem(v) \/ AlreadySettled(v) \/ RetryRecorded(v)
               \/ CommitItem(v) \/ CommitSeen(v) \/ Conflict(v)
      BY <3>7 DEF EndClaim, LoadItem, AlreadySettled, RetryRecorded, CommitItem, CommitSeen, Conflict
    <3>8. CASE Continue(v) \/ CancelDone(v) \/ Unreadable(v)
      BY <3>8 DEF Continue, CancelDone, Unreadable
    <3>9. QED
      BY <1>2, <3>1, <3>2, <3>3, <3>4, <3>5, <3>6, <3>7, <3>8 DEF WorkerStep
  <2>2. QED BY <1>0, <1>2, <2>1
<1>3. CASE \E i \in Items : ApplyItem(w, i) \/ UndoItem(w, i)
  <2>1. PICK i \in Items : ApplyItem(w, i) \/ UndoItem(w, i) BY <1>3
  <2>2. \E r, g : worker' = [worker EXCEPT ![w] =
          [worker[w] EXCEPT !.pc = "finish", !.cur = i, !.res = r, !.guarded = g]]
    <3>1. CASE ApplyItem(w, i)
      <4>1. PICK r, g : worker' = [worker EXCEPT ![w] =
              [@ EXCEPT !.pc = "finish", !.cur = i, !.res = r, !.guarded = g]]
        <5>1. PICK out \in ApplyOutcomes(provider[i]) : worker' = [worker EXCEPT ![w] =
                [@ EXCEPT !.pc = "finish", !.cur = i,
                          !.res = IF out.res = "retryable_failure"
                                     /\ worker[w].todo[i].n >= MaxAttempts
                                  THEN "needs_review" ELSE out.res,
                          !.guarded = out.res \in {"applied", "awaiting_provider"}]]
          BY <3>1 DEF ApplyItem
        <5>2. QED BY <5>1
      <4>2. QED BY <4>1
    <3>2. CASE UndoItem(w, i) BY <3>2 DEF UndoItem
    <3>3. QED BY <2>1, <3>1, <3>2
  <2>3. worker'[w].cur = i BY <1>0, <2>2 DEF WorkerType
  <2>4. QED BY <2>1, <2>3
<1>4. ASSUME ~\E i \in Items : ApplyItem(w, i) \/ UndoItem(w, i), WorkerStep(w) \/ Crash(w)
      PROVE  /\ Settling(worker[w]) /\ worker'[w].res = worker[w].res
             /\ worker'[w].cur = worker[w].cur /\ worker'[w].outdated = worker[w].outdated
  <2>1. CASE LoadItem(w)
    <3>1. PICK x : worker' = [worker EXCEPT ![w] = [worker[w] EXCEPT !.pc = "commit", !.view = x]]
      BY <2>1 DEF LoadItem
    <3>2. QED BY <1>0, <2>1, <3>1 DEF LoadItem, Settling, WorkerType
  <2>2. CASE Conflict(w)
    <3>1. CASE worker[w].guarded
      <4>1. worker' = [worker EXCEPT ![w] = [worker[w] EXCEPT !.pc = "finish",
                   !.res = "needs_review", !.guarded = FALSE, !.view = NoView]]
        BY <2>2, <3>1 DEF Conflict
      <4>2. worker'[w].res = "needs_review" BY <1>0, <4>1 DEF WorkerType
      <4>3. QED BY <4>2
    <3>2. CASE ~worker[w].guarded
      <4>1. worker'[w] = Idle BY <1>0, <2>2, <3>2 DEF Conflict
      <4>2. QED BY <4>1 DEF Settling, Idle
    <3>3. QED BY <3>1, <3>2
  <2>3. CASE ReceiveStale(w)
    BY <1>1, <2>3 DEF ReceiveStale, Receives, Settling
  <2>4. CASE ReceiveExecute(w)
    <3>1. PICK r, f : worker' = [worker EXCEPT ![w] =
            [Idle EXCEPT !.pc = "claim", !.mode = "execute", !.rev = r, !.first = f]]
      BY <2>4 DEF ReceiveExecute
    <3>2. worker'[w].pc = "claim" BY <1>0, <3>1 DEF Idle
    <3>3. QED BY <3>2 DEF Settling
  <2>5. CASE \E late \in SUBSET Items : ReceiveCancel(w, late)
    <3>1. PICK a, b, c : worker' = [worker EXCEPT ![w] = CancelPass(a, b, c)]
      BY <2>5 DEF ReceiveCancel
    <3>2. worker'[w].pc = "work" BY <1>0, <3>1 DEF CancelPass, Idle
    <3>3. QED BY <3>2 DEF Settling
  <2>6. CASE ClaimStep(w)
    <3>0. PICK i \in Items : \E s \in Slots : Claim(w, i, s) BY <2>6 DEF ClaimStep
    <3>1. PICK n : worker' = [worker EXCEPT ![w] = [worker[w] EXCEPT
                                !.todo[i] = [kind |-> "apply", n |-> n]]]
      BY <3>0 DEF Claim
    <3>2. worker[w].pc = "claim" BY <2>6 DEF ClaimStep, Claim
    <3>3. QED BY <1>0, <3>1, <3>2 DEF Settling, WorkerType
  <2>7. CASE EndClaim(w)
    BY <1>0, <2>7 DEF EndClaim, Settling, WorkerType
  <2>8. CASE \E i \in Items : SkipPending(w, i)
    <3>1. worker'[w].res = "skipped" BY <1>0, <2>8 DEF SkipPending, WorkerType
    <3>2. QED BY <3>1
  <2>9. CASE \E i \in Items : AwaitPendingUpdate(w, i)
    BY <2>9 DEF AwaitPendingUpdate, NoWebhooks
  <2>10. CASE AlreadySettled(w) \/ RetryRecorded(w) \/ CommitItem(w) \/ CommitSeen(w)
    <3>1. TaskDone(w).pc = "work" /\ TaskDone(w) \in WorkerType
      BY TaskDoneType
    <3>2. worker'[w].pc = "work"
      BY <1>0, <2>10, <3>1
      DEF AlreadySettled, RetryRecorded, CommitItem, CommitSeen, TaskSettled, WorkerType
    <3>3. QED BY <3>2 DEF Settling
  <2>11. CASE Continue(w) \/ CancelDone(w) \/ Unreadable(w) \/ Crash(w)
    <3>1. worker'[w] = Idle BY <1>0, <2>11 DEF Continue, CancelDone, Unreadable, Crash
    <3>2. QED BY <3>1 DEF Settling, Idle
  <2>12. QED
    BY <1>4, <2>1, <2>2, <2>3, <2>4, <2>5, <2>6, <2>7, <2>8, <2>9, <2>10, <2>11
    DEF WorkerStep
<1>5. CASE ~\E v \in Workers : WorkerStep(v) \/ Crash(v)
  <2>1. UNCHANGED worker
    BY <1>5 DEF Next, vars, HookStep, HookIgnore, HookDecide, HookFinish, HookContinue,
                HookFail, Operator, Pause, Resume, Cancel, Control, ReplayCommand,
                Environment, ProviderSettles, Renewal, ExternalUpdate, LeaseExpires,
                ForeignClaim, ForeignFinish, HookCrash
  <2>2. QED BY <1>1, <2>1
<1>6. QED BY <1>1, <1>2, <1>3, <1>4, <1>5

(* What applies or releases an item finds nobody else settling it, except   *)
(* those that listed it outdated.                                           *)
LEMMA OnlyActor ==
  ASSUME RenewalInv, NEW v \in Workers, NEW w \in Workers, NEW i \in Items,
         Settling(worker[w]), worker[w].cur = i
  PROVE  /\ ApplyItem(v, i) => worker[w].res # "applied"
         /\ ApplyItem(v, i) /\ worker[w].res = "reverted" => i \in worker[w].outdated
         /\ UndoItem(v, i) /\ worker[v].todo[i].kind = "release" => worker[w].res # "applied"
<1>0. Inductive /\ TaskInv BY DEF RenewalInv
<1>1. ApplyItem(v, i) => v # w /\ Holds(v, i) BY DEF ApplyItem, Settling
<1>2. UndoItem(v, i) => Undoes(v, i) BY DEF UndoItem, Undoes
<1>3. worker[w].res = "applied" => Holds(w, i) BY <1>0, SettlersKind DEF Holds
<1>4. worker[w].res = "reverted" => Undoes(w, i) BY <1>0, SettlersKind DEF Undoes
<1>5. QED
  BY <1>0, <1>1, <1>2, <1>3, <1>4 DEF TaskInv, HoldersLeased, UndoneUnheld

LEMMA WorkersMatchKept ==
  ASSUME RenewalInv, Renewing, ProviderInv, [Next]_vars
  PROVE  WorkersMatch'
<1>0. /\ Inductive /\ TaskInv /\ NoWebhooks /\ WorkersMatch
      /\ provider \in [Items -> {"source", "scheduled", "renewed", "target", "paying", "other"}]
  BY DEF RenewalInv, ProviderInv, Inductive, TypeOK
<1> SUFFICES ASSUME NEW w \in Workers, Settling(worker[w])',
                    worker'[w].res \in {"applied", "reverted"}
             PROVE  /\ worker'[w].res = "applied" => Migrated(provider'[worker'[w].cur])
                    /\ worker'[w].res = "reverted" =>
                         \/ Restored(provider'[worker'[w].cur])
                         \/ worker'[w].cur \in worker'[w].outdated
  BY DEF WorkersMatch
<1>1. CASE /\ Settling(worker[w]) /\ worker'[w].res = worker[w].res
           /\ worker'[w].cur = worker[w].cur /\ worker'[w].outdated = worker[w].outdated
           /\ ~\E i \in Items : ApplyItem(w, i) \/ UndoItem(w, i)
  <2>1. PICK i \in Items : i = worker[w].cur BY <1>0, <1>1, SettlersKind
  <2>2. /\ worker[w].res = "applied" => Migrated(provider[i])
        /\ worker[w].res = "reverted" => Restored(provider[i]) \/ i \in worker[w].outdated
    BY <1>0, <1>1, <2>1 DEF WorkersMatch
  <2>3. CASE provider'[i] = provider[i]
    BY <1>1, <2>1, <2>2, <2>3
  <2>4. CASE provider'[i] # provider[i]
    <3>1. PICK p \in {"source", "scheduled", "renewed", "target"} :
            /\ provider' = [provider EXCEPT ![i] = p]
            /\ \/ Renewal(i)
               \/ \E v \in Workers : ApplyItem(v, i) /\ p \in {provider[i], "scheduled"}
               \/ \E v \in Workers : UndoItem(v, i) /\ Undone(v, i, p)
      BY <1>0, <2>4, ProviderMoves
    <3>2. CASE \E v \in Workers : ApplyItem(v, i)
      <4>1. PICK v \in Workers : ApplyItem(v, i) BY <3>2
      <4>2. QED BY <1>1, <2>1, <4>1, OnlyActor
    <3>3. CASE Renewal(i)
      <4>1. Attached(provider[i]) /\ Migrated(provider'[i])
        BY <1>0, <3>3 DEF Renewal, Attached, Migrated
      <4>2. worker[w].res = "reverted" => i \in worker[w].outdated
        BY <2>2, <4>1 DEF Attached, Restored
      <4>3. QED BY <1>1, <2>1, <4>1, <4>2
    <3>4. CASE \E v \in Workers : UndoItem(v, i) /\ Undone(v, i, p)
      <4>1. PICK v \in Workers : UndoItem(v, i) /\ Undone(v, i, p) BY <3>4
      <4>2. Attached(provider[i]) /\ worker[v].todo[i].kind = "release"
        BY <1>0, <2>4, <3>1, <4>1 DEF Undone
      <4>3. worker[w].res = "reverted" => i \in worker[w].outdated
        BY <2>2, <4>2 DEF Attached, Restored
      <4>4. worker[w].res # "applied" BY <1>1, <2>1, <4>1, <4>2, OnlyActor
      <4>5. QED BY <1>1, <2>1, <4>3, <4>4
    <3>5. QED BY <3>1, <3>2, <3>3, <3>4
  <2>5. QED BY <2>3, <2>4
<1>2. ASSUME NEW i \in Items, ApplyItem(w, i), worker'[w].cur = i
      PROVE  /\ worker'[w].res = "applied" => Migrated(provider'[i])
             /\ worker'[w].res = "reverted" => Restored(provider'[i])
  <2>1. PICK out \in ApplyOutcomes(provider[i]) :
          /\ provider' = [provider EXCEPT ![i] = out.to]
          /\ worker' = [worker EXCEPT ![w] =
               [worker[w] EXCEPT !.pc = "finish", !.cur = i,
                  !.res = IF out.res = "retryable_failure" /\ worker[w].todo[i].n >= MaxAttempts
                          THEN "needs_review" ELSE out.res,
                  !.guarded = out.res \in {"applied", "awaiting_provider"}]]
    BY <1>2 DEF ApplyItem
  <2>2. out.res = "applied" => out.to = "scheduled"
    BY ChoicesAssumption DEF ApplyOutcomes, Reached, Renewing, NextRenewal
  <2>3. out.res \in {"applied", "needs_review", "retryable_failure"}
    BY ChoicesAssumption DEF ApplyOutcomes, Reached, Renewing, NextRenewal
  <2>4. worker'[w].res \in {out.res, "needs_review"}
    <3> DEFINE r == IF out.res = "retryable_failure" /\ worker[w].todo[i].n >= MaxAttempts
                    THEN "needs_review" ELSE out.res
               g == out.res \in {"applied", "awaiting_provider"}
    <3>1. r \in {out.res, "needs_review"} OBVIOUS
    <3>2. worker' = [worker EXCEPT ![w] =
             [worker[w] EXCEPT !.pc = "finish", !.cur = i, !.res = r, !.guarded = g]]
      BY <2>1
    <3> HIDE DEF r, g
    <3>3. worker \in [Workers -> WorkerType] BY <1>0 DEF Inductive, TypeOK
    <3>4. worker'[w].res = r BY <3>2, <3>3 DEF WorkerType
    <3>5. QED BY <3>1, <3>4
  <2>5. provider'[i] = out.to BY <1>0, <2>1
  <2>6. QED BY <2>2, <2>3, <2>4, <2>5 DEF Migrated
<1>3. ASSUME NEW i \in Items, UndoItem(w, i), worker'[w].cur = i
      PROVE  /\ worker'[w].res = "applied" => Migrated(provider'[i])
             /\ worker'[w].res = "reverted" => Restored(provider'[i])
  <2>1. PICK out \in UndoOutcomes(i, worker[w].todo[i].kind) :
          /\ provider' = [provider EXCEPT ![i] = out.to]
          /\ worker' = [worker EXCEPT ![w] =
               [worker[w] EXCEPT !.pc = "finish", !.cur = i, !.res = out.res,
                                 !.guarded = out.guarded]]
    BY <1>3 DEF UndoItem
  <2>2. /\ out.res \in {"reverted", "needs_review", "retryable_failure"}
        /\ out.res = "reverted" => out.to = GivenUp(i) \/ provider[i] = "source"
        /\ out.to = provider[i] \/ (Attached(provider[i]) /\ out.to = GivenUp(i))
    <3> DEFINE kind == worker[w].todo[i].kind
    <3> HIDE DEF kind
    <3>1. out \in UndoOutcomes(i, kind) BY Zenon DEF kind
    <3>2. /\ out.res \in {"reverted", "needs_review"} \cup Faults
          /\ \/ out.to = provider[i]
             \/ Attached(provider[i]) /\ kind = "release" /\ out.to = GivenUp(i)
          /\ out.res = "reverted" => out.to = GivenUp(i) \/ provider[i] = "source"
      BY ONLY <3>1, UndoOutcome, i \in Items, Zenon
    <3>3. QED BY ChoicesAssumption, <3>2
  <2>3. worker \in [Workers -> WorkerType] BY <1>0 DEF Inductive, TypeOK
  <2>4. worker'[w].res = out.res BY <2>1, <2>3 DEF WorkerType
  <2>5. provider'[i] = out.to BY <1>0, <2>1
  <2>6. QED BY <2>2, <2>4, <2>5 DEF Restored, GivenUp
<1>4. QED BY <1>0, <1>1, <1>2, <1>3, SettlingSteps

(* What was written from an outdated listing stays marked so. *)
LEMMA MisreadKept ==
  ASSUME RenewalInv, Renewing, [Next]_vars, NEW i \in Items
  PROVE  item[i].misread => item'[i].misread
<1>0. Inductive /\ TaskInv /\ NoWebhooks BY DEF RenewalInv
<1>1. CASE \E w \in Workers : ClaimStep(w)
  <2>1. PICK w \in Workers, k \in Items, s \in Slots : Claim(w, k, s) BY <1>1 DEF ClaimStep
  <2>2. PICK a, c : item' = [item EXCEPT ![k] = [item[k] EXCEPT !.state = "applying",
                       !.attempts = a, !.lease = "live", !.slot = s,
                       !.past = Earlier(item[k]), !.canary = c]]
    BY <2>1 DEF Claim
  <2>3. item \in [Items -> ItemType] BY <1>0 DEF Inductive, TypeOK
  <2>4. item'[i].misread = item[i].misread BY <2>2, <2>3 DEF ItemType
  <2>5. QED BY <2>4
<1>2. CASE \E w \in Workers : CommitItem(w)
  <2>1. PICK w \in Workers : CommitItem(w) BY <1>2
  <2>2. PICK k : k = worker[w].cur OBVIOUS
  <2>3. /\ item'[k].misread = (item[k].misread \/ k \in worker[w].outdated)
        /\ \A j \in Items : j # k => item'[j] = item[j]
    BY <1>0, <2>1, <2>2, CommitOutcome
  <2>4. QED BY <2>3
<1>3. CASE ~\E w \in Workers : ClaimStep(w) \/ CommitItem(w)
  BY <1>0, <1>3, StepKinds DEF ItemsKept
<1>4. QED BY <1>1, <1>2, <1>3

LEMMA ItemsMatchKept ==
  ASSUME RenewalInv, Renewing, ProviderInv, [Next]_vars
  PROVE  ItemsMatch'
<1>0. /\ Inductive /\ TaskInv /\ NoWebhooks /\ ItemsMatch /\ WorkersMatch /\ CancelsOnly
      /\ provider \in [Items -> {"source", "scheduled", "renewed", "target", "paying", "other"}]
  BY DEF RenewalInv, ProviderInv, Inductive, TypeOK, JobInv
<1> SUFFICES ASSUME NEW i \in Items
             PROVE  /\ item'[i].state = "reverted" => Restored(provider'[i]) \/ item'[i].misread
                    /\ item'[i].state = "applied" /\ job'.state \notin {"canceling", "canceled"}
                         => Migrated(provider'[i])
  BY DEF ItemsMatch
<1>1. job'.state \notin {"canceling", "canceled"} => job.state \notin {"canceling", "canceled"}
  <2>1. CASE \E w \in Workers : CommitItem(w)
    BY <1>0, <2>1, CommitJob DEF RenewalInv
  <2>2. CASE \E w \in Workers : ClaimStep(w)
    <3>1. PICK w \in Workers, k \in Items, s \in Slots : Claim(w, k, s) BY <2>2 DEF ClaimStep
    <3>2. QED BY <1>0, <3>1, ClaimFacts
  <2>3. CASE ~\E w \in Workers : ClaimStep(w) \/ CommitItem(w)
    BY <1>0, <2>3, StepKinds DEF JobShift, StateShift
  <2>4. QED BY <2>1, <2>2, <2>3
<1>2. CASE item'[i].state = item[i].state /\ (item[i].misread => item'[i].misread)
  <2>1. /\ item[i].state = "reverted" => Restored(provider[i]) \/ item[i].misread
        /\ item[i].state = "applied" /\ job.state \notin {"canceling", "canceled"}
             => Migrated(provider[i])
    BY <1>0 DEF ItemsMatch
  <2>2. CASE provider'[i] = provider[i] BY <1>1, <1>2, <2>1, <2>2
  <2>3. CASE provider'[i] # provider[i] /\ item[i].state \in {"reverted", "applied"}
    <3>1. PICK p \in {"source", "scheduled", "renewed", "target"} :
            /\ provider' = [provider EXCEPT ![i] = p]
            /\ \/ Renewal(i)
               \/ \E v \in Workers : ApplyItem(v, i) /\ p \in {provider[i], "scheduled"}
               \/ \E v \in Workers : UndoItem(v, i) /\ Undone(v, i, p)
      BY <1>0, <2>3, ProviderMoves
    <3>2. CASE \E v \in Workers : ApplyItem(v, i)
      <4>1. item[i].misread /\ item[i].state # "applied"
        BY <1>0, <2>3, <3>2 DEF ApplyItem, TaskInv, HoldersLeased, Leased, Astray,
                                CancelTerminal, UndoneStates, ReviewStates
      <4>2. QED BY <1>2, <4>1
    <3>3. CASE Renewal(i)
      <4>1. Attached(provider[i]) /\ Migrated(provider'[i])
        BY <1>0, <3>3 DEF Renewal, Attached, Migrated
      <4>2. item[i].state = "reverted" => item[i].misread
        BY <2>1, <4>1 DEF Attached, Restored
      <4>3. QED BY <1>2, <4>1, <4>2
    <3>4. CASE \E v \in Workers : UndoItem(v, i) /\ Undone(v, i, p)
      <4>1. PICK v \in Workers : UndoItem(v, i) /\ Undone(v, i, p) BY <3>4
      <4>2. Attached(provider[i]) BY <1>0, <2>3, <3>1, <4>1 DEF Undone
      <4>3. item[i].state = "reverted" => item[i].misread
        BY <2>1, <4>2 DEF Attached, Restored
      <4>4. worker[v].mode = "cancel"
        <5>1. TaskShape(worker[v]) /\ worker[v].pc = "work"
              /\ worker[v].todo[i].kind \in {"release", "inspect"}
          BY <1>0, <4>1 DEF TaskInv, TasksShaped, UndoItem
        <5>2. QED BY <5>1 DEF TaskShape
      <4>5. job.state \in {"canceling", "canceled"} BY <1>0, <4>4 DEF CancelsOnly
      <4>6. QED BY <1>1, <1>2, <4>3, <4>5
    <3>5. QED BY <3>1, <3>2, <3>3, <3>4
  <2>4. QED BY <1>2, <2>2, <2>3
<1>3. CASE item'[i].state # item[i].state
  <2>1. CASE item'[i].state \notin {"applied", "reverted"} BY <2>1
  <2>2. CASE item'[i].state \in {"applied", "reverted"}
    <3>1. /\ UNCHANGED provider
          /\ \E w \in Workers : /\ CommitItem(w) /\ i = worker[w].cur
                                /\ worker[w].res = item'[i].state
                                /\ worker[w].res = "reverted" /\ i \in worker[w].outdated
                                     => item'[i].misread
      BY <1>3, <2>2, ItemMoves
    <3>2. PICK w \in Workers :
            /\ CommitItem(w) /\ i = worker[w].cur /\ worker[w].res = item'[i].state
            /\ worker[w].res = "reverted" /\ i \in worker[w].outdated => item'[i].misread
      BY <3>1
    <3>3. Settling(worker[w]) BY <3>2 DEF CommitItem, Settling
    <3>4. QED BY <1>0, <2>2, <3>1, <3>2, <3>3 DEF WorkersMatch
  <2>3. QED BY <2>1, <2>2
<1>4. item'[i].state = item[i].state => (item[i].misread => item'[i].misread)
  BY MisreadKept
<1>5. QED BY <1>2, <1>3, <1>4

LEMMA InitProvider == Init => ProviderInv
<1> SUFFICES ASSUME Init PROVE ProviderInv
  OBVIOUS
<1>1. /\ \A i \in Items : item[i].state \in {"pending", "needs_review"} /\ item[i].attempts = 0
      /\ \A i \in Items : provider[i] = "source"
      /\ \A w \in Workers : worker[w].pc = "idle"
  BY DEF Init, Idle
<1>2. QED BY <1>1 DEF ProviderInv, Untouched, ItemsMatch, WorkersMatch, Settling

(* Every step keeps what the items say, and what the workers are about to  *)
(* write of them, in agreement with what Stripe holds.                     *)
THEOREM ProviderInductive ==
  ASSUME Renewing PROVE Spec => []ProviderInv
<1>1. RenewalInv /\ ProviderInv /\ [Next]_vars => ProviderInv'
  <2> SUFFICES ASSUME RenewalInv, ProviderInv, [Next]_vars PROVE ProviderInv'
    OBVIOUS
  <2>1. Untouched' BY UntouchedKept DEF ProviderInv
  <2>2. QED BY <2>1, ItemsMatchKept, WorkersMatchKept DEF ProviderInv
<1>2. QED BY <1>1, InitProvider, RenewalInductive, PTL DEF Spec

(* A subscription whose item was never claimed, or that a cancellation       *)
(* skipped as such, was never changed by this job: the report of a canceled  *)
(* migration can be believed, except for what was skipped from an outdated   *)
(* listing.                                                                  *)
THEOREM SkippedStaysUntouched ==
  ASSUME Renewing PROVE Spec => []SkippedNeverTouched
<1>1. RenewalInv /\ ProviderInv => SkippedNeverTouched
  <2> SUFFICES ASSUME RenewalInv, ProviderInv, NEW i \in touched
               PROVE  /\ item[i].state # "pending"
                      /\ item[i].state = "skipped" => item[i].misread
    BY DEF SkippedNeverTouched
  <2>1. i \in Items /\ item[i].attempts > 0 BY DEF RenewalInv, CanaryInv
  <2>2. item[i].attempts # 0
    BY <2>1 DEF RenewalInv, Inductive, TypeOK, ItemType
  <2>3. QED BY <2>1, <2>2 DEF ProviderInv, Untouched
<1>2. QED BY <1>1, RenewalInductive, ProviderInductive, PTL

(* What the items say is what Stripe holds, though every call may fail after *)
(* Stripe acted on it and every write may come late (_apply_item,            *)
(* _cancel_item and the settlements that follow them), except what a         *)
(* cancellation settled from an outdated listing.                            *)
THEOREM OutcomesMatch ==
  ASSUME Renewing PROVE Spec => []OutcomeMatchesProvider
<1>1. RenewalInv /\ ProviderInv => OutcomeMatchesProvider
  <2> SUFFICES ASSUME RenewalInv, ProviderInv, NEW i \in Items
               PROVE  /\ item[i].state = "skipped" => provider[i] = "source" \/ item[i].misread
                      /\ item[i].state = "reverted"
                           => provider[i] \in {"source", "target"} \/ item[i].misread
                      /\ item[i].state = "applied" /\ job.state # "canceling"
                           => provider[i] \in {"scheduled", "renewed", "target"}
    BY DEF OutcomeMatchesProvider
  <2>1. item[i].state = "skipped" => provider[i] = "source" \/ item[i].misread
    BY DEF ProviderInv, Untouched
  <2>2. job.state = "canceled" => item[i].state # "applied"
    BY DEF RenewalInv, JobInv, JobSettled, ItemsIn, AppliedStates
  <2>3. QED BY <2>1, <2>2 DEF ProviderInv, ItemsMatch, Restored, Migrated
<1>2. QED BY <1>1, RenewalInductive, ProviderInductive, PTL

(* A canceled job leaves no schedule of its own that a reviewer is not told  *)
(* of (finalize_cancellation waits for every item), unless the item was      *)
(* settled from an outdated listing.                                         *)
THEOREM CancellationLeavesNoSchedule ==
  ASSUME Renewing PROVE Spec => []CanceledLeavesNoSchedule
<1>1. RenewalInv /\ ProviderInv => CanceledLeavesNoSchedule
  <2> SUFFICES ASSUME RenewalInv, ProviderInv, job.state = "canceled",
                      NEW i \in Items, Attached(provider[i]), ~item[i].misread
               PROVE  item[i].state = "needs_review"
    BY DEF CanceledLeavesNoSchedule
  <2>1. item[i].state \in {"reverted", "skipped", "needs_review"}
    BY DEF RenewalInv, JobInv, JobSettled, NoWebhooks, RenewalStates, ItemsIn, PendingStates,
           AppliedStates, ClosedJobStates
  <2>2. item[i].state # "skipped"
    BY DEF ProviderInv, Untouched, Attached
  <2>3. item[i].state # "reverted"
    BY DEF ProviderInv, ItemsMatch, Restored, Attached
  <2>4. QED BY <2>1, <2>2, <2>3
<1>2. QED BY <1>1, RenewalInductive, ProviderInductive, PTL
=============================================================================
