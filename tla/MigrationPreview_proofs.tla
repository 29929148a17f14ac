------------------------ MODULE MigrationPreview_proofs ------------------------
(***************************************************************************)
(* For any jobs, subscriptions, workers, pages and mishaps: the commitment *)
(* carried along is that of the stored items, a closed preview misses no   *)
(* subscription that was a candidate throughout, and what it promises to   *)
(* migrate it holds.                                                       *)
(*                                                                         *)
(* The inductive invariant, PreviewInv, has five parts.  TypeInv types the *)
(* records.  JobInv bounds a job's revision by its state and says that a   *)
(* job not yet created has no items.  CommitInv is the first property for  *)
(* jobs that go on.  FoundInv says that a preview is done with whatever is *)
(* before its cursor, and once closed with all.  WorkersInv says why: the  *)
(* revision a worker loaded is the job's or an older one, and while it is  *)
(* the job's, what the worker has left behind on its page is done with     *)
(* (Covered); and what it is about to bind or reject is stored.            *)
(*                                                                         *)
(* The lemmas follow that order: digests as bags, how one step may change  *)
(* what is stored (StoreAdvances) and what that leaves true of the other   *)
(* workers, then the actions, one each, and the theorems.                  *)
(***************************************************************************)
EXTENDS MigrationPreview, FiniteSetTheorems, WellFoundedInduction, TLAPS

-----------------------------------------------------------------------------
(* The inductive invariant *)

\* The commitments are to sets of items.
Aggregates == {SetToBag(S) : S \in SUBSET (Subscriptions \X Item)}
JobRecords ==
  [state : {"none", "previewing"} \cup Closed \cup Ended, revision : Nat,
   cursor : Subscriptions \cup {0}, aggregate : Aggregates, dryRun : Aggregates,
   pending : 0 .. Cardinality(Subscriptions)]
WorkerRecords ==
  [at : {"idle", "select", "read", "put", "bind", "reject", "send", "complete"},
   message : Message \cup {NoJob}, revision : Nat, page : SUBSET Subscriptions,
   next : Subscriptions \cup {0}, selected : Item \cup {NoItem}, seen : Aggregates,
   seenRevision : 0 .. MaxPages + 3]
StoreTypes ==
  /\ job \in [Jobs -> JobRecords]
  /\ item \in [Jobs -> [Subscriptions -> Item \cup {NoItem}]]
  /\ member \in [Jobs -> SUBSET Subscriptions]
  /\ active \in [Subscriptions -> Jobs \cup {NoJob}]
StripeTypes ==
  /\ listed \subseteq Subscriptions /\ snapshot \in [Subscriptions -> Snapshots]
  /\ mishaps \in 0 .. MaxMishaps /\ clock \in 1 .. mishaps + 1
  /\ steady \in [Jobs -> SUBSET listed]
TypeInv ==
  /\ StoreTypes /\ StripeTypes
  /\ queue \subseteq Message /\ worker \in [Workers -> WorkerRecords]

\* A job moves through its states with its revision; before it is created it has
\* no items, and an item rejected for its scope is for a reviewer.
JobInv ==
  \A j \in Jobs :
    /\ job[j].state = "none" =>
         /\ job[j].revision = 0 /\ job[j].cursor = 0
         /\ \A s \in Subscriptions : item[j][s] = NoItem
    /\ job[j].state = "previewing" => job[j].revision \in 1 .. MaxPages + 1
    /\ job[j].state = "awaiting_approval" => job[j].revision <= MaxPages + 2
    /\ job[j].revision <= MaxPages + 3
    /\ \A s \in Subscriptions :
         item[j][s] # NoItem /\ item[j][s].reason = "scope-mismatch" =>
           item[j][s].state # "pending"

\* The items as the commitment has them.
Pairs(f) == {<<s, f[s]>> : s \in {t \in Subscriptions : f[t] # NoItem}}
CommitInv ==
  \A j \in Jobs :
    /\ job[j].state \notin Ended => job[j].aggregate = SetToBag(Pairs(item[j]))
    /\ job[j].state \in Closed => job[j].dryRun = job[j].aggregate

\* A preview is done with a subscription that has an item and, if that is to be
\* migrated, is bound; it is with all before its cursor, and once closed with all.
Handled(j, s) == item[j][s] # NoItem /\ (item[j][s].state = "pending" => Bound(j, s))
FoundInv ==
  \A j \in Jobs, s \in Subscriptions :
    s \in steady[j] =>
      /\ job[j].state = "previewing" /\ s <= job[j].cursor => Handled(j, s)
      /\ job[j].state \in Closed => Handled(j, s)

\* So is a worker, unless its job moved on, with those up to the end of its page
\* that it has not left on it.
Covered(m) ==
  \A s \in Subscriptions :
    s \in steady[m.message.job] /\ (m.next = 0 \/ s <= m.next) /\ s \notin m.page =>
      Handled(m.message.job, s)
OnJob(m) ==
  /\ m.message \in Message /\ m.revision \in 1 .. MaxPages + 1
  /\ job[m.message.job].state # "none" /\ m.revision <= job[m.message.job].revision
  /\ m.next # 0 => m.revision < MaxPages
  /\ job[m.message.job].state = "previewing" /\ job[m.message.job].revision = m.revision =>
       Covered(m)
AtStep(m) ==
  /\ m.at \in {"read", "put", "bind", "reject"} =>
       /\ m.page # {} /\ m.selected \in Item
       /\ m.selected.state \in {"pending", "needs_review"}
       /\ m.selected.reason # "scope-mismatch"
  /\ m.at \in {"bind", "reject"} => item[m.message.job][Min(m.page)] # NoItem
  /\ m.at \in {"send", "complete"} => m.page = {}
  /\ m.at = "complete" => m.next = 0
WorkerFits(m) == m.at # "idle" => OnJob(m) /\ AtStep(m)
WorkersInv == \A w \in Workers : WorkerFits(worker[w])

PreviewInv == TypeInv /\ JobInv /\ CommitInv /\ FoundInv /\ WorkersInv

-----------------------------------------------------------------------------
(* Commitments *)

LEMMA BagOfSet ==
  ASSUME NEW S
  PROVE  /\ IsABag(SetToBag(S)) /\ BagToSet(SetToBag(S)) = S
BY DEF IsABag, SetToBag, BagToSet

LEMMA BagAdds ==
  ASSUME NEW S, NEW x, x \notin S
  PROVE  SetToBag(S) (+) SetToBag({x}) = SetToBag(S \cup {x})
BY DEF SetToBag, (+)

LEMMA BagRemoves ==
  ASSUME NEW S, NEW x \in S
  PROVE  SetToBag(S) (-) SetToBag({x}) = SetToBag(S \ {x})
BY DEF SetToBag, (-)

LEMMA PairsTyped ==
  ASSUME NEW f \in [Subscriptions -> Item \cup {NoItem}]
  PROVE  Pairs(f) \subseteq Subscriptions \X Item
BY DEF Pairs

LEMMA PairsOfNone ==
  ASSUME NEW f, \A s \in Subscriptions : f[s] = NoItem
  PROVE  SetToBag(Pairs(f)) = EmptyBag
<1>1. Pairs(f) = {} BY DEF Pairs
<1>2. QED BY <1>1 DEF EmptyBag

\* An item that is stored, and one that replaces another.
LEMMA PairsAdded ==
  ASSUME NEW f \in [Subscriptions -> Item \cup {NoItem}], NEW s \in Subscriptions,
         NEW i \in Item, f[s] = NoItem
  PROVE  /\ Pairs([f EXCEPT ![s] = i]) = Pairs(f) \cup {<<s, i>>}
         /\ <<s, i>> \notin Pairs(f)
BY ItemAssumption DEF Pairs

LEMMA PairsReplaced ==
  ASSUME NEW f \in [Subscriptions -> Item \cup {NoItem}], NEW s \in Subscriptions,
         NEW i \in Item, f[s] # NoItem
  PROVE  /\ Pairs([f EXCEPT ![s] = i]) = (Pairs(f) \ {<<s, f[s]>>}) \cup {<<s, i>>}
         /\ <<s, f[s]>> \in Pairs(f)
         /\ <<s, i>> \notin Pairs(f) \ {<<s, f[s]>>}
BY ItemAssumption DEF Pairs

\* A commitment holds each subscription once, so no more than all are pending.
LEMMA PendingBounded ==
  ASSUME NEW f \in [Subscriptions -> Item \cup {NoItem}]
  PROVE  PendingIn(SetToBag(Pairs(f))) \in 0 .. Cardinality(Subscriptions)
<1> DEFINE P == {c \in Pairs(f) : c[2].state = "pending"}
           first == [c \in P |-> c[1]]
<1>1. first \in Injection(P, Subscriptions)
  <2>1. first \in [P -> Subscriptions] BY DEF Pairs
  <2>2. ASSUME NEW c \in P, NEW d \in P, c[1] = d[1] PROVE c = d
    BY <2>2 DEF Pairs
  <2>3. \A c, d \in P : first[c] = first[d] => c = d BY <2>2
  <2> HIDE DEF P, first
  <2>4. QED BY <2>1, <2>3 DEF Injection, IsInjective
<1>2. /\ IsFiniteSet(P) /\ Cardinality(P) <= Cardinality(Subscriptions)
  BY <1>1, FS_Injection, PreviewAssumption
<1>3. Cardinality(P) \in Nat /\ Cardinality(Subscriptions) \in Nat
  BY <1>2, FS_CardinalityType, PreviewAssumption
<1>4. PendingIn(SetToBag(Pairs(f))) = Cardinality(P)
  BY BagOfSet DEF PendingIn
<1>5. QED BY <1>2, <1>3, <1>4

-----------------------------------------------------------------------------
(* Pages *)

\* Of finite sets one includes no other.
LEMMA LeastSet ==
  ASSUME NEW S, NEW T \in SUBSET FiniteSubsetsOf(S), T # {}
  PROVE  \E x \in T : \A y \in T : y \subseteq x => y = x
<1>1. \E x \in T : \A y \in T : ~(<<y, x>> \in StrictSubsetOrdering(S))
  BY FS_StrictSubsetOrderingWellFounded, WFMin, Zenon
<1>2. PICK x \in T : \A y \in T : ~(<<y, x>> \in StrictSubsetOrdering(S)) BY <1>1
<1>3. \A y \in T : y \subseteq x => y = x
  BY <1>2 DEF StrictSubsetOrdering, FiniteSubsetsOf
<1>4. QED BY <1>3

LEMMA SmallestOf ==
  ASSUME NEW S \in SUBSET Nat, S # {}
  PROVE  Min(S) \in S /\ \A y \in S : Min(S) <= y
<1> DEFINE T == {0 .. x : x \in S}
<1>1. T \in SUBSET FiniteSubsetsOf(Nat) /\ T # {}
  <2>1. \A x \in S : 0 .. x \in SUBSET Nat /\ IsFiniteSet(0 .. x) BY FS_Interval
  <2>2. QED BY <2>1 DEF FiniteSubsetsOf
<1>2. PICK t \in T : \A u \in T : u \subseteq t => u = t
  <2> HIDE DEF T
  <2>1. QED BY <1>1, LeastSet
<1>3. PICK x \in S : t = 0 .. x OBVIOUS
<1>4. ASSUME NEW y \in S PROVE x <= y
  <2>1. x \in Nat /\ y \in Nat OBVIOUS
  <2>2. CASE y <= x
    <3>1. 0 .. y \subseteq 0 .. x BY <2>1, <2>2
    <3>2. 0 .. y = 0 .. x BY <1>2, <1>3, <3>1
    <3>3. x \in 0 .. y BY <2>1, <3>2
    <3>4. QED BY <3>3
  <2>3. QED BY <2>1, <2>2
<1>5. QED BY <1>4 DEF Min

\* A finite set's greatest is the one with the fewest beyond it.
LEMMA GreatestOf ==
  ASSUME NEW S \in SUBSET Nat, S # {}, IsFiniteSet(S)
  PROVE  Max(S) \in S /\ \A y \in S : Max(S) >= y
<1> DEFINE Beyond(x) == {y \in S : y > x}
           T == {Beyond(x) : x \in S}
<1>1. T \in SUBSET FiniteSubsetsOf(S) /\ T # {}
  <2>1. \A x \in S : Beyond(x) \in SUBSET S /\ IsFiniteSet(Beyond(x)) BY FS_Subset
  <2> HIDE DEF Beyond
  <2>2. QED BY <2>1 DEF FiniteSubsetsOf
<1>2. PICK t \in T : \A u \in T : u \subseteq t => u = t
  <2> HIDE DEF T
  <2>1. QED BY <1>1, LeastSet
<1>3. PICK x \in S : t = Beyond(x) OBVIOUS
<1>4. ASSUME NEW y \in S PROVE x >= y
  <2>1. x \in Nat /\ y \in Nat OBVIOUS
  <2>2. CASE y > x
    <3>1. Beyond(y) \subseteq Beyond(x)
      <4>1. \A z \in S : z \in Nat /\ (z > y => z > x) BY <2>1, <2>2
      <4>2. QED BY <4>1
    <3>2. Beyond(y) = Beyond(x) BY <1>2, <1>3, <3>1
    <3>3. y \in Beyond(x) BY <2>2
    <3>4. y > y BY <3>2, <3>3
    <3>5. QED BY <2>1, <3>4
  <2>3. QED BY <2>1, <2>2
<1>5. QED BY <1>4 DEF Max

\* A page is the first of the listing, up to where it ends.
LEMMA PageShape ==
  ASSUME TypeInv, NEW j \in Jobs
  PROVE  /\ Page(j) \subseteq After(j) /\ After(j) \subseteq Subscriptions
         /\ More(j) => /\ Max(Page(j)) \in Subscriptions
                       /\ \A s \in After(j) : s <= Max(Page(j)) => s \in Page(j)
<1> DEFINE Before(s) == {t \in After(j) : t < s}
<1>1. After(j) \subseteq Subscriptions /\ Page(j) \subseteq After(j)
  BY DEF TypeInv, StripeTypes, After, Page
<1>2. /\ IsFiniteSet(After(j)) /\ IsFiniteSet(Page(j))
      /\ After(j) \in SUBSET Nat /\ Page(j) \in SUBSET Nat
  BY <1>1, FS_Subset, PreviewAssumption
<1>3. \A s : IsFiniteSet(Before(s)) /\ Cardinality(Before(s)) \in Nat
  BY <1>2, FS_Subset, FS_CardinalityType
<1>4. ASSUME More(j) PROVE Page(j) # {}
  <2>1. After(j) # {} BY <1>1, <1>4 DEF More
  <2>2. PICK s \in After(j) : \A t \in After(j) : s <= t
    BY <1>2, <2>1, SmallestOf
  <2>3. Before(s) = {} BY <1>2, <2>2
  <2>4. Cardinality(Before(s)) < PageSize
    <3>1. Cardinality(Before(s)) = 0 BY <2>3, FS_EmptySet
    <3> HIDE DEF Before
    <3>2. QED BY <3>1, PreviewAssumption
  <2>5. QED BY <2>4 DEF Page
<1>5. ASSUME More(j), NEW s \in After(j), s <= Max(Page(j)) PROVE s \in Page(j)
  <2>1. PICK p \in Page(j) : p = Max(Page(j)) BY <1>2, <1>4, <1>5, GreatestOf
  <2>2. p \in Nat /\ s \in Nat /\ s <= p BY <1>2, <1>5, <2>1
  <2>3. Before(s) \in SUBSET Before(p) BY <1>2, <2>2
  <2>4. Cardinality(Before(s)) <= Cardinality(Before(p)) BY <1>3, <2>3, FS_Subset
  <2>5. Cardinality(Before(p)) < PageSize BY DEF Page
  <2>6. QED BY <1>3, <2>4, <2>5, PreviewAssumption DEF Page
<1>6. QED
  <2>1. ASSUME More(j) PROVE Max(Page(j)) \in Subscriptions
    BY <1>1, <1>2, <1>4, <2>1, GreatestOf
  <2>2. QED BY <1>1, <1>5, <2>1

-----------------------------------------------------------------------------
(* What a step leaves to the others *)

\* A job's preview ends once and its revision only grows, its items stay, and
\* what it is done with stays so until it ends.
StoreAdvances ==
  \A j \in Jobs :
    job[j].state # "none" =>
      /\ job'[j].state # "none" /\ job'[j].revision >= job[j].revision
      /\ job'[j].state = "previewing" => job[j].state = "previewing"
      /\ steady'[j] \subseteq steady[j]
      /\ \A s \in Subscriptions :
           /\ item[j][s] # NoItem => item'[j][s] # NoItem
           /\ job'[j].state \notin Ended /\ Handled(j, s) => Handled(j, s)'

\* Nor is a job created, its cursor moved, or its preview closed.
StoreSteady ==
  /\ StoreAdvances
  /\ \A j \in Jobs :
       /\ job[j].state = "none" => job'[j].state = "none"
       /\ job'[j].state = "previewing" => job'[j].cursor = job[j].cursor
       /\ job'[j].state \in Closed => job[j].state \in Closed

LEMMA FoundOn ==
  ASSUME PreviewInv, StoreSteady
  PROVE  FoundInv'
<1> SUFFICES ASSUME NEW j \in Jobs, NEW s \in Subscriptions, s \in steady'[j]
             PROVE  /\ job'[j].state = "previewing" /\ s <= job'[j].cursor => Handled(j, s)'
                    /\ job'[j].state \in Closed => Handled(j, s)'
  BY DEF FoundInv
<1>1. CASE job'[j].state = "previewing" /\ s <= job'[j].cursor
  <2>1. /\ job[j].state = "previewing" /\ s <= job[j].cursor /\ s \in steady[j]
    BY <1>1 DEF StoreSteady, StoreAdvances
  <2>2. Handled(j, s) BY <2>1 DEF PreviewInv, FoundInv
  <2>3. Handled(j, s)' BY <1>1, <2>1, <2>2 DEF StoreSteady, StoreAdvances, Ended
  <2>4. QED BY <1>1, <2>3 DEF Closed
<1>2. CASE job'[j].state \in Closed
  <2>1. /\ job[j].state \in Closed /\ job[j].state # "none" /\ s \in steady[j]
    BY <1>2 DEF StoreSteady, StoreAdvances, Closed
  <2>2. Handled(j, s) BY <2>1 DEF PreviewInv, FoundInv
  <2>3. Handled(j, s)' BY <1>2, <2>1, <2>2 DEF StoreSteady, StoreAdvances, Ended, Closed
  <2>4. QED BY <1>2, <2>3 DEF Closed
<1>3. QED BY <1>1, <1>2

LEMMA SubjectTyped ==
  ASSUME NEW m \in WorkerRecords, m.page # {}
  PROVE  Min(m.page) \in m.page /\ Min(m.page) \in Subscriptions
<1>1. m.page \in SUBSET Nat /\ m.page \subseteq Subscriptions
  BY PreviewAssumption DEF WorkerRecords
<1>2. QED BY <1>1, SmallestOf

\* So what a worker holds still fits after a step of another.
LEMMA FitsOn ==
  ASSUME TypeInv, StoreAdvances, TypeInv', NEW m \in WorkerRecords, WorkerFits(m)
  PROVE  WorkerFits(m)'
<1> SUFFICES ASSUME m.at # "idle" PROVE OnJob(m)' /\ AtStep(m)'
  BY DEF WorkerFits
<1>1. OnJob(m) /\ AtStep(m) BY DEF WorkerFits
<1>2. PICK j \in Jobs : j = m.message.job BY <1>1 DEF OnJob, Message
<1>3. /\ job[j].state # "none" /\ m.revision \in Nat /\ m.revision <= job[j].revision
  BY <1>1, <1>2 DEF OnJob
<1>4. /\ job[j].revision \in Nat /\ job'[j].revision \in Nat
  BY DEF TypeInv, StoreTypes, JobRecords
<1>5. /\ job'[j].state # "none" /\ m.revision <= job'[j].revision
      /\ job'[j].state = "previewing" /\ job'[j].revision = m.revision =>
           job[j].state = "previewing" /\ job[j].revision = m.revision
  BY <1>3, <1>4 DEF StoreAdvances
<1>6. ASSUME job'[j].state = "previewing", job'[j].revision = m.revision
      PROVE  Covered(m)'
  <2>1. Covered(m) BY <1>1, <1>2, <1>5, <1>6 DEF OnJob
  <2>2. \A s \in Subscriptions :
          /\ s \in steady'[j] => s \in steady[j]
          /\ Handled(j, s) => Handled(j, s)'
    BY <1>3, <1>6 DEF StoreAdvances, Ended
  <2>3. QED BY <1>2, <2>1, <2>2 DEF Covered
<1>7. OnJob(m)' BY <1>1, <1>2, <1>5, <1>6 DEF OnJob
<1>8. m.at \in {"bind", "reject"} => item'[j][Min(m.page)] # NoItem
  <2> SUFFICES ASSUME m.at \in {"bind", "reject"} PROVE item'[j][Min(m.page)] # NoItem
    OBVIOUS
  <2>1. Min(m.page) \in Subscriptions BY <1>1, SubjectTyped DEF AtStep
  <2>2. item[j][Min(m.page)] # NoItem BY <1>1, <1>2 DEF AtStep
  <2>3. QED BY <1>3, <2>1, <2>2 DEF StoreAdvances
<1>9. QED BY <1>1, <1>2, <1>7, <1>8 DEF AtStep

Moves(w, m) == worker' = [worker EXCEPT ![w] = m]

LEMMA WorkersOn ==
  ASSUME PreviewInv, StoreAdvances, TypeInv', worker' = worker
  PROVE  WorkersInv'
<1> SUFFICES ASSUME NEW w \in Workers PROVE WorkerFits(worker[w])'
  BY DEF WorkersInv
<1>1. PICK m \in WorkerRecords : m = worker[w]
  BY DEF PreviewInv, TypeInv
<1>2. WorkerFits(m) BY <1>1 DEF PreviewInv, WorkersInv
<1>3. WorkerFits(m)' BY <1>2, FitsOn DEF PreviewInv
<1>4. QED BY <1>1, <1>3

LEMMA WorkerMoves ==
  ASSUME PreviewInv, StoreAdvances, TypeInv', NEW w \in Workers, NEW m \in WorkerRecords,
         Moves(w, m), WorkerFits(m)'
  PROVE  WorkersInv'
<1> SUFFICES ASSUME NEW v \in Workers PROVE WorkerFits(worker[v])'
  BY DEF WorkersInv
<1>0. worker' = [worker EXCEPT ![w] = m] /\ DOMAIN worker = Workers
  BY DEF Moves, PreviewInv, TypeInv
<1>1. CASE v = w
  <2>1. worker'[v] = m BY <1>0, <1>1
  <2>2. QED BY <2>1
<1>2. CASE v # w
  <2>1. PICK n \in WorkerRecords : n = worker[v]
    BY DEF PreviewInv, TypeInv
  <2>2. WorkerFits(n) BY <2>1 DEF PreviewInv, WorkersInv
  <2>3. WorkerFits(n)' BY <2>2, FitsOn DEF PreviewInv
  <2>4. worker'[v] = n BY <1>0, <1>2, <2>1
  <2>5. QED BY <2>3, <2>4
<1>3. QED BY <1>1, <1>2

\* A step that leaves the stored records, and what was listed, as they are.
LEMMA StoreKept ==
  ASSUME PreviewInv, UNCHANGED stored, \A j \in Jobs : steady'[j] \subseteq steady[j]
  PROVE  JobInv' /\ CommitInv' /\ FoundInv' /\ StoreSteady
<1>1. job' = job /\ item' = item /\ member' = member /\ active' = active BY DEF stored
<1>2. \A j \in Jobs, s \in Subscriptions : Handled(j, s) => Handled(j, s)'
  BY <1>1 DEF Handled, Bound
<1>3. \A j \in Jobs : job[j].revision \in Nat BY DEF PreviewInv, TypeInv, StoreTypes, JobRecords
<1>4. StoreSteady BY <1>1, <1>2, <1>3 DEF StoreSteady, StoreAdvances
<1>5. JobInv' BY <1>1 DEF PreviewInv, JobInv
<1>6. CommitInv' BY <1>1 DEF PreviewInv, CommitInv
<1>7. QED BY <1>4, <1>5, <1>6, FoundOn

\* A step of an invocation that writes nothing.
LEMMA WorkerOnly ==
  ASSUME PreviewInv, UNCHANGED <<stored, provider>>, queue' \subseteq Message,
         NEW w \in Workers, NEW m \in WorkerRecords, Moves(w, m), WorkerFits(m)
  PROVE  PreviewInv'
<1>1. job' = job /\ item' = item /\ member' = member /\ active' = active
      /\ listed' = listed /\ snapshot' = snapshot /\ clock' = clock
      /\ mishaps' = mishaps /\ steady' = steady
  BY DEF stored, provider
<1>2. TypeInv'
  <2>1. StoreTypes' /\ StripeTypes' BY <1>1 DEF PreviewInv, TypeInv, StoreTypes, StripeTypes
  <2>2. worker' \in [Workers -> WorkerRecords] BY DEF Moves, PreviewInv, TypeInv
  <2>3. QED BY <2>1, <2>2 DEF TypeInv
<1>3. JobInv' /\ CommitInv' /\ FoundInv' /\ StoreSteady
  BY <1>1, StoreKept
<1>4. WorkerFits(m)' BY <1>2, <1>3, FitsOn DEF PreviewInv, StoreSteady
<1>5. QED BY <1>2, <1>3, <1>4, WorkerMoves DEF PreviewInv, StoreSteady

-----------------------------------------------------------------------------
(* How a worker moves *)

LEMMA WorkerRead ==
  ASSUME PreviewInv, NEW w \in Workers
  PROVE  /\ worker[w] \in WorkerRecords /\ WorkerFits(worker[w])
         /\ DOMAIN worker = Workers
         /\ worker[w].at # "idle" =>
              /\ OnJob(worker[w]) /\ AtStep(worker[w])
              /\ worker[w].message \in Message /\ Mine(w) \in Jobs
         /\ worker[w].page # {} => Subject(w) \in worker[w].page /\ Subject(w) \in Subscriptions
<1>1. worker[w] \in WorkerRecords /\ WorkerFits(worker[w]) /\ DOMAIN worker = Workers
  BY DEF PreviewInv, TypeInv, WorkersInv
<1>2. worker[w].at # "idle" => OnJob(worker[w]) /\ AtStep(worker[w])
  BY <1>1 DEF WorkerFits
<1>3. worker[w].message \in Message => Mine(w) \in Jobs
  BY DEF Message, Mine
<1>4. worker[w].page # {} => Subject(w) \in worker[w].page /\ Subject(w) \in Subscriptions
  <2>1. PICK m \in WorkerRecords : m = worker[w] BY <1>1
  <2>2. QED BY <2>1, SubjectTyped DEF Subject
<1>5. QED BY <1>1, <1>2, <1>3, <1>4 DEF OnJob

LEMMA EmptyCommitted == EmptyBag \in Aggregates
  BY DEF EmptyBag, Aggregates

LEMMA IdleFits == Idle \in WorkerRecords /\ WorkerFits(Idle)
<1>1. Idle \in WorkerRecords
  BY EmptyCommitted, PreviewAssumption DEF Idle, WorkerRecords
<1>2. QED BY <1>1 DEF WorkerFits, Idle

StepTyped == StoreTypes' /\ StripeTypes' /\ queue' \subseteq Message

\* A worker's record after the step, which fits the records of before.
LEMMA WorkerSteps ==
  ASSUME PreviewInv, StoreAdvances, StepTyped, NEW w \in Workers, NEW m \in WorkerRecords,
         Moves(w, m), TypeInv' => WorkerFits(m)'
  PROVE  TypeInv' /\ WorkersInv'
<1>1. worker' \in [Workers -> WorkerRecords] BY DEF Moves, PreviewInv, TypeInv
<1>2. TypeInv' BY <1>1 DEF TypeInv, StepTyped
<1>3. QED BY <1>2, WorkerMoves

LEMMA Fails ==
  ASSUME PreviewInv, StoreAdvances, StepTyped, NEW w \in Workers, Fail(w)
  PROVE  TypeInv' /\ WorkersInv'
<1>1. PICK m \in WorkerRecords : m = Idle /\ WorkerFits(m) BY IdleFits
<1>2. Moves(w, m) BY <1>1 DEF Moves, Fail
<1>3. TypeInv' => WorkerFits(m)' BY <1>1, FitsOn DEF PreviewInv
<1>4. QED BY <1>2, <1>3, WorkerSteps

\* A worker is done with the subscription at the head of its page.
LEMMA PageLeft ==
  ASSUME PreviewInv, StoreAdvances, StepTyped, NEW w \in Workers, NextInPage(w),
         worker[w].at \in {"read", "put", "bind", "reject"},
         NEW j, j = Mine(w), NEW s, s = Subject(w), Handled(j, s)'
  PROVE  TypeInv' /\ WorkersInv'
<1>1. PICK v \in WorkerRecords : v = worker[w] BY WorkerRead
<1>2. /\ WorkerFits(v) /\ v.page # {} /\ s = Min(v.page) /\ j = v.message.job
      /\ v.at # "idle" /\ s \in v.page
  BY <1>1, WorkerRead DEF AtStep, Subject, Mine
<1>3. PICK m : m = [v EXCEPT !.page = @ \ {s}, !.selected = NoItem, !.seen = EmptyBag,
                             !.seenRevision = 0, !.at = "select"]
  OBVIOUS
<1>4. /\ m \in WorkerRecords /\ m.at = "select" /\ m.message = v.message
      /\ m.revision = v.revision /\ m.next = v.next /\ m.page = v.page \ {s}
  <2>1. 0 \in 0 .. MaxPages + 3 /\ v.page \ {s} \in SUBSET Subscriptions
    BY PreviewAssumption DEF WorkerRecords
  <2>2. PICK page, seen : page = v.page \ {s} /\ seen = EmptyBag /\ seen \in Aggregates
    BY EmptyCommitted
  <2>3. m = [v EXCEPT !.page = page, !.selected = NoItem, !.seen = seen,
                      !.seenRevision = 0, !.at = "select"]
    BY <1>3, <2>2
  <2>4. QED BY <2>1, <2>2, <2>3 DEF WorkerRecords
<1>5. Moves(w, m)
  <2>1. worker' = [worker EXCEPT ![w] =
           [v EXCEPT !.page = @ \ {s}, !.selected = NoItem, !.seen = EmptyBag,
                     !.seenRevision = 0, !.at = "select"]]
    BY <1>1, <1>2, WorkerRead DEF NextInPage
  <2>2. QED BY <1>3, <2>1 DEF Moves
<1>6. ASSUME TypeInv' PROVE WorkerFits(m)'
  <2>1. OnJob(v)'
    BY <1>2, <1>6, FitsOn DEF PreviewInv, WorkerFits
  <2>2. Covered(v)' => Covered(m)'
    BY <1>2, <1>4 DEF Covered
  <2>3. OnJob(m)' BY <1>4, <2>1, <2>2 DEF OnJob
  <2>4. AtStep(m)' BY <1>4 DEF AtStep
  <2>5. QED BY <2>3, <2>4 DEF WorkerFits
<1>7. QED BY <1>4, <1>5, <1>6, WorkerSteps

\* A worker goes on with it, once it has an item.
LEMMA GoesOn ==
  ASSUME PreviewInv, StoreAdvances, StepTyped, NEW w \in Workers,
         NEW step \in {"bind", "reject"}, Go(w, step),
         worker[w].at \in {"read", "put", "bind"},
         NEW j, j = Mine(w), NEW s, s = Subject(w), item'[j][s] # NoItem
  PROVE  TypeInv' /\ WorkersInv'
<1>1. PICK v \in WorkerRecords : v = worker[w] BY WorkerRead
<1>2. /\ WorkerFits(v) /\ s = Min(v.page) /\ j = v.message.job
      /\ v.at # "idle" /\ AtStep(v)
  BY <1>1, WorkerRead DEF Subject, Mine
<1>3. PICK m : m = [v EXCEPT !.at = step]
  OBVIOUS
<1>4. /\ m \in WorkerRecords /\ m.at = step /\ m.message = v.message
      /\ m.revision = v.revision /\ m.next = v.next /\ m.page = v.page
      /\ m.selected = v.selected
  BY <1>3 DEF WorkerRecords
<1>5. Moves(w, m)
  BY <1>1, <1>3, WorkerRead DEF Moves, Go
<1>6. ASSUME TypeInv' PROVE WorkerFits(m)'
  <2>1. OnJob(v)'
    BY <1>2, <1>6, FitsOn DEF PreviewInv, WorkerFits
  <2>2. OnJob(m)' BY <1>4, <2>1 DEF OnJob, Covered
  <2>3. v.at \in {"read", "put", "bind", "reject"} /\ step \in {"bind", "reject"}
    BY <1>1
  <2>4. AtStep(m)' BY <1>2, <1>4, <2>3 DEF AtStep
  <2>5. QED BY <2>2, <2>4 DEF WorkerFits
<1>7. QED BY <1>4, <1>5, <1>6, WorkerSteps

\* After an item is stored, a pending one is bound.
LEMMA GoesOnOrLeaves ==
  ASSUME PreviewInv, StoreAdvances, StepTyped, NEW w \in Workers, Persisted(w),
         worker[w].at \in {"read", "put"},
         NEW j, j = Mine(w), NEW s, s = Subject(w), item'[j][s] = worker[w].selected
  PROVE  TypeInv' /\ WorkersInv'
<1>1. item'[j][s] \in Item /\ item'[j][s] # NoItem
  BY WorkerRead, ItemAssumption DEF AtStep
<1>2. CASE worker[w].selected.state = "pending"
  <2>1. Go(w, "bind") BY <1>2 DEF Persisted
  <2>2. QED BY <1>1, <2>1, GoesOn
<1>3. CASE worker[w].selected.state # "pending"
  <2>1. NextInPage(w) BY <1>3 DEF Persisted
  <2>2. Handled(j, s)' BY <1>1, <1>3 DEF Handled
  <2>3. QED BY <2>1, <2>2, PageLeft
<1>4. QED BY <1>2, <1>3

\* The step of an invocation, from what it writes.
LEMMA StoreSteps ==
  ASSUME PreviewInv, StoreSteady, JobInv', CommitInv', TypeInv' /\ WorkersInv'
  PROVE  PreviewInv'
BY FoundOn DEF PreviewInv

-----------------------------------------------------------------------------
(* The operator, and Stripe *)

LEMMA JobRead ==
  ASSUME PreviewInv, NEW j \in Jobs
  PROVE  /\ DOMAIN job = Jobs /\ job[j] \in JobRecords
         /\ job[j].revision \in Nat /\ job[j].revision <= MaxPages + 3
         /\ item[j] \in [Subscriptions -> Item \cup {NoItem}] /\ DOMAIN item = Jobs
BY DEF PreviewInv, TypeInv, StoreTypes, JobInv, JobRecords

LEMMA CreateKeeps ==
  ASSUME PreviewInv, NEW j \in Jobs, Create(j)
  PROVE  PreviewInv'
<1>1. PICK r : r = [job[j] EXCEPT !.state = "previewing", !.revision = 1] OBVIOUS
<1>2. /\ r \in JobRecords /\ r.state = "previewing" /\ r.revision = 1
      /\ r.cursor = job[j].cursor /\ r.aggregate = job[j].aggregate
  BY <1>1, JobRead DEF JobRecords
<1>3. /\ job' = [job EXCEPT ![j] = r] /\ job[j].state = "none" /\ worker' = worker
      /\ item' = item /\ member' = member /\ active' = active
      /\ queue' = queue \cup {[job |-> j, revision |-> 1]}
      /\ steady' = [steady EXCEPT ![j] = listed] /\ listed' = listed
      /\ snapshot' = snapshot /\ clock' = clock /\ mishaps' = mishaps
  BY <1>1 DEF Create
<1>4. /\ job'[j] = r /\ \A k \in Jobs : k # j => job'[k] = job[k] /\ steady'[k] = steady[k]
  BY <1>3, JobRead DEF PreviewInv, TypeInv, StripeTypes
<1>5. TypeInv'
  <2>1. StoreTypes' BY <1>2, <1>3 DEF PreviewInv, TypeInv, StoreTypes
  <2>2. StripeTypes' BY <1>3 DEF PreviewInv, TypeInv, StripeTypes
  <2>3. [job |-> j, revision |-> 1] \in Message BY PreviewAssumption DEF Message
  <2>4. QED BY <1>3, <2>1, <2>2, <2>3 DEF PreviewInv, TypeInv
<1>6. \A k \in Jobs, s \in Subscriptions : Handled(k, s)' <=> Handled(k, s)
  BY <1>3 DEF Handled, Bound
<1>7. StoreAdvances
  BY <1>3, <1>4, <1>6, JobRead DEF StoreAdvances
<1>8. JobInv'
  BY <1>2, <1>3, <1>4, PreviewAssumption DEF PreviewInv, JobInv
<1>9. CommitInv'
  BY <1>2, <1>3, <1>4 DEF PreviewInv, CommitInv, Closed, Ended
<1>10. FoundInv'
  <2>1. job[j].cursor = 0 BY <1>3 DEF PreviewInv, JobInv
  <2>2. \A s \in Subscriptions : ~(s <= 0) BY PreviewAssumption
  <2>3. QED BY <1>2, <1>4, <1>6, <2>1, <2>2 DEF PreviewInv, FoundInv, Closed
<1>11. WorkersInv' BY <1>3, <1>5, <1>7, WorkersOn
<1>12. QED BY <1>5, <1>8, <1>9, <1>10, <1>11 DEF PreviewInv

\* Approve and Cancel: the job takes another state.
LEMMA StateKeeps ==
  ASSUME PreviewInv, NEW j \in Jobs, NEW to,
         \/ job[j].state = "awaiting_approval" /\ to = "running"
         \/ job[j].state \in {"previewing", "awaiting_approval"} /\ to = "canceled",
         job' = [job EXCEPT ![j].state = to, ![j].revision = @ + 1],
         UNCHANGED <<item, member, active, queue, worker, provider>>
  PROVE  PreviewInv'
<1>1. PICK r : r = [job[j] EXCEPT !.state = to, !.revision = @ + 1] OBVIOUS
<1>2. /\ r \in JobRecords /\ r.state = to /\ r.revision = job[j].revision + 1
      /\ r.cursor = job[j].cursor /\ r.aggregate = job[j].aggregate
      /\ r.dryRun = job[j].dryRun
  BY <1>1, JobRead DEF JobRecords, Closed, Ended
<1>3. /\ job' = [job EXCEPT ![j] = r] /\ worker' = worker
      /\ item' = item /\ member' = member /\ active' = active /\ queue' = queue
      /\ steady' = steady /\ listed' = listed
      /\ snapshot' = snapshot /\ clock' = clock /\ mishaps' = mishaps
  BY <1>1 DEF provider
<1>4. /\ job'[j] = r /\ \A k \in Jobs : k # j => job'[k] = job[k]
  BY <1>3, JobRead
<1>5. TypeInv'
  <2>1. StoreTypes' BY <1>2, <1>3 DEF PreviewInv, TypeInv, StoreTypes
  <2>2. StripeTypes' BY <1>3 DEF PreviewInv, TypeInv, StripeTypes
  <2>3. QED BY <1>3, <2>1, <2>2 DEF PreviewInv, TypeInv
<1>6. \A k \in Jobs, s \in Subscriptions : Handled(k, s)' <=> Handled(k, s)
  BY <1>3 DEF Handled, Bound
<1>7. StoreSteady
  BY <1>2, <1>3, <1>4, <1>6, JobRead DEF StoreSteady, StoreAdvances, Closed, Ended
<1>8. JobInv'
  <2>1. r.revision \in Nat /\ r.revision <= MaxPages + 3
    BY <1>2, JobRead, PreviewAssumption DEF PreviewInv, JobInv
  <2>2. r.state \notin {"none", "previewing", "awaiting_approval"}
    BY <1>2
  <2>3. JobInv BY DEF PreviewInv
  <2>4. item' = item BY <1>3
  <2>5. \A k \in Jobs : /\ k # j => job'[k] = job[k]
                        /\ k = j => /\ job'[k].revision <= MaxPages + 3
                                    /\ job'[k].state \notin {"none", "previewing", "awaiting_approval"}
    BY <1>4, <2>1, <2>2
  <2>6. QED BY ONLY <2>3, <2>4, <2>5 DEF JobInv
<1>9. CommitInv'
  BY <1>2, <1>3, <1>4 DEF PreviewInv, CommitInv, Closed, Ended
<1>10. WorkersInv' BY <1>3, <1>5, <1>7, WorkersOn DEF StoreSteady
<1>11. QED BY <1>5, <1>7, <1>8, <1>9, <1>10, StoreSteps

LEMMA EndKeeps ==
  ASSUME PreviewInv, NEW j \in Jobs, End(j)
  PROVE  PreviewInv'
<1>1. PICK r : r = [job[j] EXCEPT !.state = "completed", !.pending = 0] OBVIOUS
<1>2. /\ r \in JobRecords /\ r.state = "completed" /\ r.revision = job[j].revision
  <2>1. 0 \in 0 .. Cardinality(Subscriptions)
    BY FS_CardinalityType, PreviewAssumption
  <2>2. QED BY <1>1, <2>1, JobRead DEF JobRecords, Closed, Ended
<1>3. PICK f : f = [s \in Subscriptions |->
                      IF item[j][s] # NoItem /\ item[j][s].state = "pending"
                      THEN [item[j][s] EXCEPT !.state = "settled"] ELSE item[j][s]]
  OBVIOUS
<1>4. /\ job' = [job EXCEPT ![j] = r] /\ job[j].state = "running" /\ worker' = worker
      /\ item' = [item EXCEPT ![j] = f] /\ member' = member /\ active' = active
      /\ queue' = queue /\ steady' = steady /\ listed' = listed
      /\ snapshot' = snapshot /\ clock' = clock /\ mishaps' = mishaps
  BY <1>1, <1>3, JobRead DEF End, provider
<1>5. /\ job'[j] = r /\ item'[j] = f
      /\ \A k \in Jobs : k # j => job'[k] = job[k] /\ item'[k] = item[k]
  BY <1>4, JobRead
<1>6. \A s \in Subscriptions :
        /\ f[s] \in Item \cup {NoItem}
        /\ item[j][s] # NoItem => f[s] # NoItem
        /\ f[s] # NoItem => item[j][s] # NoItem /\ f[s].reason = item[j][s].reason
        /\ f[s] # NoItem => f[s].state = item[j][s].state \/ f[s].state = "settled"
  <2> SUFFICES ASSUME NEW s \in Subscriptions
               PROVE  /\ f[s] \in Item \cup {NoItem}
                      /\ item[j][s] # NoItem => f[s] # NoItem
                      /\ f[s] # NoItem => item[j][s] # NoItem /\ f[s].reason = item[j][s].reason
                      /\ f[s] # NoItem => f[s].state = item[j][s].state \/ f[s].state = "settled"
    OBVIOUS
  <2>1. PICK i \in Item \cup {NoItem} : i = item[j][s] BY JobRead
  <2>2. f[s] = IF i # NoItem /\ i.state = "pending" THEN [i EXCEPT !.state = "settled"] ELSE i
    BY <1>3, <2>1
  <2>3. CASE i # NoItem /\ i.state = "pending"
    <3>1. PICK n : n = [i EXCEPT !.state = "settled"] OBVIOUS
    <3>2. n \in Item /\ n.state = "settled" /\ n.reason = i.reason
      BY <2>3, <3>1 DEF Item
    <3>3. n # NoItem BY <3>2, ItemAssumption
    <3>4. QED BY <2>1, <2>2, <2>3, <3>1, <3>2, <3>3
  <2>4. CASE ~(i # NoItem /\ i.state = "pending")
    BY <2>1, <2>2, <2>4
  <2>5. QED BY <2>3, <2>4
<1>7. TypeInv'
  <2>1. f \in [Subscriptions -> Item \cup {NoItem}] BY <1>3, <1>6
  <2>2. StoreTypes' BY <1>2, <1>4, <2>1 DEF PreviewInv, TypeInv, StoreTypes
  <2>3. StripeTypes' BY <1>4 DEF PreviewInv, TypeInv, StripeTypes
  <2>4. QED BY <1>4, <2>2, <2>3 DEF PreviewInv, TypeInv
<1>8. StoreSteady
  <2>1. \A k \in Jobs, s \in Subscriptions : k # j => (Handled(k, s)' <=> Handled(k, s))
    BY <1>4, <1>5 DEF Handled, Bound
  <2>2. QED BY <1>2, <1>4, <1>5, <1>6, <2>1, JobRead
              DEF StoreSteady, StoreAdvances, Closed, Ended
<1>9. JobInv'
  <2>1. r.revision \in Nat /\ r.revision <= MaxPages + 3 BY <1>2, JobRead
  <2>2. \A s \in Subscriptions :
          f[s] # NoItem /\ f[s].reason = "scope-mismatch" => f[s].state # "pending"
    BY <1>6 DEF PreviewInv, JobInv
  <2>3. QED BY <1>2, <1>5, <2>1, <2>2 DEF PreviewInv, JobInv
<1>10. CommitInv'
  BY <1>2, <1>4, <1>5 DEF PreviewInv, CommitInv, Closed, Ended
<1>11. WorkersInv' BY <1>4, <1>7, <1>8, WorkersOn DEF StoreSteady
<1>12. QED BY <1>7, <1>8, <1>9, <1>10, <1>11, StoreSteps

\* What happens at Stripe, and the clock, leave the preview's records alone.
LEMMA StripeKeeps ==
  ASSUME PreviewInv, Tick \/ \E s \in Subscriptions : Appear(s) \/ Leave(s) \/ Change(s)
  PROVE  PreviewInv'
<1>1. UNCHANGED stored /\ worker' = worker /\ queue' = queue
  BY DEF Tick, Appear, Leave, Change
<1>2. StripeTypes' /\ \A j \in Jobs : steady'[j] \subseteq steady[j]
  <2>0. StripeTypes BY DEF PreviewInv, TypeInv
  <2>1. CASE Tick
    BY <2>0, <2>1, PreviewAssumption DEF Tick, Mishap, StripeTypes
  <2>2. CASE \E s \in Subscriptions : Appear(s)
    BY <2>0, <2>2, PreviewAssumption DEF Appear, Mishap, StripeTypes
  <2>3. CASE \E s \in Subscriptions : Leave(s)
    BY <2>0, <2>3, PreviewAssumption DEF Leave, Mishap, StripeTypes
  <2>4. CASE \E s \in Subscriptions : Change(s)
    BY <2>0, <2>4, PreviewAssumption DEF Change, Mishap, StripeTypes
  <2>5. QED BY <2>1, <2>2, <2>3, <2>4
<1>3. JobInv' /\ CommitInv' /\ FoundInv' /\ StoreSteady
  BY <1>1, <1>2, StoreKept
<1>4. TypeInv'
  BY <1>1, <1>2 DEF PreviewInv, TypeInv, StoreTypes, stored
<1>5. WorkersInv' BY <1>1, <1>3, <1>4, WorkersOn DEF StoreSteady
<1>6. QED BY <1>3, <1>4, <1>5 DEF PreviewInv

-----------------------------------------------------------------------------
(* The invocation's steps that write nothing *)

LEMMA KeptTyped ==
  ASSUME PreviewInv, UNCHANGED <<stored, queue, provider>>
  PROVE  StepTyped /\ StoreAdvances /\ StoreSteady /\ JobInv' /\ CommitInv'
<1>1. UNCHANGED stored /\ UNCHANGED provider /\ queue' = queue /\ steady' = steady
  BY DEF provider
<1>2. StoreSteady /\ JobInv' /\ CommitInv' BY <1>1, StoreKept
<1>3. StepTyped
  BY <1>1 DEF PreviewInv, TypeInv, StepTyped, StoreTypes, StripeTypes, stored, provider
<1>4. QED BY <1>2, <1>3 DEF StoreSteady

LEMMA ReceiveKeeps ==
  ASSUME PreviewInv, NEW w \in Workers, NEW msg \in queue, Receive(w, msg)
  PROVE  PreviewInv'
<1>1. PICK j \in Jobs : j = msg.job /\ msg \in Message BY DEF PreviewInv, TypeInv, Message
<1>2. PICK next : next = IF More(j) THEN Max(Page(j)) ELSE 0 OBVIOUS
<1>3. PICK m : m = [Idle EXCEPT !.at = "select", !.message = msg,
                     !.revision = job[j].revision, !.page = Page(j), !.next = next]
  OBVIOUS
<1>4. /\ Moves(w, m) /\ UNCHANGED <<stored, queue, provider>>
      /\ job[j].state = "previewing"
      /\ More(j) => job[j].revision < MaxPages
  BY <1>1, <1>2, <1>3 DEF Receive, Moves
<1>5. /\ Page(j) \subseteq After(j) /\ After(j) \subseteq Subscriptions
      /\ More(j) => /\ next \in Subscriptions
                    /\ \A s \in After(j) : s <= next => s \in Page(j)
      /\ ~More(j) => next = 0 /\ Page(j) = After(j)
  BY <1>2, PageShape DEF PreviewInv, More
<1>6. PICK page \in SUBSET Subscriptions : page = Page(j) BY <1>5
<1>7. /\ m \in WorkerRecords /\ m.at = "select" /\ m.message = msg
      /\ m.revision = job[j].revision /\ m.next = next /\ m.page = page
  <2>1. PICK revision \in Nat : revision = job[j].revision BY JobRead
  <2>2. PICK i \in WorkerRecords : i = Idle BY IdleFits
  <2>3. m = [i EXCEPT !.at = "select", !.message = msg, !.revision = revision, !.page = page,
                      !.next = next]
    BY <1>3, <1>6, <2>1, <2>2
  <2>4. next \in Subscriptions \cup {0} BY <1>5
  <2>5. QED BY <1>1, <2>1, <2>3, <2>4 DEF WorkerRecords
<1>8. Covered(m)
  <2> SUFFICES ASSUME NEW s \in Subscriptions, s \in steady[j], next = 0 \/ s <= next,
                      s \notin Page(j)
               PROVE  Handled(j, s)
    BY <1>1, <1>6, <1>7 DEF Covered
  <2>1. s \in listed BY DEF PreviewInv, TypeInv, StripeTypes
  <2>2. s \notin After(j)
    BY <1>5, PreviewAssumption
  <2>3. s <= job[j].cursor
    <3>1. s \in Nat /\ job[j].cursor \in Nat
      BY JobRead, PreviewAssumption DEF JobRecords
    <3>2. QED BY <2>1, <2>2, <3>1 DEF After
  <2>4. QED BY <1>4, <2>3 DEF PreviewInv, FoundInv
<1>9. WorkerFits(m)
  <2>1. job[j].revision \in 1 .. MaxPages + 1 BY <1>4 DEF PreviewInv, JobInv
  <2>2. next # 0 => job[j].revision < MaxPages BY <1>4, <1>5
  <2>3. OnJob(m) BY <1>1, <1>4, <1>7, <1>8, <2>1, <2>2, JobRead DEF OnJob
  <2>4. AtStep(m) BY <1>7 DEF AtStep
  <2>5. QED BY <2>3, <2>4 DEF WorkerFits
<1>10. QED BY <1>4, <1>7, <1>9, WorkerOnly DEF PreviewInv, TypeInv

\* A message that has no effect, or an invocation that fails.
LEMMA DiscardKeeps ==
  ASSUME PreviewInv, NEW w \in Workers, NEW msg \in queue, Discard(w, msg)
  PROVE  PreviewInv'
<1>1. /\ UNCHANGED <<stored, worker, provider>> /\ queue' \subseteq queue
  BY DEF Discard
<1>2. /\ UNCHANGED stored /\ worker' = worker /\ steady' = steady
      /\ job' = job /\ item' = item /\ member' = member /\ active' = active
      /\ listed' = listed /\ snapshot' = snapshot /\ clock' = clock /\ mishaps' = mishaps
  BY <1>1 DEF provider, stored
<1>3. JobInv' /\ CommitInv' /\ FoundInv' /\ StoreSteady
  BY <1>2, StoreKept
<1>4. TypeInv'
  BY <1>1, <1>2 DEF PreviewInv, TypeInv, StoreTypes, StripeTypes
<1>5. WorkersInv' BY <1>2, <1>3, <1>4, WorkersOn DEF StoreSteady
<1>6. QED BY <1>3, <1>4, <1>5 DEF PreviewInv

LEMMA DieKeeps ==
  ASSUME PreviewInv, NEW w \in Workers, Die(w)
  PROVE  PreviewInv'
<1>1. /\ UNCHANGED stored /\ Fail(w) /\ queue' = queue /\ steady' = steady
      /\ listed' = listed /\ snapshot' = snapshot /\ clock' = clock
      /\ mishaps < MaxMishaps /\ mishaps' = mishaps + 1
  BY DEF Die, Mishap
<1>2. JobInv' /\ CommitInv' /\ FoundInv' /\ StoreSteady
  BY <1>1, StoreKept
<1>3. StepTyped
  BY <1>1, PreviewAssumption DEF PreviewInv, TypeInv, StepTyped, StoreTypes, StripeTypes, stored
<1>4. QED BY <1>1, <1>2, <1>3, Fails DEF PreviewInv, StoreSteady

LEMMA SelectKeeps ==
  ASSUME PreviewInv, NEW w \in Workers, Select(w)
  PROVE  PreviewInv'
<1>1. PICK v \in WorkerRecords : v = worker[w] BY WorkerRead
<1>2. PICK sel : sel =
        IF snapshot[Subject(w)] \in Unfit
        THEN [state |-> "needs_review", reason |-> "unfit", snapshot |-> "none",
              prorationTimestamp |-> 0]
        ELSE [state |-> "pending", reason |-> "none", snapshot |-> snapshot[Subject(w)],
              prorationTimestamp |-> IF Mine(w) \in Immediate THEN clock ELSE 0]
  OBVIOUS
<1>3. PICK m : m = [v EXCEPT !.at = "read", !.selected = sel] OBVIOUS
<1>4. /\ Moves(w, m) /\ UNCHANGED <<stored, queue, provider>>
      /\ v.at = "select" /\ v.page # {}
  BY <1>1, <1>2, <1>3 DEF Select, Moves
<1>5. /\ sel \in Item /\ sel.state \in {"pending", "needs_review"}
      /\ sel.reason # "scope-mismatch"
  <2>1. Subject(w) \in Subscriptions BY <1>1, <1>4, WorkerRead
  <2>2. snapshot[Subject(w)] \in Snapshots /\ clock \in 0 .. MaxMishaps + 1
    <3>1. StripeTypes BY DEF PreviewInv, TypeInv
    <3>2. snapshot[Subject(w)] \in Snapshots BY <2>1, <3>1 DEF StripeTypes
    <3>3. clock \in Nat /\ clock <= mishaps + 1 /\ mishaps \in Nat /\ mishaps <= MaxMishaps
      BY <3>1, PreviewAssumption DEF StripeTypes
    <3>4. QED BY <3>2, <3>3, PreviewAssumption
  <2>3. 0 \in 0 .. MaxMishaps + 1 BY PreviewAssumption
  <2>4. QED BY <1>2, <2>2, <2>3 DEF Item
<1>6. /\ m \in WorkerRecords /\ m.at = "read" /\ m.message = v.message
      /\ m.revision = v.revision /\ m.next = v.next /\ m.page = v.page /\ m.selected = sel
  BY <1>3, <1>5 DEF WorkerRecords
<1>7. WorkerFits(m)
  <2>1. OnJob(v) BY <1>1, <1>4, WorkerRead
  <2>2. OnJob(m) BY <1>6, <2>1 DEF OnJob, Covered
  <2>3. AtStep(m) BY <1>4, <1>5, <1>6 DEF AtStep
  <2>4. QED BY <2>2, <2>3 DEF WorkerFits
<1>8. QED BY <1>4, <1>6, <1>7, WorkerOnly DEF PreviewInv, TypeInv

LEMMA ReadForPutKeeps ==
  ASSUME PreviewInv, NEW w \in Workers, ReadForPut(w)
  PROVE  PreviewInv'
<1>1. PICK v \in WorkerRecords : v = worker[w] BY WorkerRead
<1>2. PICK j \in Jobs : j = Mine(w) /\ j = v.message.job
  BY <1>1, WorkerRead DEF ReadForPut, Mine
<1>3. PICK s : s = Subject(w) OBVIOUS
<1>4. /\ UNCHANGED <<stored, queue, provider>> /\ v.at = "read" /\ item' = item
  BY <1>1 DEF ReadForPut, stored
<1>5. StepTyped /\ StoreAdvances /\ StoreSteady /\ JobInv' /\ CommitInv'
  BY <1>4, KeptTyped
<1>6. CASE Fail(w) BY <1>5, <1>6, Fails, StoreSteps
<1>7. CASE Persisted(w) /\ Stored(w) = worker[w].selected
  <2>1. item'[j][s] = worker[w].selected BY <1>2, <1>3, <1>4, <1>7 DEF Stored
  <2>2. QED BY <1>1, <1>2, <1>3, <1>4, <1>5, <1>7, <2>1, GoesOnOrLeaves, StoreSteps
<1>8. CASE /\ job[j].state = "previewing"
           /\ worker' = [worker EXCEPT ![w].at = "put", ![w].seen = job[Mine(w)].aggregate,
                                       ![w].seenRevision = job[Mine(w)].revision]
  <2>1. PICK m : m = [v EXCEPT !.at = "put", !.seen = job[j].aggregate,
                              !.seenRevision = job[j].revision]
    OBVIOUS
  <2>2. /\ m \in WorkerRecords /\ m.at = "put" /\ m.message = v.message
        /\ m.revision = v.revision /\ m.next = v.next /\ m.page = v.page
        /\ m.selected = v.selected
    <3>1. PICK seen \in Aggregates, revision \in 0 .. MaxPages + 3 :
            seen = job[j].aggregate /\ revision = job[j].revision
      BY JobRead, PreviewAssumption DEF JobRecords
    <3>2. m = [v EXCEPT !.at = "put", !.seen = seen, !.seenRevision = revision]
      BY <2>1, <3>1
    <3>3. QED BY <3>2 DEF WorkerRecords
  <2>3. Moves(w, m) BY <1>1, <1>2, <1>8, <2>1, WorkerRead DEF Moves
  <2>4. WorkerFits(m)
    <3>1. OnJob(v) /\ AtStep(v) BY <1>1, <1>4, WorkerRead
    <3>2. OnJob(m) BY <2>2, <3>1 DEF OnJob, Covered
    <3>3. AtStep(m) BY <1>4, <2>2, <3>1 DEF AtStep
    <3>4. QED BY <3>2, <3>3 DEF WorkerFits
  <2>5. QED BY <1>4, <2>2, <2>3, <2>4, WorkerOnly DEF PreviewInv, TypeInv
<1>9. QED BY <1>2, <1>6, <1>7, <1>8 DEF ReadForPut

LEMMA SummarizeKeeps ==
  ASSUME PreviewInv, NEW w \in Workers, Summarize(w)
  PROVE  PreviewInv'
<1>1. PICK v \in WorkerRecords : v = worker[w] BY WorkerRead
<1>2. PICK j \in Jobs : j = Mine(w) /\ j = v.message.job
  BY <1>1, WorkerRead DEF Summarize, PageDone, Mine
<1>3. /\ UNCHANGED <<stored, queue, provider>> /\ v.at = "select" /\ v.page = {} /\ v.next = 0
  BY <1>1 DEF Summarize, PageDone
<1>4. CASE Fail(w) BY <1>3, <1>4, KeptTyped, Fails, StoreSteps
<1>5. CASE worker' = [worker EXCEPT ![w].at = "complete", ![w].seen = job[Mine(w)].aggregate]
  <2>1. PICK m : m = [v EXCEPT !.at = "complete", !.seen = job[j].aggregate] OBVIOUS
  <2>2. /\ m \in WorkerRecords /\ m.at = "complete" /\ m.message = v.message
        /\ m.revision = v.revision /\ m.next = v.next /\ m.page = v.page
    <3>1. PICK seen \in Aggregates : seen = job[j].aggregate BY JobRead DEF JobRecords
    <3>2. m = [v EXCEPT !.at = "complete", !.seen = seen] BY <2>1, <3>1
    <3>3. QED BY <3>2 DEF WorkerRecords
  <2>3. Moves(w, m) BY <1>1, <1>2, <1>5, <2>1, WorkerRead DEF Moves
  <2>4. WorkerFits(m)
    <3>1. OnJob(v) BY <1>1, <1>3, WorkerRead
    <3>2. OnJob(m) BY <2>2, <3>1 DEF OnJob, Covered
    <3>3. AtStep(m) BY <1>3, <2>2 DEF AtStep
    <3>4. QED BY <3>2, <3>3 DEF WorkerFits
  <2>5. QED BY <1>3, <2>2, <2>3, <2>4, WorkerOnly DEF PreviewInv, TypeInv
<1>6. QED BY <1>4, <1>5 DEF Summarize

LEMMA SendKeeps ==
  ASSUME PreviewInv, NEW w \in Workers, Send(w)
  PROVE  PreviewInv'
<1>1. /\ UNCHANGED <<stored, provider>> /\ Fail(w) /\ worker[w].at = "send"
      /\ queue' = (queue \ {worker[w].message})
                     \cup {[job |-> Mine(w), revision |-> worker[w].revision + 1]}
  BY DEF Send
<1>2. queue' \subseteq Message
  <2>1. Mine(w) \in Jobs /\ worker[w].revision \in 1 .. MaxPages + 1
    BY <1>1, WorkerRead DEF OnJob
  <2>2. [job |-> Mine(w), revision |-> worker[w].revision + 1] \in Message
    BY <2>1, PreviewAssumption DEF Message
  <2>3. QED BY <1>1, <2>2 DEF PreviewInv, TypeInv
<1>3. PICK m \in WorkerRecords : m = Idle /\ WorkerFits(m) BY IdleFits
<1>4. Moves(w, m) BY <1>1, <1>3 DEF Moves, Fail
<1>5. QED BY <1>1, <1>2, <1>3, <1>4, WorkerOnly

-----------------------------------------------------------------------------
(* The invocation's steps that write *)

\* A transaction on an item of a preview carries its commitment along.
LEMMA ItemStored ==
  ASSUME PreviewInv, NEW j \in Jobs, NEW s \in Subscriptions, NEW i \in Item,
         i.reason = "scope-mismatch" => i.state # "pending",
         item[j][s] = NoItem \/ i.state # "pending",
         job[j].state = "previewing",
         NEW aggregate, aggregate = SetToBag(Pairs([item[j] EXCEPT ![s] = i])),
         item' = [item EXCEPT ![j][s] = i],
         job' = [job EXCEPT ![j].aggregate = aggregate],
         UNCHANGED <<member, active, queue, provider>>
  PROVE  StepTyped /\ StoreAdvances /\ StoreSteady /\ JobInv' /\ CommitInv' /\ item'[j][s] = i
<1>1. PICK f : f = [item[j] EXCEPT ![s] = i] OBVIOUS
<1>2. /\ f \in [Subscriptions -> Item \cup {NoItem}] /\ f[s] = i
      /\ \A t \in Subscriptions : t # s => f[t] = item[j][t]
  BY <1>1, JobRead
<1>3. i # NoItem BY ItemAssumption
<1>4. PICK r : r = [job[j] EXCEPT !.aggregate = aggregate] OBVIOUS
<1>5. /\ r \in JobRecords /\ r.state = "previewing" /\ r.revision = job[j].revision
      /\ r.cursor = job[j].cursor /\ r.aggregate = aggregate
  <2>1. Pairs(f) \in SUBSET (Subscriptions \X Item) BY <1>2, PairsTyped
  <2>2. aggregate \in Aggregates BY <1>1, <2>1 DEF Aggregates
  <2>3. QED BY <1>4, <2>2, JobRead DEF JobRecords
<1>6. /\ job' = [job EXCEPT ![j] = r] /\ item' = [item EXCEPT ![j] = f]
      /\ member' = member /\ active' = active /\ queue' = queue
      /\ steady' = steady /\ listed' = listed /\ snapshot' = snapshot
      /\ clock' = clock /\ mishaps' = mishaps
  BY <1>1, <1>4 DEF provider
<1>7. /\ job'[j] = r /\ item'[j] = f
      /\ \A k \in Jobs : k # j => job'[k] = job[k] /\ item'[k] = item[k]
  BY <1>6, JobRead
<1>8. StepTyped
  <2>1. StoreTypes'
    <3>1. StoreTypes BY DEF PreviewInv, TypeInv
    <3>2. QED BY ONLY <1>2, <1>5, <1>6, <3>1 DEF StoreTypes
  <2>2. StripeTypes' BY <1>6 DEF PreviewInv, TypeInv, StripeTypes
  <2>3. QED BY <1>6, <2>1, <2>2 DEF PreviewInv, TypeInv, StepTyped
<1>9. \A k \in Jobs, t \in Subscriptions : Handled(k, t) => Handled(k, t)'
  <2> SUFFICES ASSUME NEW k \in Jobs, NEW t \in Subscriptions, Handled(k, t)
               PROVE  Handled(k, t)'
    OBVIOUS
  <2>1. CASE k = j /\ t = s
    <3>1. item[j][s] # NoItem /\ i.state # "pending" BY <2>1 DEF Handled
    <3>2. QED BY <1>2, <1>3, <1>7, <2>1, <3>1 DEF Handled
  <2>2. CASE ~(k = j /\ t = s)
    <3>1. item'[k][t] = item[k][t] BY <1>2, <1>7, <2>2
    <3>2. QED BY <1>6, <3>1 DEF Handled, Bound
  <2>3. QED BY <2>1, <2>2
<1>10. StoreSteady
  <2>1. \A k \in Jobs, t \in Subscriptions : item[k][t] # NoItem => item'[k][t] # NoItem
    BY <1>2, <1>3, <1>7
  <2>2. \A k \in Jobs : /\ job'[k].state = job[k].state /\ job'[k].revision = job[k].revision
                        /\ job'[k].cursor = job[k].cursor /\ job[k].revision \in Nat
    BY <1>5, <1>7, JobRead
  <2>3. steady' = steady BY <1>6
  <2>4. QED BY ONLY <1>9, <2>1, <2>2, <2>3 DEF StoreSteady, StoreAdvances
<1>11. JobInv'
  <2>1. \A k \in Jobs : /\ job'[k].state = job[k].state /\ job'[k].revision = job[k].revision
                        /\ job'[k].cursor = job[k].cursor
    BY <1>5, <1>7
  <2>2. \A k \in Jobs, t \in Subscriptions :
          \/ item'[k][t] = item[k][t]
          \/ /\ k = j /\ item'[k][t] = i
    BY <1>2, <1>7
  <2>3. JobInv BY DEF PreviewInv
  <2>4. job[j].state = "previewing" /\ (i.reason = "scope-mismatch" => i.state # "pending")
    OBVIOUS
  <2>5. QED BY ONLY <2>1, <2>2, <2>3, <2>4 DEF JobInv
<1>12. CommitInv'
  <2>1. r.aggregate = SetToBag(Pairs(f)) /\ r.state \notin Closed
    BY <1>1, <1>5 DEF Closed
  <2>2. CommitInv BY DEF PreviewInv
  <2>3. QED BY ONLY <1>7, <2>1, <2>2 DEF CommitInv
<1>13. QED BY <1>2, <1>7, <1>8, <1>10, <1>11, <1>12 DEF StoreSteady

LEMMA PutKeeps ==
  ASSUME PreviewInv, NEW w \in Workers, Put(w)
  PROVE  PreviewInv'
<1>1. PICK v \in WorkerRecords : v = worker[w] BY WorkerRead
<1>2. v.at = "put" BY <1>1 DEF Put
<1>3. PICK j \in Jobs, s \in Subscriptions : j = Mine(w) /\ s = Subject(w)
  BY <1>1, <1>2, WorkerRead DEF AtStep
<1>4. PICK i \in Item : i = v.selected /\ i.reason # "scope-mismatch"
  BY <1>1, <1>2, WorkerRead DEF AtStep
<1>5. UNCHANGED <<member, active, queue, provider>> BY DEF Put
<1>6. CASE AggregateUnmoved(w) /\ Stored(w) = NoItem
  <2>1. PICK aggregate : aggregate = worker[w].seen (+) Commitment(s, worker[w].selected)
    OBVIOUS
  <2>2. /\ item' = [item EXCEPT ![j][s] = i] /\ Persisted(w)
        /\ job' = [job EXCEPT ![j].aggregate = aggregate]
        /\ job[j].state = "previewing" /\ job[j].aggregate = worker[w].seen
        /\ item[j][s] = NoItem
    BY <1>1, <1>3, <1>4, <1>6, <2>1 DEF Put, AggregateUnmoved, Stored
  <2>3. aggregate = SetToBag(Pairs([item[j] EXCEPT ![s] = i]))
    <3>1. job[j].aggregate = SetToBag(Pairs(item[j]))
      BY <2>2 DEF PreviewInv, CommitInv, Ended
    <3>2. /\ Pairs([item[j] EXCEPT ![s] = i]) = Pairs(item[j]) \cup {<<s, i>>}
          /\ <<s, i>> \notin Pairs(item[j])
      BY <2>2, JobRead, PairsAdded
    <3>3. SetToBag(Pairs(item[j])) (+) SetToBag({<<s, i>>})
            = SetToBag(Pairs(item[j]) \cup {<<s, i>>})
      BY <3>2, BagAdds
    <3>4. QED BY <1>1, <1>4, <2>1, <2>2, <3>1, <3>2, <3>3 DEF Commitment
  <2>4. /\ StepTyped /\ StoreAdvances /\ StoreSteady /\ JobInv' /\ CommitInv'
        /\ item'[j][s] = i
    BY <1>4, <1>5, <2>2, <2>3, ItemStored
  <2>5. TypeInv' /\ WorkersInv'
    BY <1>1, <1>2, <1>3, <1>4, <2>2, <2>4, GoesOnOrLeaves
  <2>6. QED BY <2>4, <2>5, StoreSteps
<1>7. CASE ~(AggregateUnmoved(w) /\ Stored(w) = NoItem)
  <2>1. UNCHANGED <<stored, queue, provider>> /\ item' = item
    BY <1>7 DEF Put, stored
  <2>2. StepTyped /\ StoreAdvances /\ StoreSteady /\ JobInv' /\ CommitInv'
    BY <2>1, KeptTyped
  <2>3. CASE Fail(w) BY <2>2, <2>3, Fails, StoreSteps
  <2>4. CASE Stored(w) = worker[w].selected /\ Persisted(w)
    <3>1. item'[j][s] = worker[w].selected BY <1>3, <2>1, <2>4 DEF Stored
    <3>2. QED BY <1>1, <1>2, <1>3, <2>2, <2>4, <3>1, GoesOnOrLeaves, StoreSteps
  <2>5. QED BY <1>7, <2>3, <2>4 DEF Put
<1>8. QED BY <1>6, <1>7

\* A binding takes a subscription only from a job that has ended.
LEMMA BindKeeps ==
  ASSUME PreviewInv, NEW w \in Workers, Bind(w)
  PROVE  PreviewInv'
<1>1. PICK v \in WorkerRecords : v = worker[w] BY WorkerRead
<1>2. v.at = "bind" BY <1>1 DEF Bind
<1>3. PICK j \in Jobs, s \in Subscriptions : /\ j = Mine(w) /\ s = Subject(w)
                                             /\ item[j][s] # NoItem
  BY <1>1, <1>2, WorkerRead DEF AtStep, Mine, Subject
<1>4. UNCHANGED <<job, item, queue, provider>> BY DEF Bind
<1>5. CASE /\ CanBind(j, s)
           /\ member' = [member EXCEPT ![j] = @ \cup {s}]
           /\ active' = [active EXCEPT ![s] = j]
           /\ NextInPage(w)
  <2>1. /\ job' = job /\ item' = item /\ queue' = queue /\ steady' = steady
        /\ listed' = listed /\ snapshot' = snapshot /\ clock' = clock /\ mishaps' = mishaps
    BY <1>4 DEF provider
  <2>2. /\ member \in [Jobs -> SUBSET Subscriptions]
        /\ active \in [Subscriptions -> Jobs \cup {NoJob}]
    BY DEF PreviewInv, TypeInv, StoreTypes
  <2>3. /\ s \in member'[j] /\ active'[s] = j
        /\ \A t \in Subscriptions : t # s => active'[t] = active[t]
        /\ \A k \in Jobs : member[k] \subseteq member'[k]
    BY <1>5, <2>2
  <2>4. StepTyped
    <3>1. StoreTypes' BY <1>5, <2>1, <2>2 DEF PreviewInv, TypeInv, StoreTypes
    <3>2. StripeTypes' BY <2>1 DEF PreviewInv, TypeInv, StripeTypes
    <3>3. QED BY <2>1, <3>1, <3>2 DEF PreviewInv, TypeInv, StepTyped
  <2>5. ASSUME NEW k \in Jobs, NEW t \in Subscriptions, job[k].state \notin Ended, Handled(k, t)
        PROVE  Handled(k, t)'
    <3>1. CASE t # s BY <2>1, <2>3, <2>5, <3>1 DEF Handled, Bound
    <3>2. CASE t = s /\ k = j BY <2>1, <2>3, <2>5, <3>2 DEF Handled, Bound
    <3>3. CASE t = s /\ k # j
      <4>1. active[s] # k
        <5>1. k # NoJob BY PreviewAssumption
        <5>2. QED BY <1>5, <2>5, <3>3, <5>1 DEF CanBind, Rival
      <4>2. item[k][t].state # "pending" BY <2>5, <3>3, <4>1 DEF Handled, Bound
      <4>3. QED BY <2>1, <2>5, <4>2 DEF Handled
    <3>4. QED BY <3>1, <3>2, <3>3
  <2>6. StoreSteady /\ StoreAdvances
    BY <2>1, <2>5, JobRead DEF StoreSteady, StoreAdvances
  <2>7. JobInv' /\ CommitInv'
    BY <2>1 DEF PreviewInv, JobInv, CommitInv
  <2>8. Handled(j, s)' BY <1>3, <2>1, <2>3 DEF Handled, Bound
  <2>9. TypeInv' /\ WorkersInv'
    BY <1>1, <1>2, <1>3, <1>5, <2>4, <2>6, <2>8, PageLeft
  <2>10. QED BY <2>6, <2>7, <2>9, StoreSteps
<1>6. CASE UNCHANGED <<member, active>>
  <2>1. UNCHANGED <<stored, queue, provider>> /\ item' = item /\ member' = member /\ active' = active
    BY <1>4, <1>6 DEF stored
  <2>2. StepTyped /\ StoreAdvances /\ StoreSteady /\ JobInv' /\ CommitInv'
    BY <2>1, KeptTyped
  <2>3. CASE Fail(w) BY <2>2, <2>3, Fails, StoreSteps
  <2>4. CASE Bound(j, s) /\ NextInPage(w)
    <3>1. Handled(j, s)' BY <1>3, <2>1, <2>4 DEF Handled, Bound
    <3>2. QED BY <1>1, <1>2, <1>3, <2>2, <2>4, <3>1, PageLeft, StoreSteps
  <2>5. CASE Go(w, "reject")
    <3>1. item'[j][s] # NoItem BY <1>3, <2>1
    <3>2. QED BY <1>1, <1>2, <1>3, <2>2, <2>5, <3>1, GoesOn, StoreSteps
  <2>6. CASE CanBind(j, s) /\ ~RivalUnreadable(j, s) /\ NextInPage(w)
             /\ member' = [member EXCEPT ![j] = @ \cup {s}]
             /\ active' = [active EXCEPT ![s] = j]
    BY <1>5, <2>6
  <2>7. QED BY <1>3, <2>3, <2>4, <2>5, <2>6 DEF Bind
<1>7. QED BY <1>3, <1>5, <1>6 DEF Bind

LEMMA RejectKeeps ==
  ASSUME PreviewInv, NEW w \in Workers, Reject(w)
  PROVE  PreviewInv'
<1>1. PICK v \in WorkerRecords : v = worker[w] BY WorkerRead
<1>2. v.at = "reject" BY <1>1 DEF Reject
<1>3. PICK j \in Jobs, s \in Subscriptions : /\ j = Mine(w) /\ s = Subject(w)
                                             /\ item[j][s] # NoItem
  BY <1>1, <1>2, WorkerRead DEF AtStep, Mine, Subject
<1>4. PICK old \in Item : old = item[j][s] /\ old = Stored(w)
  BY <1>3, JobRead DEF Stored
<1>5. UNCHANGED <<member, active, queue, provider>> BY DEF Reject
<1>6. CASE job[j].state = "previewing" /\ old.state = "pending"
  <2>1. PICK i : i = Rejected(old) OBVIOUS
  <2>2. i \in Item /\ i.state = "needs_review" BY <2>1 DEF Rejected, Item
  <2>3. PICK aggregate :
          aggregate = (job[j].aggregate (-) Commitment(s, old)) (+) Commitment(s, i)
    OBVIOUS
  <2>4. /\ item' = [item EXCEPT ![j][s] = i] /\ NextInPage(w)
        /\ job' = [job EXCEPT ![j].aggregate = aggregate]
    <3>1. /\ item' = [item EXCEPT ![j][s] = Rejected(old)] /\ NextInPage(w)
          /\ job' = [job EXCEPT ![j].aggregate =
                       (@ (-) Commitment(s, old)) (+) Commitment(s, Rejected(old))]
      <4>1. JobInv BY DEF PreviewInv
      <4>2. old.reason # "scope-mismatch" BY <1>3, <1>4, <1>6, <4>1 DEF JobInv
      <4>3. QED BY <1>3, <1>4, <1>6, <4>2 DEF Reject
    <3>2. QED BY <2>1, <2>3, <3>1
  <2>5. aggregate = SetToBag(Pairs([item[j] EXCEPT ![s] = i]))
    <3>1. PICK P, Q : P = Pairs(item[j]) /\ Q = P \ {<<s, old>>} OBVIOUS
    <3>2. job[j].aggregate = SetToBag(P)
      BY <1>6, <3>1 DEF PreviewInv, CommitInv, Ended
    <3>3. /\ Pairs([item[j] EXCEPT ![s] = i]) = Q \cup {<<s, i>>}
          /\ <<s, old>> \in P /\ <<s, i>> \notin Q
      <4>1. PICK f \in [Subscriptions -> Item \cup {NoItem}] : f = item[j] BY JobRead
      <4>2. f[s] # NoItem /\ f[s] = old BY <1>3, <1>4, <4>1
      <4>3. /\ Pairs([f EXCEPT ![s] = i]) = (Pairs(f) \ {<<s, f[s]>>}) \cup {<<s, i>>}
            /\ <<s, f[s]>> \in Pairs(f)
            /\ <<s, i>> \notin Pairs(f) \ {<<s, f[s]>>}
        BY <2>2, <4>2, PairsReplaced
      <4>4. QED BY <3>1, <4>1, <4>2, <4>3
    <3>4. SetToBag(P) (-) SetToBag({<<s, old>>}) = SetToBag(Q)
      BY <3>1, <3>3, BagRemoves
    <3>5. SetToBag(Q) (+) SetToBag({<<s, i>>}) = SetToBag(Q \cup {<<s, i>>})
      BY <3>3, BagAdds
    <3>6. QED BY <2>3, <3>2, <3>3, <3>4, <3>5 DEF Commitment
  <2>6. /\ StepTyped /\ StoreAdvances /\ StoreSteady /\ JobInv' /\ CommitInv'
        /\ item'[j][s] = i
    BY <1>5, <1>6, <2>2, <2>4, <2>5, ItemStored
  <2>7. Handled(j, s)' BY <2>2, <2>6, ItemAssumption DEF Handled
  <2>8. TypeInv' /\ WorkersInv'
    BY <1>1, <1>2, <1>3, <2>4, <2>6, <2>7, PageLeft
  <2>9. QED BY <2>6, <2>8, StoreSteps
<1>7. CASE ~(job[j].state = "previewing" /\ old.state = "pending")
  <2>1. UNCHANGED <<stored, queue, provider>> /\ item' = item
        /\ (Fail(w) \/ (old.reason = "scope-mismatch" /\ NextInPage(w)))
    BY <1>3, <1>4, <1>5, <1>7 DEF Reject, stored
  <2>2. StepTyped /\ StoreAdvances /\ StoreSteady /\ JobInv' /\ CommitInv'
    BY <2>1, KeptTyped
  <2>3. CASE Fail(w) BY <2>2, <2>3, Fails, StoreSteps
  <2>4. CASE old.reason = "scope-mismatch" /\ NextInPage(w)
    <3>1. JobInv BY DEF PreviewInv
    <3>2. old.state # "pending" BY <1>3, <1>4, <2>4, <3>1 DEF JobInv
    <3>3. Handled(j, s)' BY <1>3, <1>4, <2>1, <3>2 DEF Handled
    <3>4. QED BY <1>1, <1>2, <1>3, <2>2, <2>4, <3>3, PageLeft, StoreSteps
  <2>5. QED BY <2>1, <2>3, <2>4
<1>8. QED BY <1>6, <1>7

-----------------------------------------------------------------------------
(* The end of a page, and of the preview *)

\* All that a job still is what its worker loaded says of the worker's page.
LEMMA PageCovered ==
  ASSUME PreviewInv, NEW w \in Workers, worker[w].at # "idle", Unmoved(w),
         worker[w].page = {},
         NEW s \in Subscriptions, s \in steady[Mine(w)],
         worker[w].next = 0 \/ s <= worker[w].next
  PROVE  Handled(Mine(w), s)
<1>1. OnJob(worker[w]) BY WorkerRead
<1>2. Covered(worker[w]) BY <1>1 DEF OnJob, Unmoved, Mine
<1>3. QED BY <1>2 DEF Covered, Mine

LEMMA AdvanceKeeps ==
  ASSUME PreviewInv, NEW w \in Workers, Advance(w)
  PROVE  PreviewInv'
<1>1. PICK v \in WorkerRecords : v = worker[w] BY WorkerRead
<1>2. v.at = "select" /\ v.page = {} /\ v.next # 0 BY <1>1 DEF Advance, PageDone
<1>3. PICK j \in Jobs : j = Mine(w) /\ j = v.message.job
  BY <1>1, <1>2, WorkerRead DEF Mine
<1>4. UNCHANGED <<item, member, active, queue, provider>> BY DEF Advance
<1>5. CASE Unmoved(w)
  <2>1. PICK r : r = [job[j] EXCEPT !.revision = @ + 1, !.cursor = v.next] OBVIOUS
  <2>2. /\ job' = [job EXCEPT ![j] = r] /\ Go(w, "send") /\ job[j].state = "previewing"
        /\ job[j].revision = v.revision
    BY <1>1, <1>3, <1>5, <2>1, JobRead DEF Advance, Unmoved
  <2>3. /\ r \in JobRecords /\ r.state = "previewing" /\ r.revision = job[j].revision + 1
        /\ r.cursor = v.next /\ r.aggregate = job[j].aggregate
    <3>1. PICK next \in Subscriptions \cup {0} : next = v.next BY DEF WorkerRecords
    <3>2. PICK h \in JobRecords : h = job[j] BY JobRead
    <3>3. PICK revision \in Nat : revision = h.revision + 1 BY <3>2 DEF JobRecords
    <3>4. r = [h EXCEPT !.revision = revision, !.cursor = next]
      BY <2>1, <3>1, <3>2, <3>3
    <3>5. h.state = "previewing" BY <2>2, <3>2
    <3>6. /\ r \in JobRecords /\ r.state = "previewing" /\ r.revision = revision
          /\ r.cursor = next /\ r.aggregate = h.aggregate
      BY ONLY <3>1, <3>2, <3>3, <3>4, <3>5, PreviewAssumption DEF JobRecords
    <3>7. QED BY <3>1, <3>2, <3>3, <3>6
  <2>4. /\ item' = item /\ member' = member /\ active' = active /\ queue' = queue
        /\ steady' = steady /\ listed' = listed /\ snapshot' = snapshot
        /\ clock' = clock /\ mishaps' = mishaps
    BY <1>4 DEF provider
  <2>5. /\ job'[j] = r /\ \A k \in Jobs : k # j => job'[k] = job[k]
    BY <2>2, JobRead
  <2>6. \A k \in Jobs, s \in Subscriptions : Handled(k, s)' <=> Handled(k, s)
    BY <2>4 DEF Handled, Bound
  <2>7. StepTyped
    <3>1. StoreTypes' BY <2>2, <2>3, <2>4 DEF PreviewInv, TypeInv, StoreTypes
    <3>2. StripeTypes' BY <2>4 DEF PreviewInv, TypeInv, StripeTypes
    <3>3. QED BY <2>4, <3>1, <3>2 DEF PreviewInv, TypeInv, StepTyped
  <2>8. StoreAdvances
    BY <2>2, <2>3, <2>4, <2>5, <2>6, JobRead DEF StoreAdvances
  <2>9. JobInv'
    <3>1. v.revision \in 1 .. MaxPages + 1 /\ v.revision < MaxPages
      BY <1>1, <1>2, WorkerRead DEF OnJob
    <3>2. r.revision \in 1 .. MaxPages + 1 /\ r.revision <= MaxPages + 3
      BY <2>2, <2>3, <3>1, PreviewAssumption
    <3>3. JobInv BY DEF PreviewInv
    <3>4. QED BY ONLY <2>2, <2>3, <2>4, <2>5, <3>2, <3>3 DEF JobInv
  <2>10. CommitInv'
    BY <2>2, <2>3, <2>4, <2>5 DEF PreviewInv, CommitInv, Closed, Ended
  <2>11. FoundInv'
    <3>1. \A s \in Subscriptions : s \in steady[j] /\ s <= v.next => Handled(j, s)
      BY <1>1, <1>2, <1>3, <1>5, PageCovered
    <3>2. FoundInv BY DEF PreviewInv
    <3>3. QED BY ONLY <2>3, <2>4, <2>5, <2>6, <3>1, <3>2 DEF FoundInv, Closed
  <2>12. PICK m : m = [v EXCEPT !.at = "send"] OBVIOUS
  <2>13. /\ m \in WorkerRecords /\ m.at = "send" /\ m.message = v.message
         /\ m.revision = v.revision /\ m.next = v.next /\ m.page = v.page
    BY <2>12 DEF WorkerRecords
  <2>14. Moves(w, m) BY <1>1, <2>2, <2>12, WorkerRead DEF Moves, Go
  <2>15. ASSUME TypeInv' PROVE WorkerFits(m)'
    <3>1. WorkerFits(v) BY <1>1, WorkerRead
    <3>2. OnJob(v)' BY <1>2, <2>8, <2>15, <3>1, FitsOn DEF PreviewInv, WorkerFits
    <3>3. OnJob(m)' BY <2>13, <3>2 DEF OnJob, Covered
    <3>4. AtStep(m)' BY <1>2, <2>13 DEF AtStep
    <3>5. QED BY <3>3, <3>4 DEF WorkerFits
  <2>16. TypeInv' /\ WorkersInv'
    BY <2>7, <2>8, <2>13, <2>14, <2>15, WorkerSteps
  <2>17. QED BY <2>9, <2>10, <2>11, <2>16 DEF PreviewInv
<1>6. CASE ~Unmoved(w)
  <2>1. Fail(w) /\ UNCHANGED <<stored, queue, provider>>
    BY <1>4, <1>6 DEF Advance, stored
  <2>2. QED BY <2>1, KeptTyped, Fails, StoreSteps
<1>7. QED BY <1>5, <1>6

LEMMA CompleteKeeps ==
  ASSUME PreviewInv, NEW w \in Workers, Complete(w)
  PROVE  PreviewInv'
<1>1. PICK v \in WorkerRecords : v = worker[w] BY WorkerRead
<1>2. v.at = "complete" /\ v.page = {} /\ v.next = 0
  BY <1>1, WorkerRead DEF Complete, AtStep
<1>3. PICK j \in Jobs : j = Mine(w) /\ j = v.message.job
  BY <1>1, <1>2, WorkerRead DEF Mine
<1>4. UNCHANGED <<item, member, active, provider>> /\ Fail(w) BY DEF Complete
<1>5. CASE Unmoved(w) /\ job[j].aggregate = worker[w].seen
  <2>1. PICK r : r = [job[j] EXCEPT !.state = "awaiting_approval", !.revision = @ + 1,
                        !.cursor = 0, !.dryRun = v.seen, !.pending = PendingIn(v.seen)]
    OBVIOUS
  <2>2. /\ job' = [job EXCEPT ![j] = r] /\ job[j].state = "previewing"
        /\ job[j].aggregate = v.seen /\ queue' \subseteq queue
    <3>1. /\ job' = [job EXCEPT ![j].state = "awaiting_approval",
                       ![j].revision = @ + 1, ![j].cursor = 0,
                       ![j].dryRun = v.seen, ![j].pending = PendingIn(v.seen)]
          /\ queue' = queue \ {v.message}
      BY <1>1, <1>3, <1>5 DEF Complete
    <3>2. PICK pending : pending = PendingIn(v.seen) OBVIOUS
    <3>3. PICK seen : seen = v.seen OBVIOUS
    <3>4. DOMAIN job = Jobs BY JobRead
    <3>5. job' = [job EXCEPT ![j] = r]
      BY ONLY <2>1, <3>1, <3>2, <3>3, <3>4
    <3>6. job[j].state = "previewing" /\ job[j].aggregate = v.seen
      BY <1>1, <1>3, <1>5 DEF Unmoved
    <3>7. QED BY <3>1, <3>5, <3>6
  <2>3. PendingIn(v.seen) \in 0 .. Cardinality(Subscriptions)
    <3>1. v.seen = SetToBag(Pairs(item[j]))
      BY <2>2 DEF PreviewInv, CommitInv, Ended
    <3>2. QED BY <3>1, JobRead, PendingBounded
  <2>4. /\ r \in JobRecords /\ r.state = "awaiting_approval"
        /\ r.revision = job[j].revision + 1 /\ r.cursor = 0
        /\ r.aggregate = job[j].aggregate /\ r.dryRun = job[j].aggregate
    <3>1. PICK pending \in 0 .. Cardinality(Subscriptions) : pending = PendingIn(v.seen)
      BY <2>3
    <3>2. PICK seen \in Aggregates : seen = v.seen BY DEF WorkerRecords
    <3>3. PICK h \in JobRecords : h = job[j] BY JobRead
    <3>4. PICK revision \in Nat : revision = h.revision + 1 BY <3>3 DEF JobRecords
    <3>5. r = [h EXCEPT !.state = "awaiting_approval", !.revision = revision,
                 !.cursor = 0, !.dryRun = seen, !.pending = pending]
      BY <2>1, <3>1, <3>2, <3>3, <3>4
    <3>6. /\ r \in JobRecords /\ r.state = "awaiting_approval" /\ r.revision = revision
          /\ r.cursor = 0 /\ r.aggregate = h.aggregate /\ r.dryRun = seen
      BY ONLY <3>1, <3>2, <3>3, <3>4, <3>5 DEF JobRecords, Closed
    <3>7. seen = h.aggregate BY <2>2, <3>2, <3>3
    <3>8. QED BY <3>3, <3>4, <3>6, <3>7
  <2>5. /\ item' = item /\ member' = member /\ active' = active
        /\ steady' = steady /\ listed' = listed /\ snapshot' = snapshot
        /\ clock' = clock /\ mishaps' = mishaps
    BY <1>4 DEF provider
  <2>6. /\ job'[j] = r /\ \A k \in Jobs : k # j => job'[k] = job[k]
    BY <2>2, JobRead
  <2>7. \A k \in Jobs, s \in Subscriptions : Handled(k, s)' <=> Handled(k, s)
    BY <2>5 DEF Handled, Bound
  <2>8. StepTyped
    <3>1. StoreTypes' BY <2>2, <2>4, <2>5 DEF PreviewInv, TypeInv, StoreTypes
    <3>2. StripeTypes' BY <2>5 DEF PreviewInv, TypeInv, StripeTypes
    <3>3. QED BY <2>2, <3>1, <3>2 DEF PreviewInv, TypeInv, StepTyped
  <2>9. StoreAdvances
    BY <2>2, <2>4, <2>5, <2>6, <2>7, JobRead DEF StoreAdvances
  <2>10. JobInv'
    <3>1. JobInv BY DEF PreviewInv
    <3>2. job[j].revision \in 1 .. MaxPages + 1 BY <2>2, <3>1 DEF JobInv
    <3>3. r.revision <= MaxPages + 2 /\ r.revision <= MaxPages + 3
      BY <2>4, <3>2, PreviewAssumption
    <3>4. QED BY ONLY <2>2, <2>4, <2>5, <2>6, <3>1, <3>3 DEF JobInv
  <2>11. CommitInv'
    <3>1. CommitInv BY DEF PreviewInv
    <3>2. QED BY ONLY <2>2, <2>4, <2>5, <2>6, <3>1 DEF CommitInv, Ended
  <2>12. FoundInv'
    <3>1. \A s \in Subscriptions : s \in steady[j] => Handled(j, s)
      BY <1>1, <1>2, <1>3, <1>5, PageCovered
    <3>2. FoundInv BY DEF PreviewInv
    <3>3. QED BY ONLY <2>4, <2>5, <2>6, <2>7, <3>1, <3>2 DEF FoundInv
  <2>13. TypeInv' /\ WorkersInv' BY <1>4, <2>8, <2>9, Fails
  <2>14. QED BY <2>10, <2>11, <2>12, <2>13 DEF PreviewInv
<1>6. CASE ~(Unmoved(w) /\ job[j].aggregate = worker[w].seen)
  <2>1. UNCHANGED <<stored, queue, provider>>
    BY <1>3, <1>4, <1>6 DEF Complete, stored
  <2>2. QED BY <1>4, <2>1, KeptTyped, Fails, StoreSteps
<1>7. QED BY <1>5, <1>6

-----------------------------------------------------------------------------
(* The theorems *)

LEMMA InitHolds == Init => PreviewInv
<1> SUFFICES ASSUME Init PROVE PreviewInv OBVIOUS
<1>1. Unused \in JobRecords /\ Unused.state = "none" /\ Unused.revision = 0
      /\ Unused.cursor = 0 /\ Unused.aggregate = EmptyBag
  <2>1. 0 \in 0 .. Cardinality(Subscriptions) BY FS_CardinalityType, PreviewAssumption
  <2>2. PICK empty \in Aggregates : empty = EmptyBag BY EmptyCommitted
  <2>3. Unused = [state |-> "none", revision |-> 0, cursor |-> 0, aggregate |-> empty,
                  dryRun |-> empty, pending |-> 0]
    BY <2>2 DEF Unused
  <2>4. QED BY <2>1, <2>2, <2>3 DEF JobRecords
<1>2. PICK unused \in JobRecords : unused = Unused BY <1>1
<1>3. PICK i \in WorkerRecords : i = Idle BY IdleFits
<1>4. /\ job = [j \in Jobs |-> unused] /\ worker = [w \in Workers |-> i]
      /\ item = [j \in Jobs |-> [s \in Subscriptions |-> NoItem]]
      /\ steady = [j \in Jobs |-> {}]
  BY <1>2, <1>3 DEF Init
<1>5. TypeInv
  <2>1. StoreTypes BY <1>4 DEF Init, StoreTypes
  <2>2. StripeTypes BY <1>4, PreviewAssumption DEF Init, StripeTypes
  <2>3. QED BY <1>4, <2>1, <2>2 DEF Init, TypeInv
<1>6. \A j \in Jobs : job[j] = unused /\ \A s \in Subscriptions : item[j][s] = NoItem
  BY <1>4
<1>7. JobInv BY <1>1, <1>2, <1>6, PreviewAssumption DEF JobInv
<1>8. CommitInv
  <2> SUFFICES ASSUME NEW j \in Jobs PROVE job[j].aggregate = SetToBag(Pairs(item[j]))
    BY <1>1, <1>2, <1>6 DEF CommitInv, Closed
  <2>1. SetToBag(Pairs(item[j])) = EmptyBag BY <1>6, PairsOfNone
  <2>2. QED BY <1>1, <1>2, <1>6, <2>1
<1>9. FoundInv BY <1>4 DEF FoundInv
<1>10. WorkersInv BY <1>3, <1>4, IdleFits DEF WorkersInv
<1>11. QED BY <1>5, <1>7, <1>8, <1>9, <1>10 DEF PreviewInv

LEMMA NextKeeps ==
  ASSUME PreviewInv, Next
  PROVE  PreviewInv'
<1>1. ASSUME NEW j \in Jobs, Create(j) \/ Approve(j) \/ Cancel(j) \/ End(j)
      PROVE  PreviewInv'
  <2>1. CASE Approve(j)
    <3>1. /\ job[j].state = "awaiting_approval"
          /\ job' = [job EXCEPT ![j].state = "running", ![j].revision = @ + 1]
          /\ UNCHANGED <<item, member, active, queue, worker, provider>>
      BY <2>1 DEF Approve
    <3>2. QED BY <3>1, StateKeeps
  <2>2. CASE Cancel(j)
    <3>1. /\ job[j].state \in {"previewing", "awaiting_approval"}
          /\ job' = [job EXCEPT ![j].state = "canceled", ![j].revision = @ + 1]
          /\ UNCHANGED <<item, member, active, queue, worker, provider>>
      BY <2>2 DEF Cancel
    <3>2. QED BY <3>1, StateKeeps
  <2>3. QED BY <1>1, <2>1, <2>2, CreateKeeps, EndKeeps
<1>2. ASSUME NEW w \in Workers, Work(w) \/ Die(w) PROVE PreviewInv'
  BY <1>2, ReceiveKeeps, DiscardKeeps, SelectKeeps, ReadForPutKeeps, PutKeeps, BindKeeps,
     RejectKeeps, AdvanceKeeps, SendKeeps, SummarizeKeeps, CompleteKeeps, DieKeeps DEF Work
<1>3. ASSUME Tick \/ \E s \in Subscriptions : Appear(s) \/ Leave(s) \/ Change(s)
      PROVE  PreviewInv'
  BY <1>3, StripeKeeps
<1>4. QED BY <1>1, <1>2, <1>3 DEF Next

LEMMA StutterKeeps ==
  ASSUME PreviewInv, UNCHANGED vars
  PROVE  PreviewInv'
<1>1. /\ UNCHANGED stored /\ worker' = worker /\ queue' = queue /\ steady' = steady
      /\ UNCHANGED <<stored, queue, provider>>
  BY DEF vars, provider
<1>2. StepTyped /\ StoreAdvances /\ StoreSteady /\ JobInv' /\ CommitInv' BY <1>1, KeptTyped
<1>3. TypeInv' BY <1>1, <1>2 DEF PreviewInv, TypeInv, StepTyped
<1>4. WorkersInv' BY <1>1, <1>2, <1>3, WorkersOn
<1>5. QED BY <1>2, <1>3, <1>4, StoreSteps

\* The inductive invariant, for any jobs, workers, subscriptions and pages.
THEOREM PreviewInductive == Spec => []PreviewInv
<1>1. PreviewInv /\ [Next]_vars => PreviewInv' BY NextKeeps, StutterKeeps
<1>2. QED BY <1>1, InitHolds, PTL DEF Spec

\* The records of the preview keep their types.
THEOREM PreviewTypesHold == Spec => []PreviewTypeOK
<1>1. PreviewInv => PreviewTypeOK
  <2> SUFFICES ASSUME PreviewInv PROVE PreviewTypeOK OBVIOUS
  <2>1. TypeInv /\ JobInv BY DEF PreviewInv
  <2>2. \A B \in Aggregates : IsABag(B) BY BagOfSet DEF Aggregates
  <2>3. ASSUME NEW j \in Jobs
        PROVE  /\ job[j].state \in {"none", "previewing"} \cup Closed \cup Ended
               /\ job[j].revision \in 0 .. MaxPages + 3 /\ job[j].cursor \in Subscriptions \cup {0}
               /\ job[j].pending \in 0 .. Cardinality(Subscriptions)
               /\ IsABag(job[j].aggregate) /\ IsABag(job[j].dryRun)
               /\ member[j] \subseteq Subscriptions /\ steady[j] \subseteq listed
    <3>1. job[j] \in JobRecords /\ job[j].revision \in Nat /\ job[j].revision <= MaxPages + 3
      BY JobRead
    <3>2. job[j].revision \in 0 .. MaxPages + 3 BY <3>1, PreviewAssumption
    <3>3. member[j] \subseteq Subscriptions /\ steady[j] \subseteq listed
      BY <2>1 DEF TypeInv, StoreTypes, StripeTypes
    <3>4. QED BY <2>2, <3>1, <3>2, <3>3 DEF JobRecords
  <2>4. ASSUME NEW w \in Workers
        PROVE  /\ worker[w].at \in {"idle", "select", "read", "put", "bind", "reject",
                                    "send", "complete"}
               /\ worker[w].at # "idle" => worker[w].message \in Message
               /\ worker[w].page \subseteq Subscriptions
               /\ worker[w].next \in Subscriptions \cup {0}
               /\ worker[w].selected \in Item \cup {NoItem}
               /\ worker[w].seenRevision \in 0 .. MaxPages + 3
    <3>1. worker[w] \in WorkerRecords /\ (worker[w].at # "idle" => worker[w].message \in Message)
      BY WorkerRead
    <3>2. QED BY <3>1 DEF WorkerRecords
  <2>5. mishaps \in 0 .. MaxMishaps /\ clock \in 1 .. MaxMishaps + 1
    BY <2>1, PreviewAssumption DEF TypeInv, StripeTypes
  <2>6. QED BY <2>1, <2>3, <2>4, <2>5 DEF PreviewTypeOK, TypeInv, StoreTypes, StripeTypes
<1>2. QED BY <1>1, PreviewInductive, PTL

\* A job's commitment is that of its items (put_preview_item and
\* reject_preview_item carry it along), and a dry run is that commitment.
THEOREM CommitmentsAgree == Spec => []CommitmentAgrees
<1>1. PreviewInv => CommitmentAgrees
  <2> SUFFICES ASSUME PreviewInv PROVE CommitmentAgrees OBVIOUS
  <2>1. \A j \in Jobs : Pairs(item[j]) = {<<s, item[j][s]>> : s \in ItemsOf(j)}
    BY DEF Pairs, ItemsOf
  <2>2. \A j \in Jobs : job[j].state \in {"previewing"} \cup Closed => job[j].state \notin Ended
    BY DEF Closed, Ended
  <2>3. QED BY <2>1, <2>2 DEF PreviewInv, CommitInv, CommitmentAgrees
<1>2. QED BY <1>1, PreviewInductive, PTL

\* A closed preview has an item for every subscription that was listed throughout.
THEOREM CandidatesAreFound == Spec => []NoCandidateMissed
<1>1. PreviewInv => NoCandidateMissed
  <2> SUFFICES ASSUME PreviewInv, NEW j \in Jobs, job[j].state \in Closed,
                      NEW s \in steady[j]
               PROVE  s \in ItemsOf(j)
    BY DEF NoCandidateMissed
  <2>1. s \in Subscriptions BY DEF PreviewInv, TypeInv, StripeTypes
  <2>2. Handled(j, s) BY <2>1 DEF PreviewInv, FoundInv
  <2>3. QED BY <2>1, <2>2 DEF Handled, ItemsOf
<1>2. QED BY <1>1, PreviewInductive, PTL

\* The pending items of a closed preview hold their subscriptions.
THEOREM PendingStaysBound == Spec => []PendingIsBound
<1>1. PreviewInv => PendingIsBound
  <2> SUFFICES ASSUME PreviewInv, NEW j \in Jobs, job[j].state \in Closed,
                      NEW s \in steady[j], item[j][s].state = "pending"
               PROVE  Bound(j, s)
    BY DEF PendingIsBound
  <2>1. s \in Subscriptions BY DEF PreviewInv, TypeInv, StripeTypes
  <2>2. Handled(j, s) BY <2>1 DEF PreviewInv, FoundInv
  <2>3. QED BY <2>2 DEF Handled
<1>2. QED BY <1>1, PreviewInductive, PTL
=============================================================================
