----------------------- MODULE WebhookPipeline_proofs -----------------------
(***************************************************************************)
(* The pipeline beside the registry, for any events, connections and bounds. *)
(*                                                                         *)
(* PipelineInv is the inductive invariant.  FreshInv is the registry's own, *)
(* which no step of the pipeline breaks, not even a deauthorisation between *)
(* two steps of an onboarding.  BaseInv is about the records: the receipt and *)
(* the ingress record of an event agree, the outgoing events carry the     *)
(* revisions of the projection, each exactly one, and the projection is the *)
(* last of them.  FlowInv is about what is under way: which records the stream *)
(* holds, what the worker has decided of the first one, and that its decision *)
(* is still the right one when it is written (CurrentInv), whatever Stripe *)
(* does in between.                                                        *)
(*                                                                         *)
(* The proof has a lemma for every action, over what it writes to one event's *)
(* records (EventMoves, EntryAdded) and to the stream (StreamMoves,        *)
(* StrandedMoves).  The last section shows that the outgoing events implement *)
(* SubscriptionLog.                                                        *)
(***************************************************************************)
EXTENDS WebhookPipeline, ConnectionRegistry_proofs, SequenceTheorems, FiniteSetTheorems

-----------------------------------------------------------------------------
(* The inductive invariant *)

\* The types of the records, without the bounds on the revisions.
RecordsInv ==
  /\ receipt \in [Events ->
       [status : {"none", "received", "processing", "failed"} \cup Terminal,
        revision : Nat, connection : Stripe \cup {NoConnection}]]
  /\ ingress \in [Events ->
       [status : {"none", "pending", "processing", "processed"},
        revision : Nat, attempts : Nat]]
  /\ projection \in [revision : Nat, state : States \cup {"none"},
                     created : 0..MaxClock, event : Events \cup {0}]
  /\ outbox \in [Events ->
       [status : {"none", "pending", "delivering", "delivered"},
        sourceRevision : Nat, tells : Tellings \cup {"none"}]]
  /\ fresh \in SUBSET Events /\ outgoing \in Seq(Events)

StreamHolds(s, r) == \E i \in DOMAIN s : s[i] = r

\* The stream holds records of accepted events, and a worker that runs handles
\* the first.
StreamRecords == [event : Events, revision : Nat, attempts : Nat]
StreamInv ==
  /\ stream \in Seq(StreamRecords)
  /\ \A r \in StreamRecords : StreamHolds(stream, r) => receipt[r.event].status # "none"
  /\ worker.pc # "idle" => stream # <<>>

\* What Stripe emitted: in the order of its clock, the subscription's last
\* change last, and nothing is received that was not emitted.
StripeInv ==
  /\ clock \in 0..MaxClock /\ subscription \in States
  /\ event \in [Events -> [kind : {"none", "subscription", "deauthorized"},
                           created : 0..MaxClock, account : Accounts \cup {NoAccount}]]
  /\ \A e \in Events : event[e].created <= clock
  /\ \A e \in Events : receipt[e].status # "none" =>
       event[e].kind # "none" /\ receipt[e].connection \in Stripe
  /\ latest # NoEvent =>
       /\ latest \in Events /\ Sold(latest)
       /\ \A e \in Events : Sold(e) => event[e].created <= event[latest].created

\* What a worker has decided of the event it handles.
WorkerRecords ==
  [pc : {"idle", "claimed", "retrieved", "unmapped", "planned"}, revision : Nat,
   attempts : Nat, connection : Nat, seen : States \cup {"none"},
   decision : Terminal \cup {"none"}, stale : BOOLEAN]
WorkerInv ==
  /\ worker \in WorkerRecords
  /\ worker.pc # "idle" => ingress[Handled].status \in {"pending", "processing"}
  /\ worker.pc = "retrieved" => event[Handled].kind = "deauthorized"
  /\ worker.pc = "planned" =>
       /\ worker.decision \in Terminal
       /\ ~worker.stale => /\ Sold(Handled) /\ worker.decision = "processed"
                           /\ worker.seen \in States /\ worker.seen # projection.state
       /\ worker.decision = "processed" /\ event[Handled].kind = "deauthorized" =>
            receipt[Handled].connection \in lost

\* A connection whose deauthorisation was processed has lost its account.
RevokedAreLost ==
  \A e \in Events : event[e].kind = "deauthorized" /\ receipt[e].status = "processed" =>
    receipt[e].connection \in lost

\* The outgoing events carry the revisions of the projection, each exactly one,
\* and the projection is the last of them.
Entered == {e \in Events : outbox[e].status # "none"}
RevisionsInv ==
  /\ projection.revision = Cardinality(Entered)
  /\ \A e \in Events \ Entered : outbox[e].sourceRevision = 0
  /\ \A e \in Entered : /\ Sold(e) /\ ingress[e].status = "processed"
                        /\ outbox[e].sourceRevision \in 1..projection.revision
                        /\ outbox[e].tells \in Tellings
  /\ \A e, f \in Entered : outbox[e].sourceRevision = outbox[f].sourceRevision => e = f
  /\ \A n \in 1..projection.revision : \E e \in Entered : outbox[e].sourceRevision = n
LastInv ==
  /\ projection.revision = 0 => projection = NoProjection
  /\ projection.revision # 0 =>
       /\ projection.event \in Entered
       /\ outbox[projection.event].sourceRevision = projection.revision
       /\ projection.state \in States
       /\ outbox[projection.event].tells = Told[projection.state]
       /\ event[projection.event].created = projection.created

\* Once the last change is settled, neither the projection nor what the worker
\* is about to write shows an older state.
LastIsNewest ==
  /\ latest # NoEvent
  /\ \A e \in Events : Sold(e) /\ e > latest => event[e].created < event[latest].created
Followed == receipt[latest].status \in {"processed", "ignored"}
Deciding == worker.pc = "planned" /\ Handled = latest
            /\ worker.decision \in {"processed", "ignored"}
CurrentInv ==
  LastIsNewest =>
    /\ Followed => projection.state = subscription
    /\ (Followed \/ Deciding) /\ worker.pc = "planned" /\ ~worker.stale =>
         worker.seen = subscription
    /\ Deciding /\ worker.stale => projection.state = subscription

\* The relay's stream holds written events; the one that it has claimed is not
\* marked before it was sent.
RelayInv ==
  /\ \A e \in Events : StreamHolds(outgoing, e) => outbox[e].status # "none"
  /\ OutboxRelayed
  /\ relay \in {"idle", "claimed", "published"}
  /\ relay # "idle" => outgoing # <<>> /\ outbox[Sending].status = "delivering"
  /\ relay = "published" => Sending \in published

\* What does not depend on the worker's progress, and what does.
BaseInv == /\ RecordsInv /\ StripeInv /\ ReceiptsAgree /\ RevokedAreLost
           /\ RevisionsInv /\ LastInv /\ RelayInv
FlowInv == StreamInv /\ WorkerInv /\ NothingStranded /\ CurrentInv
PipelineInv == FreshInv /\ BaseInv /\ FlowInv

-----------------------------------------------------------------------------
(* The stream *)

\* What a stream holds once a record follows it, or its first is gone.
LEMMA AppendHolds ==
  ASSUME NEW S, NEW s \in Seq(S), NEW x \in S
  PROVE  /\ Append(s, x) \in Seq(S) /\ Append(s, x) # <<>>
         /\ \A r : StreamHolds(Append(s, x), r) <=> StreamHolds(s, r) \/ r = x
         /\ s # <<>> => Head(Append(s, x)) = Head(s)
<1>1. /\ Append(s, x) \in Seq(S) /\ Append(s, x) # <<>> /\ Len(Append(s, x)) = Len(s) + 1
      /\ \A i \in 1..Len(s) : Append(s, x)[i] = s[i]
      /\ Append(s, x)[Len(s) + 1] = x
  BY AppendProperties
<1>2. DOMAIN s = 1..Len(s) /\ DOMAIN Append(s, x) = 1..(Len(s) + 1) /\ Len(s) \in Nat
  BY <1>1
<1>3. 1..(Len(s) + 1) = 1..Len(s) \cup {Len(s) + 1} BY <1>2
<1>4. \A r : StreamHolds(Append(s, x), r) <=> StreamHolds(s, r) \/ r = x
  BY <1>1, <1>2, <1>3 DEF StreamHolds
<1>5. s # <<>> => Head(Append(s, x)) = Head(s)
  BY HeadTailAppend
<1>6. QED BY <1>1, <1>4, <1>5

LEMMA TailHolds ==
  ASSUME NEW S, NEW s \in Seq(S), s # <<>>
  PROVE  /\ Tail(s) \in Seq(S) /\ Head(s) \in S
         /\ \A r : StreamHolds(s, r) <=> r = Head(s) \/ StreamHolds(Tail(s), r)
<1>1. /\ Head(s) \in S /\ Tail(s) \in Seq(S) /\ Len(Tail(s)) = Len(s) - 1
      /\ \A i \in 1..Len(Tail(s)) : Tail(s)[i] = s[i + 1]
  BY HeadTailProperties
<1>2. Len(s) \in Nat \ {0} /\ DOMAIN s = 1..Len(s) /\ DOMAIN Tail(s) = 1..(Len(s) - 1)
  BY <1>1, EmptySeq
<1>3. Head(s) = s[1] OBVIOUS
<1>4. ASSUME NEW r, StreamHolds(s, r) PROVE r = Head(s) \/ StreamHolds(Tail(s), r)
  <2>1. PICK i \in 1..Len(s) : s[i] = r BY <1>2, <1>4 DEF StreamHolds
  <2>2. CASE i = 1 BY <1>3, <2>1, <2>2
  <2>3. CASE i # 1
    <3>1. i - 1 \in 1..(Len(s) - 1) /\ (i - 1) + 1 = i BY <1>2, <2>3
    <3>2. Tail(s)[i - 1] = r BY <1>1, <2>1, <3>1
    <3>3. QED BY <1>2, <3>1, <3>2 DEF StreamHolds
  <2>4. QED BY <2>2, <2>3
<1>5. ASSUME NEW r, StreamHolds(Tail(s), r) PROVE StreamHolds(s, r)
  <2>1. PICK i \in 1..(Len(s) - 1) : Tail(s)[i] = r BY <1>2, <1>5 DEF StreamHolds
  <2>2. s[i + 1] = r /\ i + 1 \in 1..Len(s) BY <1>1, <1>2, <2>1
  <2>3. QED BY <1>2, <2>2 DEF StreamHolds
<1>6. StreamHolds(s, Head(s)) BY <1>2, <1>3 DEF StreamHolds
<1>7. QED BY <1>1, <1>4, <1>5, <1>6

LEMMA HeadRecord ==
  ASSUME StreamInv, stream # <<>>
  PROVE  /\ Handling \in StreamRecords /\ Handled \in Events /\ StreamHolds(stream, Handling)
         /\ receipt[Handled].status # "none"
<1>1. Handling \in StreamRecords /\ StreamHolds(stream, Handling)
  BY TailHolds DEF StreamInv, Handling
<1>2. QED BY <1>1 DEF StreamInv, Handled, StreamRecords

\* Nothing is stranded when every event that is not settled has a record that
\* can be claimed, wherever it is in the stream.
Ready(r) == Claimable(r) \/ Claimed(r)
LEMMA StrandedBy ==
  ASSUME stream \in Seq(StreamRecords)
  PROVE  NothingStranded <=>
           \A e \in Events :
             ingress[e].status \in {"pending", "processing"} /\ e \notin givenUp =>
               \E r \in StreamRecords : StreamHolds(stream, r) /\ r.event = e /\ Ready(r)
<1>1. \A i \in DOMAIN stream : stream[i] \in StreamRecords OBVIOUS
<1>2. QED BY <1>1 DEF NothingStranded, StreamHolds, Ready

LEMMA StrandedFrom ==
  ASSUME stream' \in Seq(StreamRecords),
         \A e \in Events :
           ingress'[e].status \in {"pending", "processing"} /\ e \notin givenUp' =>
             \E r \in StreamRecords : StreamHolds(stream', r) /\ r.event = e /\ Ready(r)'
  PROVE  NothingStranded'
<1>1. \A r : StreamHolds(stream', r) => \E i \in DOMAIN stream' : stream'[i] = r
  BY DEF StreamHolds
<1>2. QED BY <1>1 DEF NothingStranded, Ready

-----------------------------------------------------------------------------
(* Steps that leave the records as they are *)

recordVars == <<clock, subscription, event, latest, fresh, receipt, ingress,
                projection, outbox, outgoing, relay, published, undelivered>>

LEMMA BaseKept ==
  ASSUME BaseInv, UNCHANGED recordVars, lost \subseteq lost'
  PROVE  BaseInv'
<1> USE DEF recordVars, BaseInv
<1>1. RecordsInv' BY DEF RecordsInv
<1>2. StripeInv' BY DEF StripeInv, Sold
<1>3. ReceiptsAgree' BY DEF ReceiptsAgree
<1>4. RevokedAreLost' BY DEF RevokedAreLost
<1>5. Entered' = Entered BY DEF Entered
<1>6. RevisionsInv' BY <1>5 DEF RevisionsInv, Sold
<1>7. LastInv' BY <1>5 DEF LastInv
<1>8. RelayInv' BY DEF RelayInv, OutboxRelayed, Sending, StreamHolds
<1>9. QED BY <1>1, <1>2, <1>3, <1>4, <1>6, <1>7, <1>8

\* The worker, too.
LEMMA FlowKept ==
  ASSUME FlowInv, UNCHANGED recordVars, lost \subseteq lost',
         UNCHANGED <<stream, worker, givenUp>>
  PROVE  FlowInv'
<1> USE DEF recordVars, FlowInv
<1>1. StreamInv' BY DEF StreamInv
<1>2. Handled' = Handled BY DEF Handled, Handling
<1>3. WorkerInv' BY <1>2 DEF WorkerInv, Sold
<1>4. NothingStranded' BY DEF NothingStranded, Claimable, Claimed
<1>5. CurrentInv' BY <1>2 DEF CurrentInv, LastIsNewest, Followed, Deciding, Sold
<1>6. QED BY <1>1, <1>3, <1>4, <1>5

\* A worker's step on the record it handles.
LEMMA WorkerMoves ==
  ASSUME FlowInv, UNCHANGED recordVars, UNCHANGED <<stream, givenUp>>, stream # <<>>,
         WorkerInv', CurrentInv'
  PROVE  FlowInv'
<1> USE DEF recordVars, FlowInv
<1>1. StreamInv' BY DEF StreamInv
<1>2. NothingStranded' BY DEF NothingStranded, Claimable, Claimed
<1>3. QED BY <1>1, <1>2

\* An idle worker has decided nothing.
LEMMA IdleFlow ==
  ASSUME worker' = IdleWorker
  PROVE  WorkerInv' /\ (CurrentInv' <=> (LastIsNewest /\ Followed => projection.state = subscription)')
<1>1. IdleWorker \in WorkerRecords /\ IdleWorker.pc = "idle"
  BY DEF IdleWorker, WorkerRecords
<1>2. QED BY <1>1 DEF WorkerInv, CurrentInv, Deciding

\* A failed invocation, and the end of one that has nothing left to do.
LEMMA WorkerEnds ==
  ASSUME FlowInv, UNCHANGED recordVars, worker' = IdleWorker, stream # <<>>,
         \/ UNCHANGED <<stream, givenUp>>
         \/ /\ stream' = Tail(stream)
            /\ \/ givenUp' = givenUp \cup {Handled}
               \/ givenUp' = givenUp /\ ingress[Handled].status = "processed"
  PROVE  FlowInv'
<1> USE DEF recordVars, FlowInv
<1>1. WorkerInv' BY IdleFlow
<1>2. CurrentInv'
  <2>1. (LastIsNewest /\ Followed => projection.state = subscription)'
    BY DEF CurrentInv, LastIsNewest, Followed, Sold
  <2>2. QED BY <2>1, IdleFlow
<1>3. StreamInv'
  <2>1. stream \in Seq(StreamRecords) BY DEF StreamInv
  <2>2. stream' \in Seq(StreamRecords) /\ \A r : StreamHolds(stream', r) => StreamHolds(stream, r)
    <3>1. /\ Tail(stream) \in Seq(StreamRecords)
          /\ \A r : StreamHolds(Tail(stream), r) => StreamHolds(stream, r)
      BY <2>1, TailHolds
    <3>2. stream' = stream \/ stream' = Tail(stream) OBVIOUS
    <3>3. CASE stream' = stream BY <2>1, <3>3
    <3>4. CASE stream' = Tail(stream) BY <3>1, <3>4
    <3>5. QED BY <3>2, <3>3, <3>4
  <2>3. worker'.pc = "idle" BY DEF IdleWorker
  <2>4. QED BY <2>2, <2>3 DEF StreamInv
<1>4. NothingStranded'
  <2>1. CASE UNCHANGED <<stream, givenUp>>
    BY <2>1 DEF NothingStranded, Claimable, Claimed
  <2>2. CASE /\ stream' = Tail(stream)
             /\ \/ givenUp' = givenUp \cup {Handled}
                \/ givenUp' = givenUp /\ ingress[Handled].status = "processed"
    <3>1. stream \in Seq(StreamRecords) /\ stream' \in Seq(StreamRecords)
      BY <1>3 DEF StreamInv
    <3>2. ASSUME NEW e \in Events, ingress[e].status \in {"pending", "processing"},
                 e \notin givenUp'
          PROVE  \E r \in StreamRecords : StreamHolds(stream', r) /\ r.event = e /\ Ready(r)
      <4>1. PICK r \in StreamRecords : StreamHolds(stream, r) /\ r.event = e /\ Ready(r)
        BY <2>2, <3>1, <3>2, StrandedBy
      <4>2. e # Handled BY <2>2, <3>2
      <4>3. r # Head(stream) BY <4>1, <4>2 DEF Handled, Handling
      <4>4. StreamHolds(stream', r) BY <2>2, <3>1, <4>1, <4>3, TailHolds
      <4>5. QED BY <4>1, <4>4
    <3>3. \A e \in Events :
            ingress'[e].status \in {"pending", "processing"} /\ e \notin givenUp' =>
              \E r \in StreamRecords : StreamHolds(stream', r) /\ r.event = e /\ Ready(r)'
      BY <3>2 DEF Ready, Claimable, Claimed
    <3>4. QED BY <3>1, <3>3, StrandedFrom
  <2>3. QED BY <2>1, <2>2
<1>5. QED BY <1>1, <1>2, <1>3, <1>4

-----------------------------------------------------------------------------
(* The worker: decisions *)

\* The latest change comes after everything the projection has seen of the
\* others.
LEMMA LatestIsNewer ==
  ASSUME PipelineAssumption, BaseInv, LastIsNewest, ingress[latest].status # "processed"
  PROVE  Newer(latest)
<1> USE DEF BaseInv
<1>1. latest \in Events /\ Sold(latest) /\ event[latest].created \in Nat /\ latest \in Nat \ {0}
  <2>1. latest \in Events /\ Sold(latest) BY DEF StripeInv, LastIsNewest
  <2>2. event[latest].created \in 0..MaxClock BY <2>1 DEF StripeInv
  <2>3. 0..MaxClock \subseteq Nat /\ Events \subseteq Nat \ {0} BY DEF PipelineAssumption
  <2>4. QED BY <2>1, <2>2, <2>3
<1>2. CASE projection.revision = 0
  <2>1. projection.created = 0 /\ projection.event = 0
    BY <1>2 DEF LastInv, NoProjection
  <2>2. QED BY <1>1, <2>1 DEF Newer
<1>3. CASE projection.revision # 0
  <2> DEFINE p == projection.event
  <2>1. p \in Entered /\ event[p].created = projection.created
    BY <1>3 DEF LastInv
  <2>2. p \in Events /\ Sold(p) /\ ingress[p].status = "processed"
    BY <2>1 DEF RevisionsInv, Entered
  <2>3. event[p].created \in Nat /\ p \in Nat /\ event[p].created <= event[latest].created
    <3>1. event[p].created \in 0..MaxClock BY <2>2 DEF StripeInv
    <3>2. 0..MaxClock \subseteq Nat /\ Events \subseteq Nat BY DEF PipelineAssumption
    <3>3. event[p].created <= event[latest].created BY <2>2 DEF StripeInv, LastIsNewest
    <3>4. QED BY <2>2, <3>1, <3>2, <3>3
  <2>4. p > latest => event[p].created < event[latest].created
    BY <2>2 DEF LastIsNewest
  <2>5. p # latest BY <2>2
  <2>6. event[latest].created > event[p].created
        \/ (event[latest].created = event[p].created /\ latest > p)
    <3> DEFINE x == event[p].created
               y == event[latest].created
    <3>1. x \in Nat /\ y \in Nat /\ x <= y BY <1>1, <2>3
    <3>2. p > latest => x < y BY <2>4
    <3> HIDE DEF x, y, p
    <3>3. y > x \/ (y = x /\ latest > p) BY <1>1, <2>3, <2>5, <3>1, <3>2
    <3>4. QED BY <3>3 DEF x, y, p
  <2>7. QED BY <2>1, <2>6 DEF Newer
<1>4. QED BY <1>2, <1>3

\* What a running worker knows of its record.
LEMMA Working ==
  ASSUME PipelineInv, worker.pc # "idle"
  PROVE  /\ stream # <<>> /\ Handled \in Events /\ Handling \in StreamRecords
         /\ StreamHolds(stream, Handling)
         /\ ingress[Handled].status \in {"pending", "processing"}
         /\ receipt[Handled].status # "none" /\ receipt[Handled].connection \in Stripe
         /\ event[Handled].kind # "none"
<1>1. stream # <<>> BY DEF PipelineInv, FlowInv, StreamInv
<1>2. QED
  BY <1>1, HeadRecord DEF PipelineInv, FlowInv, BaseInv, StripeInv, WorkerInv

\* A step of the worker that decides nothing.
LEMMA Undecided ==
  ASSUME PipelineInv, UNCHANGED recordVars, UNCHANGED <<stream, givenUp>>,
         lost \subseteq lost', worker.pc # "idle", worker' \in WorkerRecords,
         worker'.pc \in {"claimed", "retrieved", "unmapped"},
         worker'.pc = "retrieved" => event[Handled].kind = "deauthorized"
  PROVE  BaseInv' /\ FlowInv'
<1> USE DEF PipelineInv, recordVars
<1>1. BaseInv' BY BaseKept
<1>2. Handled' = Handled BY DEF Handled, Handling
<1>3. WorkerInv' BY <1>2, Working DEF WorkerInv
<1>4. CurrentInv'
  BY DEF FlowInv, CurrentInv, LastIsNewest, Followed, Deciding, Sold
<1>5. QED BY <1>1, <1>3, <1>4, Working, WorkerMoves

\* One that decides, for good reason.
LEMMA Decided ==
  ASSUME PipelineInv, UNCHANGED recordVars, UNCHANGED <<stream, givenUp>>,
         lost \subseteq lost', worker.pc # "idle", worker' \in WorkerRecords,
         worker'.pc = "planned", worker'.decision \in Terminal,
         ~worker'.stale => /\ Sold(Handled) /\ worker'.decision = "processed"
                           /\ worker'.seen \in States /\ worker'.seen # projection.state
                           /\ worker'.seen = subscription,
         worker'.decision = "processed" /\ event[Handled].kind = "deauthorized" =>
           receipt[Handled].connection \in lost',
         Sold(Handled) /\ worker'.stale /\ worker'.decision \in {"processed", "ignored"} =>
           ~Newer(Handled) \/ projection.state = subscription
  PROVE  BaseInv' /\ FlowInv'
<1> USE DEF PipelineInv, recordVars
<1>1. BaseInv' BY BaseKept
<1>2. Handled' = Handled BY DEF Handled, Handling
<1>3. WorkerInv' BY <1>2, Working DEF WorkerInv, Sold
<1>4. CurrentInv'
  <2>1. LastIsNewest' => LastIsNewest BY DEF LastIsNewest, Sold
  <2>2. Followed' <=> Followed BY DEF Followed
  <2>3. LastIsNewest /\ Followed => projection.state = subscription
    BY DEF FlowInv, CurrentInv
  <2>4. ASSUME LastIsNewest, Deciding', worker'.stale PROVE projection.state = subscription
    <3>1. Handled = latest /\ worker'.decision \in {"processed", "ignored"} BY <1>2, <2>4 DEF Deciding
    <3>2. Sold(Handled) BY <2>4, <3>1 DEF BaseInv, StripeInv, LastIsNewest
    <3>3. Newer(Handled)
      BY <2>4, <3>1, Working, LatestIsNewer, PipelineAssumption
    <3>4. QED BY <2>4, <3>1, <3>2, <3>3
  <2>5. QED BY <2>1, <2>2, <2>3, <2>4 DEF CurrentInv
<1>5. QED BY <1>1, <1>3, <1>4, Working, WorkerMoves

LEMMA RetrieveInv ==
  ASSUME PipelineInv, RetrieveRevoked PROVE BaseInv' /\ FlowInv'
<1> DEFINE c == receipt[Handled].connection
<1>1. worker.pc = "claimed" BY DEF RetrieveRevoked, Retrievable
<1>2. c \in Connections BY <1>1, Working DEF Connections
<1>3. conn[c].revision \in Nat
  BY <1>2, ConnectionRead DEF PipelineInv, FreshInv, RegistryInv
<1>4. worker' \in WorkerRecords /\ worker'.pc = "retrieved"
  BY <1>3 DEF RetrieveRevoked, PipelineInv, FlowInv, WorkerInv, WorkerRecords
<1>5. event[Handled].kind = "deauthorized" BY DEF RetrieveRevoked
<1>6. UNCHANGED recordVars /\ UNCHANGED <<stream, givenUp, lost>>
  BY DEF RetrieveRevoked, recordVars, stripeVars, relayVars, registryVars
<1>7. QED BY <1>1, <1>4, <1>5, <1>6, Undecided

LEMMA PlanInv ==
  ASSUME PipelineInv, Plan PROVE BaseInv' /\ FlowInv'
<1>1. worker.pc = "claimed" /\ Sold(Handled) BY DEF Plan, Retrievable, Sold
<1>2. UNCHANGED recordVars /\ UNCHANGED <<stream, givenUp, lost>>
  BY DEF Plan, recordVars, stripeVars, relayVars, registryVars
<1>3. subscription \in States /\ worker \in WorkerRecords
  BY DEF PipelineInv, BaseInv, StripeInv, FlowInv, WorkerInv
<1>4. CASE worker' = Reviewed
  <2>1. /\ worker' \in WorkerRecords /\ worker'.pc = "planned"
        /\ worker'.decision = "needs_review" /\ worker'.stale = TRUE
    BY <1>3, <1>4 DEF Reviewed, WorkerRecords, Terminal
  <2>2. QED BY <1>1, <1>2, <2>1, Decided DEF Terminal
<1>5. ASSUME NEW stale \in BOOLEAN, stale <=> (~Newer(Handled) \/ projection.state = subscription),
             worker' = [worker EXCEPT !.pc = "planned", !.stale = stale,
                              !.seen = subscription, !.decision = Decision(stale)]
      PROVE  BaseInv' /\ FlowInv'
  <2>1. Decision(stale) \in {"ignored", "processed"} /\ (~stale => Decision(stale) = "processed")
    BY DEF Decision
  <2>2. /\ worker' \in WorkerRecords /\ worker'.pc = "planned"
        /\ worker'.decision = Decision(stale) /\ worker'.stale = stale
        /\ worker'.seen = subscription
    BY <1>3, <1>5, <2>1 DEF WorkerRecords, Terminal
  <2>3. event[Handled].kind # "deauthorized" BY <1>1 DEF Sold
  <2>4. QED BY <1>1, <1>2, <1>3, <1>5, <2>1, <2>2, <2>3, Decided DEF Terminal
<1>6. QED
  <2> DEFINE s == ~Newer(Handled) \/ projection.state = subscription
  <2>1. s \in BOOLEAN OBVIOUS
  <2>2. \/ worker' = Reviewed
        \/ worker' = [worker EXCEPT !.pc = "planned", !.stale = s,
                              !.seen = subscription, !.decision = Decision(s)]
    BY DEF Plan
  <2>3. QED BY <1>4, <1>5, <2>1, <2>2

LEMMA PlanUnmappedInv ==
  ASSUME PipelineInv, PlanUnmapped PROVE BaseInv' /\ FlowInv'
<1>1. worker.pc = "claimed" /\ Sold(Handled) BY DEF PlanUnmapped, Retrievable, Sold
<1>2. UNCHANGED recordVars /\ UNCHANGED <<stream, givenUp, lost>>
  BY DEF PlanUnmapped, recordVars, stripeVars, relayVars, registryVars
<1>3. worker \in WorkerRecords BY DEF PipelineInv, FlowInv, WorkerInv
<1>4. CASE worker' = Reviewed
  <2>1. /\ worker' \in WorkerRecords /\ worker'.pc = "planned"
        /\ worker'.decision = "needs_review" /\ worker'.stale = TRUE
    BY <1>3, <1>4 DEF Reviewed, WorkerRecords, Terminal
  <2>2. QED BY <1>1, <1>2, <2>1, Decided DEF Terminal
<1>5. CASE worker' = [worker EXCEPT !.pc = "unmapped"]
  <2>1. worker' \in WorkerRecords /\ worker'.pc = "unmapped"
    BY <1>3, <1>5 DEF WorkerRecords
  <2>2. QED BY <1>1, <1>2, <2>1, Undecided
<1>6. CASE worker' = Unmapped
  <2>1. /\ worker' \in WorkerRecords /\ worker'.pc = "planned"
        /\ worker'.decision = "ignored_unmapped" /\ worker'.stale = TRUE
    BY <1>3, <1>6 DEF Unmapped, WorkerRecords, Terminal
  <2>2. QED BY <1>1, <1>2, <2>1, Decided DEF Terminal
<1>7. QED BY <1>4, <1>5, <1>6 DEF PlanUnmapped

\* disable_stripe_account: the connection is lost before the event is settled.
LEMMA DisableRevokedInv ==
  ASSUME PipelineInv, DisableRevoked PROVE BaseInv' /\ FlowInv'
<1>1. worker.pc = "retrieved" BY DEF DisableRevoked
<1>2. UNCHANGED recordVars /\ UNCHANGED <<stream, givenUp>>
  BY DEF DisableRevoked, recordVars, stripeVars, relayVars
<1>3. lost \subseteq lost' /\ receipt[Handled].connection \in lost'
  BY DEF DisableRevoked, DisableAccount
<1>4. event[Handled].kind = "deauthorized"
  BY <1>1 DEF PipelineInv, FlowInv, WorkerInv
<1>5. /\ worker' \in WorkerRecords /\ worker'.pc = "planned"
      /\ worker'.decision = "processed" /\ worker'.stale = TRUE
  BY DEF DisableRevoked, PipelineInv, FlowInv, WorkerInv, WorkerRecords, Terminal
<1>6. ~Sold(Handled) BY <1>4 DEF Sold
<1>7. QED BY <1>1, <1>2, <1>3, <1>4, <1>5, <1>6, Decided DEF Terminal

LEMMA WorkerFailsInv ==
  ASSUME PipelineInv, WorkerFails PROVE BaseInv' /\ FlowInv'
<1>1. UNCHANGED recordVars /\ UNCHANGED lost /\ worker.pc # "idle"
  BY DEF WorkerFails, recordVars, stripeVars, relayVars, registryVars
<1>2. /\ worker' = IdleWorker
      /\ \/ UNCHANGED <<stream, givenUp>>
         \/ stream' = Tail(stream) /\ givenUp' = givenUp \cup {Handled}
  BY DEF WorkerFails, FailRecord, NextRecord
<1>3. stream # <<>> BY <1>1, Working
<1>4. QED BY <1>1, <1>2, <1>3, WorkerEnds, BaseKept DEF PipelineInv

-----------------------------------------------------------------------------
(* The two records of an event *)

ReceiptRecords ==
  [status : {"none", "received", "processing", "failed"} \cup Terminal,
   revision : Nat, connection : Stripe \cup {NoConnection}]
IngressRecords ==
  [status : {"none", "pending", "processing", "processed"}, revision : Nat, attempts : Nat]
Stages ==
  {<<"pending", "received">>, <<"pending", "failed">>, <<"processing", "processing">>}
    \cup ({"processed"} \X Terminal)

LEMMA RecordsRead ==
  ASSUME RecordsInv, NEW e \in Events
  PROVE  ingress[e] \in IngressRecords /\ receipt[e] \in ReceiptRecords
         /\ DOMAIN ingress = Events /\ DOMAIN receipt = Events
BY DEF RecordsInv, IngressRecords, ReceiptRecords

\* What a claim, or another change of status, makes of them.
LEMMA IngressClaimed ==
  ASSUME NEW x \in IngressRecords
  PROVE  LET y == [x EXCEPT !.status = "processing", !.revision = @ + 1, !.attempts = @ + 1]
         IN  y \in IngressRecords /\ y.status = "processing" /\ y.revision = x.revision + 1
<1>1. x.revision + 1 \in Nat /\ x.attempts + 1 \in Nat BY DEF IngressRecords
<1>2. QED BY <1>1 DEF IngressRecords

LEMMA IngressMoved ==
  ASSUME NEW x \in IngressRecords, NEW s \in {"pending", "processing", "processed"}
  PROVE  LET y == [x EXCEPT !.status = s, !.revision = @ + 1]
         IN  y \in IngressRecords /\ y.status = s /\ y.revision = x.revision + 1
<1>1. x.revision + 1 \in Nat BY DEF IngressRecords
<1>2. QED BY <1>1 DEF IngressRecords

LEMMA ReceiptMoved ==
  ASSUME NEW x \in ReceiptRecords, NEW s \in {"received", "processing", "failed"} \cup Terminal
  PROVE  LET y == [x EXCEPT !.status = s, !.revision = @ + 1]
         IN  /\ y \in ReceiptRecords /\ y.status = s /\ y.revision = x.revision + 1
             /\ y.connection = x.connection
<1>1. x.revision + 1 \in Nat BY DEF ReceiptRecords
<1>2. QED BY <1>1 DEF ReceiptRecords

\* The transactions on the receipt and the ingress record of an emitted event
\* that is not settled.
LEMMA EventMoves ==
  ASSUME BaseInv, NEW e \in Events, NEW i \in IngressRecords, NEW r \in ReceiptRecords,
         ingress' = [ingress EXCEPT ![e] = i], receipt' = [receipt EXCEPT ![e] = r],
         r.revision = i.revision, <<i.status, r.status>> \in Stages,
         event[e].kind # "none", r.connection \in Stripe,
         r.status = "processed" /\ event[e].kind = "deauthorized" => r.connection \in lost,
         UNCHANGED <<clock, subscription, event, latest, lost>>
  PROVE  /\ StripeInv' /\ ReceiptsAgree' /\ RevokedAreLost'
         /\ ingress' \in [Events -> IngressRecords] /\ receipt' \in [Events -> ReceiptRecords]
         /\ ingress'[e] = i /\ receipt'[e] = r /\ i.status # "none" /\ r.status # "none"
         /\ \A f \in Events \ {e} : ingress'[f] = ingress[f] /\ receipt'[f] = receipt[f]
<1> USE DEF BaseInv
<1>1. /\ ingress' \in [Events -> IngressRecords] /\ receipt' \in [Events -> ReceiptRecords]
      /\ ingress'[e] = i /\ receipt'[e] = r
      /\ \A f \in Events \ {e} : ingress'[f] = ingress[f] /\ receipt'[f] = receipt[f]
  BY DEF RecordsInv, IngressRecords, ReceiptRecords
<1>2. i.status # "none" /\ r.status # "none" BY DEF Stages, Terminal
<1>3. ReceiptsAgree'
  <2>1. <<i.status, r.status>> \in
         {<<"none", "none">>, <<"pending", "received">>, <<"pending", "failed">>,
          <<"processing", "processing">>} \cup ({"processed"} \X Terminal)
    BY DEF Stages
  <2>2. QED BY <1>1, <2>1 DEF ReceiptsAgree
<1>4. StripeInv'
  <2>1. \A f \in Events : receipt'[f].status # "none" =>
          event[f].kind # "none" /\ receipt'[f].connection \in Stripe
    BY <1>1 DEF StripeInv
  <2>2. QED BY <2>1 DEF StripeInv, Sold
<1>5. RevokedAreLost' BY <1>1 DEF RevokedAreLost
<1>6. QED BY <1>1, <1>2, <1>3, <1>4, <1>5

\* They leave the projection and the outgoing events alone.
LEMMA EntriesKept ==
  ASSUME BaseInv, UNCHANGED <<event, projection, outbox, relayVars>>,
         fresh' \in SUBSET Events,
         ingress' \in [Events -> IngressRecords], receipt' \in [Events -> ReceiptRecords],
         \A f \in Events : ingress[f].status = "processed" => ingress'[f] = ingress[f]
  PROVE  RecordsInv' /\ RevisionsInv' /\ LastInv' /\ RelayInv'
<1> USE DEF BaseInv
<1>1. RecordsInv' BY DEF RecordsInv, IngressRecords, ReceiptRecords, relayVars
<1>2. Entered' = Entered /\ Entered \subseteq Events BY DEF Entered
<1>3. RevisionsInv' BY <1>2 DEF RevisionsInv, Sold
<1>4. LastInv' BY <1>2 DEF LastInv
<1>5. RelayInv' BY DEF RelayInv, OutboxRelayed, Sending, StreamHolds, relayVars
<1>6. QED BY <1>1, <1>3, <1>4, <1>5

\* Only the record of the event that moves has to be found again.
LEMMA StrandedMoves ==
  ASSUME StreamInv, NothingStranded, NEW e \in Events,
         stream' \in Seq(StreamRecords),
         \A f \in Events \ {e} : /\ ingress'[f] = ingress[f] /\ receipt'[f] = receipt[f]
                                 /\ f \notin givenUp' => f \notin givenUp,
         \A r \in StreamRecords : StreamHolds(stream, r) /\ r.event # e => StreamHolds(stream', r),
         ingress'[e].status \in {"pending", "processing"} /\ e \notin givenUp' =>
           \E r \in StreamRecords : StreamHolds(stream', r) /\ r.event = e /\ Ready(r)'
  PROVE  NothingStranded'
<1>1. ASSUME NEW f \in Events, ingress'[f].status \in {"pending", "processing"},
             f \notin givenUp'
      PROVE  \E r \in StreamRecords : StreamHolds(stream', r) /\ r.event = f /\ Ready(r)'
  <2>1. CASE f = e BY <1>1, <2>1
  <2>2. CASE f # e
    <3>1. ingress[f].status \in {"pending", "processing"} /\ f \notin givenUp
      BY <1>1, <2>2
    <3>2. PICK r \in StreamRecords : StreamHolds(stream, r) /\ r.event = f /\ Ready(r)
      BY <3>1, StrandedBy DEF StreamInv
    <3>3. StreamHolds(stream', r) BY <2>2, <3>2
    <3>4. Ready(r)' BY <2>2, <3>2 DEF Ready, Claimable, Claimed
    <3>5. QED BY <3>2, <3>3, <3>4
  <2>3. QED BY <2>1, <2>2
<1>2. QED BY <1>1, StrandedFrom

LEMMA StreamMoves ==
  ASSUME StreamInv, NEW e \in Events, receipt'[e].status # "none",
         \A f \in Events \ {e} : receipt'[f] = receipt[f],
         stream' \in Seq(StreamRecords),
         \A r \in StreamRecords : StreamHolds(stream', r) =>
           StreamHolds(stream, r) \/ r.event = e,
         worker'.pc # "idle" => stream' # <<>>
  PROVE  StreamInv'
<1>1. ASSUME NEW r \in StreamRecords, StreamHolds(stream', r)
      PROVE  receipt'[r.event].status # "none"
  <2>1. r.event \in Events BY DEF StreamRecords
  <2>2. CASE r.event = e BY <2>2
  <2>3. CASE r.event # e BY <1>1, <2>1, <2>3 DEF StreamInv
  <2>4. QED BY <2>2, <2>3
<1>2. QED BY <1>1 DEF StreamInv

-----------------------------------------------------------------------------
(* The worker: transactions *)

LEMMA ClaimInv ==
  ASSUME PipelineInv, ClaimIngress PROVE BaseInv' /\ FlowInv'
<1>0. PICK h, e, i, r, m :
        /\ h = Handling /\ e = Handled
        /\ i = [ingress[e] EXCEPT !.status = "processing", !.revision = @ + 1, !.attempts = @ + 1]
        /\ r = [receipt[e] EXCEPT !.status = "processing", !.revision = @ + 1]
        /\ m = [IdleWorker EXCEPT !.pc = "claimed", !.revision = h.revision + 1,
                                  !.attempts = h.attempts]
  OBVIOUS
<1>1. /\ stream # <<>> /\ worker.pc = "idle"
      /\ UNCHANGED <<clock, subscription, event, latest, fresh, projection, outbox, relayVars,
                     lost>>
  BY DEF ClaimIngress, registryVars, stripeVars
<1>2. BaseInv /\ FlowInv BY DEF PipelineInv
<1>3. /\ h \in StreamRecords /\ e \in Events /\ StreamHolds(stream, h) /\ h.event = e
      /\ receipt[e].status # "none" /\ stream \in Seq(StreamRecords)
  BY <1>0, <1>1, <1>2, HeadRecord DEF FlowInv, StreamInv, Handled
<1>10. m \in WorkerRecords /\ m.pc = "claimed"
  <2>1. IdleWorker \in WorkerRecords BY DEF IdleWorker, WorkerRecords
  <2>2. h.revision \in Nat /\ h.attempts \in Nat BY <1>3 DEF StreamRecords
  <2>3. ASSUME NEW x \in WorkerRecords, NEW n \in Nat, NEW k \in Nat
        PROVE  LET y == [x EXCEPT !.pc = "claimed", !.revision = n, !.attempts = k]
               IN  y \in WorkerRecords /\ y.pc = "claimed"
    BY DEF WorkerRecords
  <2>4. h.revision + 1 \in Nat BY <2>2
  <2>5. QED BY <1>0, <2>1, <2>2, <2>3, <2>4
<1>4. \/ /\ Claimable(h) /\ worker' = m /\ UNCHANGED <<stream, givenUp>>
         /\ ingress' = [ingress EXCEPT ![e] = i] /\ receipt' = [receipt EXCEPT ![e] = r]
      \/ Claimed(h) /\ worker' = m /\ UNCHANGED <<ingress, receipt, stream, givenUp>>
      \/ /\ ingress[e].status = "processed" /\ NextRecord
         /\ UNCHANGED <<ingress, receipt, givenUp>>
      \/ FailRecord /\ UNCHANGED <<ingress, receipt>>
  BY <1>0, <1>3 DEF ClaimIngress, Handled
<1>5. CASE /\ Claimable(h) /\ worker' = m /\ UNCHANGED <<stream, givenUp>>
           /\ ingress' = [ingress EXCEPT ![e] = i] /\ receipt' = [receipt EXCEPT ![e] = r]
  <2>1. /\ ingress[e] \in IngressRecords /\ receipt[e] \in ReceiptRecords
        /\ ingress[e].status = "pending" /\ ingress[e].revision = h.revision
        /\ receipt[e].revision = h.revision
    BY <1>2, <1>3, <1>5, RecordsRead DEF BaseInv, Claimable
  <2>2. /\ i \in IngressRecords /\ i.status = "processing" /\ i.revision = h.revision + 1
        /\ r \in ReceiptRecords /\ r.status = "processing" /\ r.revision = h.revision + 1
        /\ r.connection = receipt[e].connection
    <3>1. /\ i = [ingress[e] EXCEPT !.status = "processing", !.revision = @ + 1, !.attempts = @ + 1]
          /\ r = [receipt[e] EXCEPT !.status = "processing", !.revision = @ + 1]
      BY <1>0
    <3>2. /\ i \in IngressRecords /\ i.status = "processing"
          /\ i.revision = ingress[e].revision + 1
      BY <2>1, <3>1, IngressClaimed
    <3>3. /\ r \in ReceiptRecords /\ r.status = "processing"
          /\ r.revision = receipt[e].revision + 1 /\ r.connection = receipt[e].connection
      BY <2>1, <3>1, ReceiptMoved
    <3>4. QED BY <2>1, <3>2, <3>3
  <2>3. <<i.status, r.status>> \in Stages BY <2>2 DEF Stages
  <2>4. event[e].kind # "none" /\ r.connection \in Stripe
    BY <1>2, <1>3, <2>2 DEF BaseInv, StripeInv
  <2>5. /\ StripeInv' /\ ReceiptsAgree' /\ RevokedAreLost'
        /\ ingress' \in [Events -> IngressRecords] /\ receipt' \in [Events -> ReceiptRecords]
        /\ ingress'[e] = i /\ receipt'[e] = r
        /\ \A f \in Events \ {e} : ingress'[f] = ingress[f] /\ receipt'[f] = receipt[f]
    BY <1>1, <1>2, <1>3, <1>5, <2>2, <2>3, <2>4, EventMoves
  <2>6. RecordsInv' /\ RevisionsInv' /\ LastInv' /\ RelayInv'
    <3>1. \A f \in Events : ingress[f].status = "processed" => ingress'[f] = ingress[f]
      BY <2>1, <2>5
    <3>2. fresh' \in SUBSET Events BY <1>1, <1>2 DEF BaseInv, RecordsInv
    <3>3. QED BY <1>1, <1>2, <2>5, <3>1, <3>2, EntriesKept
  <2>7. StreamInv'
    BY <1>1, <1>2, <1>3, <1>5, <2>2, <2>5, StreamMoves DEF FlowInv
  <2>8. NothingStranded'
    <3>1. Ready(h)' BY <1>3, <2>2, <2>5 DEF Ready, Claimed
    <3>2. QED BY <1>2, <1>3, <1>5, <2>5, <3>1, StrandedMoves DEF FlowInv
  <2>9. Handled' = e BY <1>0, <1>5 DEF Handled, Handling
  <2>10. WorkerInv' BY <1>10, <1>5, <2>2, <2>5, <2>9 DEF WorkerInv
  <2>11. CurrentInv'
    <3>1. LastIsNewest' => LastIsNewest BY <1>1 DEF LastIsNewest, Sold
    <3>2. LastIsNewest /\ Followed' => Followed
      BY <1>1, <1>2, <1>3, <2>2, <2>5 DEF Followed, LastIsNewest, BaseInv, StripeInv
    <3>3. worker'.pc = "claimed" BY <1>10, <1>5
    <3>4. QED BY <1>1, <1>2, <3>1, <3>2, <3>3 DEF CurrentInv, Deciding, FlowInv
  <2>12. QED BY <2>5, <2>6, <2>7, <2>8, <2>10, <2>11 DEF BaseInv, FlowInv
<1>6. CASE Claimed(h) /\ worker' = m /\ UNCHANGED <<ingress, receipt, stream, givenUp>>
  <2>1. UNCHANGED recordVars BY <1>1, <1>6 DEF recordVars, relayVars
  <2>2. Handled' = e /\ ingress[e].status = "processing"
    BY <1>0, <1>3, <1>6 DEF Handled, Handling, Claimed
  <2>3. WorkerInv' BY <1>10, <1>6, <2>2 DEF WorkerInv
  <2>4. CurrentInv'
    BY <1>1, <1>2, <1>10, <1>6 DEF CurrentInv, LastIsNewest, Followed, Deciding, Sold, FlowInv
  <2>5. QED BY <1>1, <1>2, <1>6, <2>1, <2>3, <2>4, WorkerMoves, BaseKept
<1>7. CASE /\ ingress[e].status = "processed" /\ NextRecord
           /\ UNCHANGED <<ingress, receipt, givenUp>>
  <2>1. UNCHANGED recordVars BY <1>1, <1>7 DEF recordVars, relayVars
  <2>2. QED BY <1>0, <1>1, <1>2, <1>7, <2>1, WorkerEnds, BaseKept DEF NextRecord
<1>8. CASE FailRecord /\ UNCHANGED <<ingress, receipt>>
  <2>1. UNCHANGED recordVars BY <1>1, <1>8 DEF recordVars, relayVars
  <2>2. QED BY <1>0, <1>1, <1>2, <1>8, <2>1, WorkerEnds, BaseKept DEF FailRecord, NextRecord
<1>9. QED BY <1>4, <1>5, <1>6, <1>7, <1>8

\* The record that a retry appends can be claimed.
LEMMA RetryInv ==
  ASSUME PipelineInv, RetryIngress PROVE BaseInv' /\ FlowInv'
<1>0. PICK h, e, i, r, next :
        /\ h = Handling /\ e = Handled
        /\ i = [ingress[e] EXCEPT !.status = "pending", !.revision = @ + 1]
        /\ r = [receipt[e] EXCEPT !.status = "failed", !.revision = @ + 1]
        /\ next = Record(e, ingress[e].revision + 1, ingress[e].attempts)
  OBVIOUS
<1>1. /\ worker.pc = "unmapped" /\ worker' = IdleWorker
      /\ ingress' = [ingress EXCEPT ![e] = i] /\ receipt' = [receipt EXCEPT ![e] = r]
      /\ stream' \in {Append(stream, next), Append(Tail(stream), next)}
      /\ StillClaimed(e)
  BY <1>0 DEF RetryIngress
<1>2. UNCHANGED <<clock, subscription, event, latest, fresh, projection, outbox, relayVars,
                  lost, givenUp>>
  BY DEF RetryIngress, registryVars, stripeVars
<1>3. BaseInv /\ FlowInv BY DEF PipelineInv
<1>4. /\ stream # <<>> /\ stream \in Seq(StreamRecords) /\ e \in Events
      /\ h = Head(stream) /\ h.event = e /\ receipt[e].connection \in Stripe
      /\ event[e].kind # "none"
  BY <1>0, <1>1, <1>3, Working DEF FlowInv, StreamInv, Handled, Handling
<1>5. ingress[e] \in IngressRecords /\ receipt[e] \in ReceiptRecords
  BY <1>3, <1>4, RecordsRead DEF BaseInv
<1>6. /\ i \in IngressRecords /\ i.status = "pending" /\ i.revision = ingress[e].revision + 1
      /\ r \in ReceiptRecords /\ r.status = "failed" /\ r.revision = receipt[e].revision + 1
      /\ r.connection = receipt[e].connection
  <2>1. /\ i = [ingress[e] EXCEPT !.status = "pending", !.revision = @ + 1]
        /\ r = [receipt[e] EXCEPT !.status = "failed", !.revision = @ + 1]
    BY <1>0
  <2>2. i \in IngressRecords /\ i.status = "pending" /\ i.revision = ingress[e].revision + 1
    BY <1>5, <2>1, IngressMoved
  <2>3. /\ r \in ReceiptRecords /\ r.status = "failed" /\ r.revision = receipt[e].revision + 1
        /\ r.connection = receipt[e].connection
    BY <1>5, <2>1, ReceiptMoved
  <2>4. QED BY <2>2, <2>3
<1>7. ingress[e].status = "processing" /\ receipt[e].revision = ingress[e].revision
  BY <1>1, <1>3, <1>4 DEF StillClaimed, BaseInv, ReceiptsAgree
<1>8. next \in StreamRecords /\ next.event = e /\ next.revision = i.revision
  BY <1>0, <1>4, <1>5, <1>6 DEF Record, StreamRecords, IngressRecords
<1>9. <<i.status, r.status>> \in Stages BY <1>6 DEF Stages
<1>10. /\ StripeInv' /\ ReceiptsAgree' /\ RevokedAreLost'
       /\ ingress' \in [Events -> IngressRecords] /\ receipt' \in [Events -> ReceiptRecords]
       /\ ingress'[e] = i /\ receipt'[e] = r
       /\ \A f \in Events \ {e} : ingress'[f] = ingress[f] /\ receipt'[f] = receipt[f]
  <2>1. /\ r.revision = i.revision /\ r.connection \in Stripe
        /\ r.status = "processed" /\ event[e].kind = "deauthorized" => r.connection \in lost
    BY <1>4, <1>6, <1>7
  <2>2. BaseInv /\ UNCHANGED <<clock, subscription, event, latest, lost>> BY <1>2, <1>3
  <2>3. /\ ingress' = [ingress EXCEPT ![e] = i] /\ receipt' = [receipt EXCEPT ![e] = r]
        /\ i \in IngressRecords /\ r \in ReceiptRecords
    BY <1>1, <1>6
  <2>4. QED BY <1>4, <1>9, <2>1, <2>2, <2>3, EventMoves
<1>11. RecordsInv' /\ RevisionsInv' /\ LastInv' /\ RelayInv'
  <2>1. \A f \in Events : ingress[f].status = "processed" => ingress'[f] = ingress[f]
    BY <1>7, <1>10
  <2>2. fresh' \in SUBSET Events BY <1>2, <1>3 DEF BaseInv, RecordsInv
  <2>3. QED BY <1>2, <1>3, <1>10, <2>1, <2>2, EntriesKept
<1>12. /\ stream' \in Seq(StreamRecords) /\ StreamHolds(stream', next)
       /\ \A x : StreamHolds(stream', x) => StreamHolds(stream, x) \/ x = next
       /\ \A x : StreamHolds(stream, x) /\ x # h => StreamHolds(stream', x)
  <2>1. CASE stream' = Append(stream, next)
    <3>1. /\ Append(stream, next) \in Seq(StreamRecords)
          /\ \A x : StreamHolds(Append(stream, next), x) <=> StreamHolds(stream, x) \/ x = next
      BY <1>4, <1>8, AppendHolds
    <3>2. QED BY <2>1, <3>1
  <2>2. CASE stream' = Append(Tail(stream), next)
    <3>1. /\ Tail(stream) \in Seq(StreamRecords)
          /\ \A x : StreamHolds(stream, x) <=> x = Head(stream) \/ StreamHolds(Tail(stream), x)
      BY <1>4, TailHolds
    <3>2. /\ Append(Tail(stream), next) \in Seq(StreamRecords)
          /\ \A x : StreamHolds(Append(Tail(stream), next), x) <=>
                      StreamHolds(Tail(stream), x) \/ x = next
      BY <1>8, <3>1, AppendHolds
    <3>3. QED BY <1>4, <2>2, <3>1, <3>2
  <2>3. QED BY <1>1, <2>1, <2>2
<1>13. worker'.pc = "idle" BY <1>1 DEF IdleWorker
<1>14. StreamInv'
  <2>1. receipt'[e].status # "none" BY <1>6, <1>10
  <2>2. \A x \in StreamRecords : StreamHolds(stream', x) => StreamHolds(stream, x) \/ x.event = e
    BY <1>8, <1>12
  <2>3. \A f \in Events \ {e} : receipt'[f] = receipt[f] BY <1>10
  <2>4. StreamInv BY <1>3 DEF FlowInv
  <2>5. QED BY <1>4, <1>12, <1>13, <2>1, <2>2, <2>3, <2>4, StreamMoves
<1>15. NothingStranded'
  <2>1. Ready(next)' BY <1>6, <1>7, <1>8, <1>10 DEF Ready, Claimable
  <2>2. \A x \in StreamRecords : StreamHolds(stream, x) /\ x.event # e => StreamHolds(stream', x)
    BY <1>4, <1>12
  <2>3. QED BY <1>2, <1>3, <1>4, <1>8, <1>10, <1>12, <2>1, <2>2, StrandedMoves DEF FlowInv
<1>16. WorkerInv' BY <1>1, IdleFlow
<1>17. CurrentInv'
  <2>1. LastIsNewest' => LastIsNewest BY <1>2 DEF LastIsNewest, Sold
  <2>2. LastIsNewest /\ Followed' => Followed
    BY <1>2, <1>3, <1>4, <1>6, <1>10 DEF Followed, LastIsNewest, BaseInv, StripeInv
  <2>3. (LastIsNewest /\ Followed => projection.state = subscription)'
    BY <1>2, <1>3, <2>1, <2>2 DEF FlowInv, CurrentInv
  <2>4. QED BY <1>1, <2>3, IdleFlow
<1>18. QED BY <1>10, <1>11, <1>14, <1>15, <1>16, <1>17 DEF BaseInv, FlowInv

\* The projection's next revision and its outgoing event, in one transaction.
LEMMA EntryAdded ==
  ASSUME PipelineAssumption, BaseInv, NEW e \in Events, NEW n, n = projection.revision + 1,
         NEW s \in States, outbox[e].status = "none", Sold(e),
         UNCHANGED <<event, relay, published, undelivered>>,
         fresh' \in SUBSET Events,
         ingress' \in [Events -> IngressRecords], receipt' \in [Events -> ReceiptRecords],
         ingress'[e].status = "processed",
         \A f \in Events \ {e} : ingress'[f] = ingress[f],
         projection' = [revision |-> n, state |-> s, created |-> event[e].created, event |-> e],
         outbox' = [outbox EXCEPT ![e] =
                      [status |-> "pending", sourceRevision |-> n, tells |-> Told[s]]],
         outgoing' = Append(outgoing, e)
  PROVE  RecordsInv' /\ RevisionsInv' /\ LastInv' /\ RelayInv'
<1> DEFINE x == [status |-> "pending", sourceRevision |-> n, tells |-> Told[s]]
<1>0. Told[s] \in Tellings BY DEF Tellings
<1>1. /\ projection.revision \in Nat /\ n \in Nat \ {0} /\ outgoing \in Seq(Events)
      /\ event[e].created \in 0..MaxClock
      /\ outbox \in [Events -> [status : {"none", "pending", "delivering", "delivered"},
                               sourceRevision : Nat, tells : Tellings \cup {"none"}]]
  BY DEF BaseInv, RecordsInv, StripeInv
<1>2. /\ outbox'[e] = x /\ \A f \in Events \ {e} : outbox'[f] = outbox[f]
      /\ x.status = "pending" /\ x.sourceRevision = n /\ x.tells = Told[s]
  BY <1>1
<1>3. /\ projection'.revision = n /\ projection'.state = s /\ projection'.event = e
      /\ projection'.created = event[e].created
  OBVIOUS
<1>4. RecordsInv'
  <2>1. outgoing' \in Seq(Events) BY <1>1, AppendHolds
  <2>2. outbox' \in [Events ->
          [status : {"none", "pending", "delivering", "delivered"},
           sourceRevision : Nat, tells : Tellings \cup {"none"}]]
    BY <1>0, <1>1
  <2>3. projection' \in [revision : Nat, state : States \cup {"none"},
                         created : 0..MaxClock, event : Events \cup {0}]
    BY <1>1
  <2>4. QED BY <2>1, <2>2, <2>3 DEF RecordsInv, IngressRecords, ReceiptRecords
<1>5. Entered' = Entered \cup {e} /\ e \notin Entered /\ Entered \subseteq Events
  <2> HIDE DEF x
  <2>1. QED BY <1>2 DEF Entered
<1>6. Cardinality(Entered') = n
  <2>1. IsFiniteSet(Entered)
    BY <1>5, FS_Subset DEF PipelineAssumption
  <2>2. Cardinality(Entered \cup {e}) = Cardinality(Entered) + 1
    BY <1>5, <2>1, FS_AddElement
  <2>3. QED BY <1>5, <2>2 DEF BaseInv, RevisionsInv
<1> HIDE DEF x
<1>7. RevisionsInv'
  <2> USE DEF BaseInv
  <2>1. \A f \in Events \ Entered' : outbox'[f].sourceRevision = 0
    <3>1. ASSUME NEW f \in Events \ Entered' PROVE outbox'[f].sourceRevision = 0
      <4>1. f \in Events \ Entered /\ f # e BY <1>5
      <4>2. outbox[f].sourceRevision = 0 BY <4>1 DEF RevisionsInv
      <4>3. outbox'[f] = outbox[f] BY <1>2, <4>1
      <4>4. QED BY <4>2, <4>3
    <3>2. QED BY <3>1
  <2>2. ASSUME NEW f \in Entered'
        PROVE  /\ Sold(f)' /\ ingress'[f].status = "processed"
               /\ outbox'[f].sourceRevision \in 1..n /\ outbox'[f].tells \in Tellings
    <3>1. CASE f = e
      <4>1. outbox'[f].sourceRevision = n /\ outbox'[f].tells \in Tellings
        BY <1>0, <1>2, <3>1
      <4>2. n \in 1..n BY <1>1
      <4>3. Sold(f)' BY <3>1 DEF Sold
      <4>4. QED BY <3>1, <4>1, <4>2, <4>3
    <3>2. CASE f # e
      <4>1. f \in Entered BY <1>5, <3>2
      <4>2. /\ Sold(f) /\ ingress[f].status = "processed" /\ outbox[f].tells \in Tellings
            /\ outbox[f].sourceRevision \in 1..projection.revision
        BY <4>1 DEF RevisionsInv
      <4>3. outbox[f].sourceRevision \in 1..n BY <1>1, <4>2
      <4>4. QED BY <1>2, <1>5, <3>2, <4>1, <4>2, <4>3 DEF Sold
    <3>3. QED BY <3>1, <3>2
  <2>3. \A f \in Entered : outbox[f].sourceRevision # n /\ outbox'[f] = outbox[f]
    <3>1. \A f \in Entered : outbox[f].sourceRevision \in 1..projection.revision
      BY DEF RevisionsInv
    <3>2. QED BY <1>1, <1>2, <1>5, <3>1
  <2>4. \A f, g \in Entered' : outbox'[f].sourceRevision = outbox'[g].sourceRevision => f = g
    BY <1>2, <1>5, <2>3 DEF RevisionsInv
  <2>5. ASSUME NEW k \in 1..n PROVE \E f \in Entered' : outbox'[f].sourceRevision = k
    <3>1. CASE k = n BY <1>2, <1>5, <3>1
    <3>2. CASE k # n
      <4>1. k \in 1..projection.revision BY <1>1, <3>2
      <4>2. PICK f \in Entered : outbox[f].sourceRevision = k BY <4>1 DEF RevisionsInv
      <4>3. QED BY <1>5, <2>3, <4>2
    <3>3. QED BY <3>1, <3>2
  <2>6. QED BY <1>3, <1>6, <2>1, <2>2, <2>4, <2>5 DEF RevisionsInv
<1>8. LastInv' BY <1>1, <1>2, <1>3, <1>5 DEF LastInv
<1>9. RelayInv'
  <2>1. \A f : StreamHolds(outgoing', f) <=> StreamHolds(outgoing, f) \/ f = e
    BY <1>1, AppendHolds
  <2>2. outgoing' # <<>> /\ (outgoing # <<>> => Sending' = Sending)
    BY <1>1, AppendHolds DEF Sending
  <2>3. \A f \in Events : outbox'[f].status # outbox[f].status => f = e
    BY <1>2
  <2>4. outgoing # <<>> => Sending \in Events /\ StreamHolds(outgoing, Sending)
    BY <1>1, TailHolds DEF Sending
  <2>5. ~StreamHolds(outgoing, e) BY DEF BaseInv, RelayInv
  <2>6. outgoing # <<>> => outbox'[Sending].status = outbox[Sending].status
    BY <2>3, <2>4, <2>5
  <2>7. OutboxRelayed'
    <3>1. relay' = "claimed" => outbox'[Sending'].status # "delivered"
      BY <2>2, <2>6 DEF BaseInv, RelayInv
    <3>2. ASSUME NEW f \in Events
          PROVE  /\ outbox'[f].status = "delivered" => f \in published'
                 /\ outbox'[f].status \in {"pending", "delivering"} /\ f \notin undelivered' =>
                      StreamHolds(outgoing', f)
      <4>1. CASE f = e BY <1>2, <2>1, <4>1
      <4>2. CASE f # e
        <5>1. outbox'[f] = outbox[f] BY <1>2, <4>2
        <5>2. /\ outbox[f].status = "delivered" => f \in published
              /\ outbox[f].status \in {"pending", "delivering"} /\ f \notin undelivered =>
                   StreamHolds(outgoing, f)
          BY DEF BaseInv, RelayInv, OutboxRelayed, StreamHolds
        <5>3. QED BY <2>1, <5>1, <5>2
      <4>3. QED BY <4>1, <4>2
    <3>3. QED BY <3>1, <3>2 DEF OutboxRelayed, StreamHolds, Sending
  <2>8. \A f \in Events : StreamHolds(outgoing', f) => outbox'[f].status # "none"
    BY <1>2, <2>1 DEF BaseInv, RelayInv
  <2>9. /\ relay' \in {"idle", "claimed", "published"}
        /\ relay' # "idle" => outgoing # <<>> /\ outbox[Sending].status = "delivering"
        /\ relay' = "published" => Sending \in published' /\ outgoing # <<>>
    BY DEF BaseInv, RelayInv
  <2>10. /\ relay' # "idle" => outgoing' # <<>> /\ outbox'[Sending'].status = "delivering"
         /\ relay' = "published" => Sending' \in published'
    BY <2>2, <2>6, <2>9
  <2>11. QED BY <2>7, <2>8, <2>9, <2>10 DEF RelayInv
<1>10. QED BY <1>4, <1>7, <1>8, <1>9

LEMMA CompleteInv ==
  ASSUME PipelineInv, CompleteIngress PROVE BaseInv' /\ FlowInv'
<1>0. PICK h, e, i, r :
        /\ h = Handling /\ e = Handled
        /\ i = [ingress[e] EXCEPT !.status = "processed", !.revision = @ + 1]
        /\ r = [receipt[e] EXCEPT !.status = worker.decision, !.revision = @ + 1]
  OBVIOUS
<1>1. /\ worker.pc = "planned" /\ worker' = IdleWorker /\ StillClaimed(e)
      /\ ingress' = [ingress EXCEPT ![e] = i] /\ receipt' = [receipt EXCEPT ![e] = r]
      /\ stream' \in {stream, Tail(stream)} /\ givenUp' \in {givenUp, givenUp \cup {e}}
  BY <1>0 DEF CompleteIngress, NextRecord, FailRecord
<1>2. UNCHANGED <<clock, subscription, event, latest, fresh, relay, published, undelivered, lost>>
  BY DEF CompleteIngress, registryVars, stripeVars
<1>3. BaseInv /\ FlowInv BY DEF PipelineInv
<1>4. /\ stream # <<>> /\ stream \in Seq(StreamRecords) /\ e \in Events
      /\ h = Head(stream) /\ h.event = e /\ receipt[e].connection \in Stripe
      /\ event[e].kind # "none"
  BY <1>0, <1>1, <1>3, Working DEF FlowInv, StreamInv, Handled, Handling
<1>5. ingress[e] \in IngressRecords /\ receipt[e] \in ReceiptRecords
  BY <1>3, <1>4, RecordsRead DEF BaseInv
<1>6. /\ worker.decision \in Terminal
      /\ ~worker.stale => /\ Sold(e) /\ worker.seen \in States
      /\ worker.decision = "processed" /\ event[e].kind = "deauthorized" =>
           receipt[e].connection \in lost
  BY <1>0, <1>1, <1>3 DEF FlowInv, WorkerInv
<1>7. /\ i \in IngressRecords /\ i.status = "processed" /\ i.revision = ingress[e].revision + 1
      /\ r \in ReceiptRecords /\ r.status = worker.decision /\ r.revision = receipt[e].revision + 1
      /\ r.connection = receipt[e].connection
  BY <1>0, <1>5, <1>6, IngressMoved, ReceiptMoved
<1>8. ingress[e].status = "processing" /\ receipt[e].revision = ingress[e].revision
  BY <1>1, <1>3, <1>4 DEF StillClaimed, BaseInv, ReceiptsAgree
<1>9. <<i.status, r.status>> \in Stages BY <1>6, <1>7 DEF Stages
<1>10. /\ StripeInv' /\ ReceiptsAgree' /\ RevokedAreLost'
       /\ ingress' \in [Events -> IngressRecords] /\ receipt' \in [Events -> ReceiptRecords]
       /\ ingress'[e] = i /\ receipt'[e] = r
       /\ \A f \in Events \ {e} : ingress'[f] = ingress[f] /\ receipt'[f] = receipt[f]
  <2>1. /\ r.revision = i.revision /\ r.connection \in Stripe
        /\ r.status = "processed" /\ event[e].kind = "deauthorized" => r.connection \in lost
    BY <1>4, <1>6, <1>7, <1>8
  <2>2. BaseInv /\ UNCHANGED <<clock, subscription, event, latest, lost>> BY <1>2, <1>3
  <2>3. /\ ingress' = [ingress EXCEPT ![e] = i] /\ receipt' = [receipt EXCEPT ![e] = r]
        /\ i \in IngressRecords /\ r \in ReceiptRecords
    BY <1>1, <1>7
  <2>4. QED BY <1>4, <1>9, <2>1, <2>2, <2>3, EventMoves
<1>11. /\ RecordsInv' /\ RevisionsInv' /\ LastInv' /\ RelayInv'
       /\ projection'.state = IF worker.stale THEN projection.state ELSE worker.seen
  <2>1. fresh' \in SUBSET Events BY <1>2, <1>3 DEF BaseInv, RecordsInv
  <2>2. CASE worker.stale
    <3>1. UNCHANGED <<projection, outbox, outgoing>> BY <2>2 DEF CompleteIngress
    <3>2. \A f \in Events : ingress[f].status = "processed" => ingress'[f] = ingress[f]
      BY <1>8, <1>10
    <3>3. UNCHANGED relayVars BY <1>2, <3>1 DEF relayVars
    <3>4. QED BY <1>2, <1>3, <1>10, <2>1, <2>2, <3>1, <3>2, <3>3, EntriesKept
  <2>3. CASE ~worker.stale
    <3>1. PICK n, s : n = projection.revision + 1 /\ s = worker.seen OBVIOUS
    <3>2. /\ outbox[e].status = "none"
          /\ projection' = [revision |-> n, state |-> s, created |-> event[e].created, event |-> e]
          /\ outbox' = [outbox EXCEPT ![e] =
                         [status |-> "pending", sourceRevision |-> n, tells |-> Told[s]]]
          /\ outgoing' = Append(outgoing, e)
      BY <1>0, <2>3, <3>1 DEF CompleteIngress
    <3>3. s \in States /\ Sold(e) /\ ingress'[e].status = "processed"
      BY <1>6, <1>7, <1>10, <2>3, <3>1
    <3>4. RecordsInv' /\ RevisionsInv' /\ LastInv' /\ RelayInv'
      <4>1. BaseInv /\ UNCHANGED <<event, relay, published, undelivered>> BY <1>2, <1>3
      <4>2. \A f \in Events \ {e} : ingress'[f] = ingress[f] BY <1>10
      <4>3. ingress' \in [Events -> IngressRecords] /\ receipt' \in [Events -> ReceiptRecords]
        BY <1>10
      <4>4. n = projection.revision + 1 BY <3>1
      <4>5. QED
        BY <1>4, <2>1, <3>2, <3>3, <4>1, <4>2, <4>3, <4>4, EntryAdded, PipelineAssumption
    <3>5. projection'.state = worker.seen BY <3>1, <3>2
    <3>6. QED BY <2>3, <3>4, <3>5
  <2>4. QED BY <2>2, <2>3
<1>12. /\ stream' \in Seq(StreamRecords)
       /\ \A x : StreamHolds(stream', x) => StreamHolds(stream, x)
       /\ \A x : StreamHolds(stream, x) /\ x # h => StreamHolds(stream', x)
  <2>1. /\ Tail(stream) \in Seq(StreamRecords)
        /\ \A x : StreamHolds(stream, x) <=> x = Head(stream) \/ StreamHolds(Tail(stream), x)
    BY <1>4, TailHolds
  <2>2. CASE stream' = stream BY <1>4, <2>2
  <2>3. CASE stream' = Tail(stream) BY <1>4, <2>1, <2>3
  <2>4. QED BY <1>1, <2>2, <2>3
<1>13. worker'.pc = "idle" BY <1>1 DEF IdleWorker
<1>14. StreamInv'
  <2>1. receipt'[e].status # "none" BY <1>6, <1>7, <1>10 DEF Terminal
  <2>2. \A f \in Events \ {e} : receipt'[f] = receipt[f] BY <1>10
  <2>3. StreamInv BY <1>3 DEF FlowInv
  <2>4. QED BY <1>4, <1>12, <1>13, <2>1, <2>2, <2>3, StreamMoves
<1>15. NothingStranded'
  <2>1. \A x \in StreamRecords : StreamHolds(stream, x) /\ x.event # e => StreamHolds(stream', x)
    BY <1>4, <1>12
  <2>2. ingress'[e].status \notin {"pending", "processing"} BY <1>7, <1>10
  <2>3. \A f \in Events \ {e} : f \notin givenUp' => f \notin givenUp BY <1>1
  <2>4. StreamInv /\ NothingStranded BY <1>3 DEF FlowInv
  <2>5. QED BY <1>4, <1>10, <1>12, <2>1, <2>2, <2>3, <2>4, StrandedMoves
<1>16. WorkerInv' BY <1>1, IdleFlow
<1>17. CurrentInv'
  <2>1. LastIsNewest' => LastIsNewest BY <1>2 DEF LastIsNewest, Sold
  <2>2. ASSUME LastIsNewest, Followed' PROVE Followed \/ Deciding
    <3>1. latest \in Events BY <1>3, <2>2 DEF LastIsNewest, BaseInv, StripeInv
    <3>2. CASE latest = e
      BY <1>0, <1>1, <1>2, <1>7, <1>10, <2>2, <3>2 DEF Followed, Deciding
    <3>3. CASE latest # e BY <1>2, <1>10, <2>2, <3>1, <3>3 DEF Followed
    <3>4. QED BY <3>2, <3>3
  <2>3. ASSUME LastIsNewest, Followed \/ Deciding
        PROVE  projection'.state = subscription
    BY <1>1, <1>3, <1>11, <2>3 DEF FlowInv, CurrentInv
  <2>4. (LastIsNewest /\ Followed => projection.state = subscription)'
    BY <1>2, <2>1, <2>2, <2>3
  <2>5. QED BY <1>1, <2>4, IdleFlow
<1>18. QED BY <1>10, <1>11, <1>14, <1>15, <1>16, <1>17 DEF BaseInv, FlowInv

-----------------------------------------------------------------------------
(* Deliveries *)

\* A delivery that changes the two records appends one that can be claimed.
LEMMA DeliverInv ==
  ASSUME PipelineInv, NEW e \in Events, Deliver(e) PROVE BaseInv' /\ FlowInv'
<1>1. /\ UNCHANGED <<clock, subscription, event, latest, worker, projection, outbox, relayVars,
                     lost>>
      /\ givenUp' = givenUp \ {e} /\ event[e].kind # "none"
  BY DEF Deliver, registryVars
<1>2. BaseInv /\ FlowInv BY DEF PipelineInv
<1>3. ingress[e] \in IngressRecords /\ receipt[e] \in ReceiptRecords /\ fresh \in SUBSET Events
  BY <1>2, RecordsRead DEF BaseInv, RecordsInv
<1>4. PICK i, r, next :
        /\ i \in IngressRecords /\ r \in ReceiptRecords /\ next \in StreamRecords
        /\ ingress' = [ingress EXCEPT ![e] = i] /\ receipt' = [receipt EXCEPT ![e] = r]
        /\ i.status = "pending" /\ r.status = "received" /\ r.connection \in Stripe
        /\ r.revision = i.revision
        /\ next.event = e /\ next.revision = i.revision
        /\ stream' = Append(stream, next) /\ fresh' \in SUBSET Events
        /\ ingress[e].status \in {"none", "processing"}
        /\ receipt[e].status \notin {"processed", "ignored"}
  <2>1. PICK c \in Stripe :
          \/ Accept(e, c)
          \/ Reactivate(e, c) /\ UNCHANGED fresh
    BY DEF Deliver
  <2>2. CASE Accept(e, c)
    <3> DEFINE i == [status |-> "pending", revision |-> 1, attempts |-> 0]
               r == [status |-> "received", revision |-> 1, connection |-> c]
               next == Record(e, 1, 0)
    <3>1. i \in IngressRecords /\ r \in ReceiptRecords /\ next \in StreamRecords
      BY DEF IngressRecords, ReceiptRecords, StreamRecords, Record
    <3>2. ingress[e].status = "none"
      BY <1>2, <2>2 DEF Accept, BaseInv, ReceiptsAgree, Terminal
    <3>3. receipt[e].status = "none" BY <2>2 DEF Accept
    <3>4. /\ ingress' = [ingress EXCEPT ![e] = i] /\ receipt' = [receipt EXCEPT ![e] = r]
          /\ stream' = Append(stream, next) /\ fresh' \in SUBSET Events
      BY <1>3, <2>2 DEF Accept
    <3>5. next.event = e /\ next.revision = 1 BY DEF Record
    <3>6. /\ i.status = "pending" /\ r.status = "received" /\ r.connection \in Stripe
          /\ i.revision = 1 /\ r.revision = 1
      OBVIOUS
    <3> HIDE DEF i, r, next
    <3>7. QED BY <3>1, <3>2, <3>3, <3>4, <3>5, <3>6
  <2>3. CASE Reactivate(e, c) /\ UNCHANGED fresh
    <3> DEFINE i == [ingress[e] EXCEPT !.status = "pending", !.revision = @ + 1]
               r == [receipt[e] EXCEPT !.status = "received", !.revision = @ + 1]
               next == Record(e, ingress[e].revision + 1, ingress[e].attempts)
    <3>1. /\ receipt[e].status = "processing" /\ ingress[e].status = "processing"
          /\ receipt[e].connection = c /\ receipt[e].revision = ingress[e].revision
      BY <2>3 DEF Reactivate, Redeliverable
    <3>2. /\ ingress' = [ingress EXCEPT ![e] = i] /\ receipt' = [receipt EXCEPT ![e] = r]
          /\ stream' = Append(stream, next) /\ fresh' \in SUBSET Events
      BY <1>3, <2>3 DEF Reactivate
    <3>3. i \in IngressRecords /\ i.status = "pending" /\ i.revision = ingress[e].revision + 1
      BY <1>3, IngressMoved
    <3>4. /\ r \in ReceiptRecords /\ r.status = "received"
          /\ r.revision = receipt[e].revision + 1 /\ r.connection = receipt[e].connection
      BY <1>3, ReceiptMoved
    <3>5. /\ next \in StreamRecords /\ next.event = e
          /\ next.revision = ingress[e].revision + 1
      BY <1>3 DEF Record, StreamRecords, IngressRecords
    <3> HIDE DEF i, r, next
    <3>6. QED BY <3>1, <3>2, <3>3, <3>4, <3>5
  <2>4. QED BY <2>1, <2>2, <2>3
<1>5. <<i.status, r.status>> \in Stages BY <1>4 DEF Stages
<1>6. /\ StripeInv' /\ ReceiptsAgree' /\ RevokedAreLost'
      /\ ingress' \in [Events -> IngressRecords] /\ receipt' \in [Events -> ReceiptRecords]
      /\ ingress'[e] = i /\ receipt'[e] = r
      /\ \A f \in Events \ {e} : ingress'[f] = ingress[f] /\ receipt'[f] = receipt[f]
  <2>1. BaseInv /\ UNCHANGED <<clock, subscription, event, latest, lost>> BY <1>1, <1>2
  <2>2. r.status # "processed" /\ event[e].kind # "none" BY <1>1, <1>4
  <2>3. QED BY <1>4, <1>5, <2>1, <2>2, EventMoves
<1>7. RecordsInv' /\ RevisionsInv' /\ LastInv' /\ RelayInv'
  <2>1. \A f \in Events : ingress[f].status = "processed" => ingress'[f] = ingress[f]
    BY <1>4, <1>6
  <2>2. QED BY <1>1, <1>2, <1>4, <1>6, <2>1, EntriesKept
<1>8. /\ stream \in Seq(StreamRecords) /\ stream' \in Seq(StreamRecords) /\ stream' # <<>>
      /\ \A x : StreamHolds(stream', x) <=> StreamHolds(stream, x) \/ x = next
      /\ stream # <<>> => Head(stream') = Head(stream)
  BY <1>2, <1>4, AppendHolds DEF FlowInv, StreamInv
<1>9. StreamInv'
  <2>1. receipt'[e].status # "none" BY <1>4, <1>6
  <2>2. StreamInv /\ \A f \in Events \ {e} : receipt'[f] = receipt[f] BY <1>2, <1>6 DEF FlowInv
  <2>3. \A x \in StreamRecords : StreamHolds(stream', x) => StreamHolds(stream, x) \/ x.event = e
    BY <1>4, <1>8
  <2>4. QED BY <1>8, <2>1, <2>2, <2>3, StreamMoves
<1>10. NothingStranded'
  <2>1. Ready(next)' BY <1>4, <1>6 DEF Ready, Claimable
  <2>2. \A f \in Events \ {e} : f \notin givenUp' => f \notin givenUp BY <1>1
  <2>3. StreamInv /\ NothingStranded BY <1>2 DEF FlowInv
  <2>4. QED BY <1>4, <1>6, <1>8, <2>1, <2>2, <2>3, StrandedMoves
<1>11. worker.pc # "idle" => /\ Handled' = Handled /\ Handled \in Events
                             /\ receipt[Handled].status # "none"
  BY <1>8, Working DEF Handled, Handling
<1>12. WorkerInv'
  <2>1. CASE worker.pc = "idle" BY <1>1, <1>2, <2>1 DEF FlowInv, WorkerInv
  <2>2. CASE worker.pc # "idle"
    <3>1. ingress'[Handled].status \in {"pending", "processing"}
      BY <1>2, <1>4, <1>6, <1>11, <2>2 DEF FlowInv, WorkerInv
    <3>2. receipt'[Handled].connection = receipt[Handled].connection
      <4>1. CASE Handled # e BY <1>6, <1>11, <2>2, <4>1
      <4>2. CASE Handled = e
        <5>1. ~\E c \in Stripe : Accept(e, c) BY <1>11, <2>2, <4>2 DEF Accept
        <5>2. PICK c \in Stripe : Reactivate(e, c) BY <5>1 DEF Deliver
        <5>3. receipt' = [receipt EXCEPT ![e] =
                [receipt[e] EXCEPT !.status = "received", !.revision = @ + 1]]
          BY <5>2 DEF Reactivate
        <5>4. r = [receipt[e] EXCEPT !.status = "received", !.revision = @ + 1]
          BY <1>2, <1>6, <5>3 DEF BaseInv, RecordsInv
        <5>5. QED BY <1>3, <1>6, <4>2, <5>4 DEF ReceiptRecords
      <4>3. QED BY <4>1, <4>2
    <3>3. QED BY <1>1, <1>2, <1>11, <2>2, <3>1, <3>2 DEF FlowInv, WorkerInv, Sold
  <2>3. QED BY <2>1, <2>2
<1>13. CurrentInv'
  <2>1. LastIsNewest' => LastIsNewest BY <1>1 DEF LastIsNewest, Sold
  <2>2. LastIsNewest /\ Followed' => Followed
    BY <1>1, <1>2, <1>4, <1>6 DEF Followed, LastIsNewest, BaseInv, StripeInv
  <2>3. Deciding' => Deciding BY <1>1, <1>11 DEF Deciding
  <2>4. QED BY <1>1, <1>2, <2>1, <2>2, <2>3 DEF FlowInv, CurrentInv
<1>14. QED BY <1>6, <1>7, <1>9, <1>10, <1>12, <1>13 DEF BaseInv, FlowInv

-----------------------------------------------------------------------------
(* Stripe, the relay and the rest *)

\* What Stripe emits is new: nothing was received or written of it.
LEMMA Unseen ==
  ASSUME PipelineInv, NEW e \in Events, event[e].kind = "none"
  PROVE  /\ receipt[e].status = "none" /\ e \notin Entered /\ e # latest
         /\ worker.pc # "idle" => Handled # e /\ Handled \in Events
<1>1. receipt[e].status = "none" BY DEF PipelineInv, BaseInv, StripeInv
<1>2. e \notin Entered BY DEF PipelineInv, BaseInv, RevisionsInv, Sold
<1>3. e # latest BY PipelineAssumption DEF PipelineInv, BaseInv, StripeInv, Sold, PipelineAssumption
<1>4. worker.pc # "idle" => Handled # e /\ Handled \in Events BY Working
<1>5. QED BY <1>1, <1>2, <1>3, <1>4

LEMMA StripesInv ==
  ASSUME PipelineInv, Stripes,
         UNCHANGED <<lost, receipt, ingress, workerVars, projection, outbox, relayVars, givenUp>>
  PROVE  BaseInv' /\ FlowInv'
<1>1. PICK e \in Events, kind \in {"subscription", "deauthorized"}, a \in Accounts :
        /\ Emit(e, kind, a)
        /\ \/ /\ kind = "subscription" /\ latest' = e /\ subscription' \in States
           \/ kind = "deauthorized" /\ UNCHANGED <<subscription, latest>>
  <2>1. Account \in Accounts BY PipelineAssumption DEF PipelineAssumption
  <2>2. CASE \E e \in Events, state \in States : Change(e, state) /\ UNCHANGED granted
    BY <2>1, <2>2 DEF Change
  <2>3. CASE \E e \in Events : Revoked(e, Account) BY <2>1, <2>3 DEF Revoked
  <2>4. QED BY <2>2, <2>3 DEF Stripes
<1>2. PICK x : x = [kind |-> kind, created |-> clock', account |-> a] OBVIOUS
<1>3. BaseInv /\ FlowInv BY DEF PipelineInv
<1>4. /\ event[e].kind = "none" /\ event' = [event EXCEPT ![e] = x] /\ clock' \in clock..MaxClock
      /\ fresh' \in SUBSET Events
  BY <1>1, <1>2, <1>3 DEF Emit, BaseInv, RecordsInv
<1>5. /\ receipt[e].status = "none" /\ e \notin Entered /\ e # latest
      /\ worker.pc # "idle" => Handled # e /\ Handled \in Events
  BY <1>4, Unseen
<1>6. /\ clock \in Nat /\ clock' \in 0..MaxClock /\ clock <= clock'
      /\ \A f \in Events : event[f].created \in 0..MaxClock /\ event[f].created <= clock
  <2>1. clock \in 0..MaxClock /\ MaxClock \in Nat
    BY <1>3, PipelineAssumption DEF BaseInv, StripeInv, PipelineAssumption
  <2>2. \A f \in Events : event[f].created \in 0..MaxClock /\ event[f].created <= clock
    BY <1>3 DEF BaseInv, StripeInv
  <2>3. QED BY <1>4, <2>1, <2>2
<1>7. /\ event'[e] = x /\ x.kind = kind /\ x.created = clock' /\ x.account = a
      /\ \A f \in Events \ {e} : event'[f] = event[f]
      /\ event' \in [Events -> [kind : {"none", "subscription", "deauthorized"},
                               created : 0..MaxClock, account : Accounts \cup {NoAccount}]]
  <2>1. x.kind = kind /\ x.created = clock' /\ x.account = a BY <1>2
  <2>2. x \in [kind : {"none", "subscription", "deauthorized"},
               created : 0..MaxClock, account : Accounts \cup {NoAccount}]
    BY <1>2, <1>6
  <2>3. event \in [Events -> [kind : {"none", "subscription", "deauthorized"},
                              created : 0..MaxClock, account : Accounts \cup {NoAccount}]]
    BY <1>3 DEF BaseInv, StripeInv
  <2>4. QED BY <1>4, <2>1, <2>2, <2>3
<1>8. \A f \in Events \ {e} : Sold(f)' <=> Sold(f) BY <1>7 DEF Sold
<1>9. Sold(e)' <=> kind = "subscription" BY <1>7 DEF Sold
<1>10. StripeInv'
  <2>1. subscription' \in States BY <1>1, <1>3 DEF BaseInv, StripeInv
  <2>2. \A f \in Events : event'[f].created <= clock'
    <3>1. ASSUME NEW f \in Events PROVE event'[f].created <= clock'
      <4>1. CASE f = e BY <1>6, <1>7, <4>1
      <4>2. CASE f # e
        <5>1. event'[f].created = event[f].created BY <1>7, <4>2
        <5>2. event[f].created \in Nat /\ event[f].created <= clock /\ clock' \in Nat BY <1>6
        <5>3. QED BY <1>6, <5>1, <5>2
      <4>3. QED BY <4>1, <4>2
    <3>2. QED BY <3>1
  <2>3. \A f \in Events : receipt'[f].status # "none" =>
          event'[f].kind # "none" /\ receipt'[f].connection \in Stripe
    BY <1>3, <1>5, <1>7 DEF BaseInv, StripeInv
  <2>4. latest' # NoEvent =>
          /\ latest' \in Events /\ Sold(latest)'
          /\ \A f \in Events : Sold(f)' => event'[f].created <= event'[latest'].created
    <3>1. CASE kind = "subscription" /\ latest' = e
      BY <1>7, <1>9, <2>2, <3>1 DEF Sold
    <3>2. CASE kind = "deauthorized" /\ UNCHANGED <<subscription, latest>>
      <4>1. ~Sold(e)' BY <1>9, <3>2
      <4>2. latest # NoEvent => latest \in Events \ {e} BY <1>3, <1>5 DEF BaseInv, StripeInv
      <4>3. QED BY <1>3, <1>7, <1>8, <3>2, <4>1, <4>2 DEF BaseInv, StripeInv, Sold
    <3>3. QED BY <1>1, <3>1, <3>2
  <2>5. QED BY <1>6, <1>7, <2>1, <2>2, <2>3, <2>4 DEF StripeInv
<1>11. ReceiptsAgree' BY <1>3 DEF BaseInv, ReceiptsAgree
<1>12. RevokedAreLost' BY <1>3, <1>5, <1>7 DEF BaseInv, RevokedAreLost
<1>13. RecordsInv' BY <1>3, <1>4 DEF BaseInv, RecordsInv, workerVars, relayVars
<1>14. Entered' = Entered /\ Entered \subseteq Events \ {e} BY <1>5 DEF Entered
<1>15. RevisionsInv' BY <1>3, <1>8, <1>14 DEF BaseInv, RevisionsInv
<1>16. LastInv' BY <1>3, <1>7, <1>14 DEF BaseInv, LastInv
<1>17. RelayInv' BY <1>3 DEF BaseInv, RelayInv, OutboxRelayed, Sending, StreamHolds, relayVars
<1>18. StreamInv' BY <1>3 DEF FlowInv, StreamInv, workerVars
<1>19. NothingStranded' BY <1>3 DEF FlowInv, NothingStranded, Claimable, Claimed, workerVars
<1>20. Handled' = Handled /\ worker' = worker BY DEF Handled, Handling, workerVars
<1>21. WorkerInv'
  <2>1. CASE worker.pc = "idle" BY <1>3, <1>20, <2>1 DEF FlowInv, WorkerInv
  <2>2. CASE worker.pc # "idle"
    <3>1. event'[Handled] = event[Handled] BY <1>5, <1>7, <2>2
    <3>2. QED BY <1>3, <1>20, <2>2, <3>1 DEF FlowInv, WorkerInv, Sold
  <2>3. QED BY <2>1, <2>2
<1>22. CurrentInv'
  <2>1. CASE kind = "subscription" /\ latest' = e
    BY <1>5, <1>20, <2>1 DEF CurrentInv, Followed, Deciding
  <2>2. CASE kind = "deauthorized" /\ UNCHANGED <<subscription, latest>>
    <3>1. LastIsNewest' => LastIsNewest
      <4>1. SUFFICES ASSUME LastIsNewest' PROVE LastIsNewest
        OBVIOUS
      <4>2. latest \in Events \ {e}
        BY <1>3, <1>5, <2>2, <4>1 DEF BaseInv, StripeInv, LastIsNewest
      <4>3. QED BY <1>4, <1>7, <1>8, <2>2, <4>1, <4>2 DEF LastIsNewest, Sold
    <3>2. (Followed' <=> Followed) /\ (Deciding' <=> Deciding)
      BY <1>20, <2>2 DEF Followed, Deciding
    <3>3. QED BY <1>3, <1>20, <2>2, <3>1, <3>2 DEF FlowInv, CurrentInv
  <2>3. QED BY <1>1, <2>1, <2>2
<1>23. QED
  BY <1>10, <1>11, <1>12, <1>13, <1>15, <1>16, <1>17, <1>18, <1>19, <1>21, <1>22
  DEF BaseInv, FlowInv

\* What the relay's step does to the record it is at.
LEMMA RelayWrites ==
  ASSUME BaseInv, Relay
  PROVE  /\ outgoing # <<>> /\ outgoing \in Seq(Events) /\ outgoing' \in Seq(Events)
         /\ Sending \in Events /\ outbox[Sending].status # "none"
         /\ \A f \in Events : /\ StreamHolds(outgoing', f) => StreamHolds(outgoing, f)
                              /\ StreamHolds(outgoing, f) => f = Sending \/ StreamHolds(outgoing', f)
         /\ \E s \in {"pending", "delivering", "delivered"} :
              outbox' = [outbox EXCEPT ![Sending] = [outbox[Sending] EXCEPT !.status = s]]
<1>1. outgoing # <<>> /\ outgoing' \in {outgoing, Tail(outgoing)}
  BY DEF BaseInv, RelayInv, Relay, ClaimDelivery, SkipDelivered, Publish, Markable, MarkDelivered,
         RelayFails
<1>2. outgoing \in Seq(Events) BY DEF BaseInv, RecordsInv
<1>3. /\ Tail(outgoing) \in Seq(Events) /\ Sending \in Events
      /\ \A f : StreamHolds(outgoing, f) <=> f = Sending \/ StreamHolds(Tail(outgoing), f)
  BY <1>1, <1>2, TailHolds DEF Sending
<1>4. outbox[Sending].status # "none" BY <1>3 DEF BaseInv, RelayInv
<1>5. /\ outgoing' \in Seq(Events)
      /\ \A f \in Events : /\ StreamHolds(outgoing', f) => StreamHolds(outgoing, f)
                           /\ StreamHolds(outgoing, f) => f = Sending \/ StreamHolds(outgoing', f)
  <2>1. CASE outgoing' = outgoing BY <1>2, <2>1
  <2>2. CASE outgoing' = Tail(outgoing) BY <1>3, <2>2
  <2>3. QED BY <1>1, <2>1, <2>2
<1>6. \E s \in {"pending", "delivering", "delivered"} :
        outbox' = [outbox EXCEPT ![Sending] = [outbox[Sending] EXCEPT !.status = s]]
  <2>1. CASE outbox' = outbox
    <3>1. outbox \in [Events -> [status : {"none", "pending", "delivering", "delivered"},
                                sourceRevision : Nat, tells : Tellings \cup {"none"}]]
      BY DEF BaseInv, RecordsInv
    <3>2. PICK s : s = outbox[Sending].status OBVIOUS
    <3>3. s \in {"pending", "delivering", "delivered"} BY <1>3, <1>4, <3>1, <3>2
    <3>4. outbox' = [outbox EXCEPT ![Sending] = [outbox[Sending] EXCEPT !.status = s]]
      BY <1>3, <2>1, <3>1, <3>2
    <3>5. QED BY <3>3, <3>4
  <2>2. CASE ClaimDelivery
    <3>1. outbox' = [outbox EXCEPT ![Sending] = [outbox[Sending] EXCEPT !.status = "delivering"]]
      BY <2>2 DEF ClaimDelivery
    <3>2. QED BY <3>1
  <2>3. CASE MarkDelivered
    <3>1. outbox' = [outbox EXCEPT ![Sending] = [outbox[Sending] EXCEPT !.status = "delivered"]]
      BY <2>3 DEF MarkDelivered
    <3>2. QED BY <3>1
  <2>4. QED BY <2>1, <2>2, <2>3 DEF Relay, SkipDelivered, Publish, RelayFails
<1>7. QED BY <1>1, <1>2, <1>3, <1>4, <1>5, <1>6

\* The relay marks what it has sent, and loses nothing that the stream keeps.
LEMMA RelayKeeps ==
  ASSUME PipelineInv, Relay PROVE BaseInv' /\ FlowInv'
<1>1. /\ UNCHANGED <<clock, subscription, event, latest, fresh, receipt, ingress, projection,
                     stream, worker, givenUp, lost>>
  BY DEF Relay, ClaimDelivery, SkipDelivered, Publish, MarkDelivered, RelayFails, RelayChanges,
         registryVars, stripeVars, workerVars
<1>2. BaseInv /\ FlowInv BY DEF PipelineInv
<1>3. PICK e : e = Sending OBVIOUS
<1>4. /\ outgoing # <<>> /\ outgoing \in Seq(Events) /\ outgoing' \in Seq(Events)
      /\ e \in Events /\ outbox[e].status # "none"
      /\ \A f \in Events : /\ StreamHolds(outgoing', f) => StreamHolds(outgoing, f)
                           /\ StreamHolds(outgoing, f) => f = e \/ StreamHolds(outgoing', f)
  BY <1>2, <1>3, RelayWrites
<1>5. PICK s \in {"pending", "delivering", "delivered"} :
        outbox' = [outbox EXCEPT ![e] = [outbox[e] EXCEPT !.status = s]]
  BY <1>2, <1>3, RelayWrites
<1>6. /\ outbox' \in [Events -> [status : {"none", "pending", "delivering", "delivered"},
                                sourceRevision : Nat, tells : Tellings \cup {"none"}]]
      /\ outbox'[e].status = s
      /\ \A f \in Events : /\ f # e => outbox'[f].status = outbox[f].status
                           /\ outbox'[f].sourceRevision = outbox[f].sourceRevision
                           /\ outbox'[f].tells = outbox[f].tells
                           /\ outbox'[f].status # "none" <=> outbox[f].status # "none"
  <2>1. outbox \in [Events -> [status : {"none", "pending", "delivering", "delivered"},
                              sourceRevision : Nat, tells : Tellings \cup {"none"}]]
    BY <1>2 DEF BaseInv, RecordsInv
  <2>2. PICK x : x = [outbox[e] EXCEPT !.status = s] OBVIOUS
  <2>3. /\ x.status = s /\ x.sourceRevision = outbox[e].sourceRevision
        /\ x.tells = outbox[e].tells
        /\ x \in [status : {"none", "pending", "delivering", "delivered"},
                  sourceRevision : Nat, tells : Tellings \cup {"none"}]
    BY <1>4, <2>1, <2>2
  <2>4. outbox' = [outbox EXCEPT ![e] = x] BY <1>5, <2>2
  <2>5. QED BY <1>4, <2>1, <2>3, <2>4
<1>7. RecordsInv' BY <1>1, <1>2, <1>4, <1>6 DEF BaseInv, RecordsInv
<1>8. StripeInv' BY <1>1, <1>2 DEF BaseInv, StripeInv, Sold
<1>9. ReceiptsAgree' /\ RevokedAreLost' BY <1>1, <1>2 DEF BaseInv, ReceiptsAgree, RevokedAreLost
<1>10. Entered' = Entered /\ Entered \subseteq Events BY <1>6 DEF Entered
<1>11. RevisionsInv' BY <1>1, <1>2, <1>6, <1>10 DEF BaseInv, RevisionsInv, Sold
<1>12. LastInv' BY <1>1, <1>2, <1>6, <1>10 DEF BaseInv, LastInv
<1>13. RelayInv'
  <2> DEFINE Relayed(f) ==
        /\ outbox'[f].status = "delivered" => f \in published'
        /\ outbox'[f].status \in {"pending", "delivering"} /\ f \notin undelivered' =>
             StreamHolds(outgoing', f)
  <2>1. \A f \in Events : StreamHolds(outgoing', f) => outbox'[f].status # "none"
    BY <1>2, <1>4, <1>6 DEF BaseInv, RelayInv
  <2>2. published \subseteq published' /\ undelivered \subseteq undelivered'
    BY DEF Relay, ClaimDelivery, SkipDelivered, Publish, MarkDelivered, RelayFails
  <2>3. /\ \A f \in Events \ {e} : Relayed(f)
        /\ \A f \in Events : /\ outbox[f].status = "delivered" => f \in published
                             /\ outbox[f].status \in {"pending", "delivering"}
                                /\ f \notin undelivered => StreamHolds(outgoing, f)
    BY <1>2, <1>4, <1>6, <2>2 DEF BaseInv, RelayInv, OutboxRelayed, StreamHolds
  <2>4. SUFFICES /\ Relayed(e)
                 /\ relay' \in {"idle", "claimed", "published"}
                 /\ relay' # "idle" => outgoing' = outgoing /\ outbox'[e].status = "delivering"
                 /\ relay' = "published" => e \in published'
    <3>1. ASSUME outgoing' = outgoing PROVE Sending' = e BY <1>3, <3>1 DEF Sending
    <3>2. OutboxRelayed'
      <4>1. \A f \in Events : Relayed(f) BY <2>3, <2>4
      <4>2. QED BY <2>4, <3>1, <4>1 DEF OutboxRelayed, StreamHolds
    <3>3. QED BY <1>4, <2>1, <2>4, <3>1, <3>2 DEF RelayInv
  <2>5. CASE ClaimDelivery
    <3>1. /\ outbox' = [outbox EXCEPT ![e].status = "delivering"] /\ relay' = "claimed"
          /\ outbox[e].status \in {"pending", "delivering"}
          /\ UNCHANGED <<outgoing, published, undelivered>>
      BY <1>3, <2>5 DEF ClaimDelivery, RelayChanges
    <3>2. outbox'[e].status = "delivering"
      BY <1>2, <1>4, <3>1 DEF BaseInv, RecordsInv
    <3>3. QED BY <1>4, <2>3, <3>1, <3>2
  <2>6. CASE SkipDelivered
    <3>1. outbox' = outbox /\ relay' = "idle" /\ outbox[e].status = "delivered"
      BY <1>3, <2>6 DEF SkipDelivered, RelayChanges
    <3>2. QED BY <1>4, <2>2, <2>3, <3>1
  <2>7. CASE Publish
    <3>1. /\ outbox' = outbox /\ relay' = "published" /\ e \in published'
          /\ relay = "claimed" /\ UNCHANGED <<outgoing, undelivered>>
      BY <1>3, <2>7 DEF Publish, RelayChanges
    <3>2. outbox[e].status = "delivering" BY <1>2, <1>3, <3>1 DEF BaseInv, RelayInv
    <3>3. QED BY <1>4, <2>3, <3>1, <3>2
  <2>8. CASE MarkDelivered
    <3>1. /\ outbox' = [outbox EXCEPT ![e].status = "delivered"] /\ relay' = "idle"
          /\ relay = "published" /\ UNCHANGED published
      BY <1>3, <2>8 DEF MarkDelivered, Markable, RelayChanges
    <3>2. outbox'[e].status = "delivered"
      BY <1>2, <1>4, <3>1 DEF BaseInv, RecordsInv
    <3>3. e \in published BY <1>2, <1>3, <3>1 DEF BaseInv, RelayInv
    <3>4. QED BY <3>1, <3>2, <3>3
  <2>9. CASE RelayFails
    <3>1. /\ outbox' = outbox /\ relay' = "idle" /\ UNCHANGED published
          /\ outgoing' = outgoing \/ e \in undelivered'
      BY <1>3, <2>9 DEF RelayFails, RelayChanges
    <3>2. QED BY <1>4, <2>2, <2>3, <3>1
  <2>10. QED BY <2>5, <2>6, <2>7, <2>8, <2>9 DEF Relay
<1>14. Handled' = Handled BY <1>1 DEF Handled, Handling
<1>15. StreamInv' /\ NothingStranded'
  BY <1>1, <1>2 DEF FlowInv, StreamInv, NothingStranded, Claimable, Claimed
<1>16. WorkerInv' BY <1>1, <1>2, <1>14 DEF FlowInv, WorkerInv, Sold
<1>17. CurrentInv'
  BY <1>1, <1>2, <1>14 DEF FlowInv, CurrentInv, LastIsNewest, Followed, Deciding, Sold
<1>18. QED
  BY <1>7, <1>8, <1>9, <1>11, <1>12, <1>13, <1>15, <1>16, <1>17 DEF BaseInv, FlowInv

-----------------------------------------------------------------------------
(* The registry beside the pipeline *)

LEMMA LostGrows == ASSUME [RegistryNext]_registryVars PROVE lost \subseteq lost'
<1>1. CASE UNCHANGED registryVars BY <1>1 DEF registryVars
<1>2. CASE \E c \in Connections : Register(c) BY <1>2 DEF Register
<1>3. CASE \E c \in Stripe : Disable(c) \/ RequestReconnect(c) \/ Revoke(c)
  BY <1>3 DEF Disable, DisableAccount, RequestReconnect, Revoke
<1>4. CASE \E t \in Tokens : Onboarding(t)
  BY <1>4 DEF Onboarding, StartOAuth, StartController, CreateAccount, ExchangeCode,
              BindController, Return, BindOAuth, ReturnController, Activate, EndVisit
<1>5. CASE FinishRevocation BY <1>5 DEF FinishRevocation, DisableAccount
<1>6. CASE \E c \in Smtp, k \in Credentials : ActivateSmtp(c, k) BY <1>6 DEF ActivateSmtp
<1>7. QED BY <1>1, <1>2, <1>3, <1>4, <1>5, <1>6 DEF RegistryNext

\* Stripe may take a grant back; that changes no record.
LEMMA GrantsMove ==
  ASSUME FreshInv, granted' \in SUBSET Accounts,
         UNCHANGED <<conn, claim, unbound, isolation, visit, revocation, made, lost>>
  PROVE  FreshInv'
<1>1. RegistryTypeOK' BY DEF FreshInv, RegistryInv, RegistryTypeOK
<1>2. RegistryInv'
  BY <1>1 DEF FreshInv, RegistryInv, VisitShape, RevocationShape, SentinelsAgree
<1>3. VisitsCarry' /\ AccountsPlaced' BY DEF FreshInv, VisitsCarry, VisitCarries, AccountsPlaced
<1>4. QED BY <1>2, <1>3 DEF FreshInv

\* A deauthorisation that Stripe tells of disables the connection as one on the
\* operator's request does.
LEMMA RevokedFresh ==
  ASSUME PipelineInv, DisableRevoked PROVE FreshInv'
<1> DEFINE c == receipt[Handled].connection
           a == event[Handled].account
<1>1. /\ CanDisableAccount(c, a, worker.connection) /\ DisableAccount(c, a)
      /\ visit' = Outdate(c) /\ UNCHANGED <<unbound, isolation, revocation, granted, made>>
      /\ worker.pc = "retrieved"
  BY DEF DisableRevoked
<1>2. c \in Stripe /\ Handled \in Events BY <1>1, Working
<1>3. a \in Accounts
  BY <1>1, <1>2 DEF CanDisableAccount, PipelineInv, BaseInv, StripeInv
<1>4. FreshInv /\ RegistryInv BY DEF PipelineInv, FreshInv
<1> HIDE DEF a, c
<1>5. /\ SentinelsAgree' /\ RecordsTyped' /\ lost' \in SUBSET Stripe
      /\ claim' \in [Accounts -> Stripe \cup {NoConnection}]
  BY <1>1, <1>2, <1>3, <1>4, DisablingAgrees, RegistryAssumption DEF RegistryInv
<1>6. VisitShape' /\ visit' \in [Tokens -> VisitRecords]
  BY <1>1, <1>4, OutdatingKeeps DEF RegistryInv
<1>7. RevocationShape' BY <1>1, <1>4 DEF RegistryInv, RevocationShape
<1>8. RegistryTypeOK'
  BY <1>1, <1>4, <1>5, <1>6 DEF RegistryInv, RegistryTypeOK, RecordsTyped, VisitRecords
<1>9. RegistryInv' BY <1>5, <1>6, <1>7, <1>8 DEF RegistryInv
<1>10. VisitsCarry' /\ AccountsPlaced'
  BY <1>1, <1>2, <1>3, <1>4, <1>9, DisableAccountFresh, RegistryAssumption
<1>11. QED BY <1>9, <1>10 DEF FreshInv

LEMMA NextRegistry ==
  ASSUME PipelineInv, [Next]_allVars PROVE FreshInv'
<1> USE DEF PipelineInv
<1>1. CASE [RegistryNext]_registryVars
  <2>1. RegistryInv' BY <1>1, NextInv, RegistryAssumption DEF FreshInv
  <2>2. QED BY <1>1, <2>1, NextFresh, RegistryAssumption
<1>2. CASE UNCHANGED registryVars
  <2>1. [RegistryNext]_registryVars BY <1>2
  <2>2. QED BY <1>1, <2>1
<1>3. CASE Stripes /\ UNCHANGED <<conn, claim, unbound, isolation, visit, revocation, made, lost>>
  <2>1. granted \in SUBSET Accounts BY DEF FreshInv, RegistryInv, RegistryTypeOK
  <2>2. granted' \in SUBSET Accounts BY <1>3, <2>1 DEF Stripes, Revoked
  <2>3. QED BY <1>3, <2>2, GrantsMove
<1>4. CASE DisableRevoked BY <1>4, RevokedFresh
<1>5. QED
  <2>1. CASE UNCHANGED allVars BY <1>2, <2>1 DEF allVars
  <2>2. CASE \E e \in Events : Deliver(e) BY <1>2, <2>2 DEF Deliver
  <2>3. CASE Worker /\ ~DisableRevoked
    BY <1>2, <2>3
    DEF Worker, ClaimIngress, RetrieveRevoked, Plan, PlanUnmapped, RetryIngress,
        CompleteIngress, WorkerFails
  <2>4. CASE RecordMapping \/ Relay
    BY <1>2, <2>4
    DEF RecordMapping, Relay, ClaimDelivery, SkipDelivered, Publish, MarkDelivered, RelayFails,
        RelayChanges
  <2>5. QED BY <1>1, <1>3, <1>4, <2>1, <2>2, <2>3, <2>4 DEF Next

-----------------------------------------------------------------------------
(* The theorems *)

LEMMA InitPipeline == ASSUME PipelineInit PROVE PipelineInv
<1> USE DEF PipelineInit
<1>1. Seller \in Stripe /\ Seller \in Connections /\ Account \in Accounts
      /\ NoAccount \notin Accounts /\ NoConnection \notin Connections /\ "active" \in States
      /\ 0 \in 0..MaxClock /\ NoEvent \notin Events
  BY PipelineAssumption, RegistryAssumption
  DEF PipelineAssumption, RegistryAssumption, Stripe, Connections
<1>2. /\ conn \in [Connections ->
           [status : {"unregistered", "pending", "active", "disabled"},
            revision : Nat, account : Accounts \cup {NoAccount},
            ready : BOOLEAN, credential : Credentials \cup {NoCredential}]]
      /\ conn[Seller].account = Account /\ conn[Seller].status = "active"
      /\ \A c \in Connections \ {Seller} : conn[c] = Unregistered
      /\ Unregistered.status = "unregistered" /\ Unregistered.revision = 0
      /\ Unregistered.account = NoAccount
  BY <1>1 DEF Unregistered
<1>3. /\ visit \in [Tokens -> VisitRecords] /\ \A t \in Tokens : visit[t].pc = "none"
  BY DEF NoVisit, VisitRecords
<1>4. RegistryTypeOK
  <2>1. claim \in [Accounts -> Stripe \cup {NoConnection}] BY <1>1
  <2>2. revocation \in
       [pc : {"idle", "revoked"}, connection : Stripe \cup {NoConnection},
        revision : Nat, account : Accounts \cup {NoAccount}]
    BY DEF NoRevocation
  <2>3. QED BY <1>1, <1>2, <1>3, <2>1, <2>2 DEF RegistryTypeOK, VisitRecords
<1>5. SentinelsAgree
  <2>1. ASSUME NEW a \in Accounts, NEW c \in Stripe PROVE claim[a] = c <=> conn[c].account = a
    <3>1. c \in Connections /\ c # NoConnection BY <1>1 DEF Connections
    <3>2. claim[a] = IF a = Account THEN Seller ELSE NoConnection OBVIOUS
    <3>3. QED BY <1>1, <1>2, <3>1, <3>2
  <2>2. QED BY <2>1 DEF SentinelsAgree
<1>6. FreshInv
  <2>1. VisitShape /\ VisitsCarry BY <1>3 DEF VisitShape, VisitsCarry, VisitCarries
  <2>2. RevocationShape BY DEF RevocationShape, NoRevocation
  <2>3. AccountsPlaced BY <1>1, <1>2 DEF AccountsPlaced, Connections
  <2>4. QED BY <1>4, <1>5, <2>1, <2>2, <2>3 DEF FreshInv, RegistryInv
<1>7. /\ \A e \in Events : /\ receipt[e] = NoReceipt /\ ingress[e] = NoIngress
                           /\ outbox[e] = NoEnvelope /\ event[e] = NotEmitted
      /\ NoReceipt.status = "none" /\ NoIngress.status = "none" /\ NoEnvelope.status = "none"
      /\ NoReceipt.revision = NoIngress.revision /\ NoEnvelope.sourceRevision = 0
      /\ NotEmitted.kind = "none" /\ NotEmitted.created = 0
  BY DEF NoReceipt, NoIngress, NoEnvelope, NotEmitted
<1>8. Entered = {} BY <1>7 DEF Entered
<1>9. projection.revision = 0 /\ worker.pc = "idle" /\ worker \in WorkerRecords
  BY DEF NoProjection, IdleWorker, WorkerRecords
<1>10. \A r : ~StreamHolds(stream, r) /\ ~StreamHolds(outgoing, r)
  BY DEF StreamHolds
<1>11. RecordsInv
  BY <1>1 DEF RecordsInv, NoReceipt, NoIngress, NoEnvelope, NoProjection
<1>12. StripeInv BY <1>1, <1>7 DEF StripeInv, NotEmitted
<1>13. ReceiptsAgree /\ RevokedAreLost BY <1>7 DEF ReceiptsAgree, RevokedAreLost
<1>14. RevisionsInv
  <2>1. Cardinality(Entered) = 0 BY <1>8, FS_EmptySet
  <2>2. 1..projection.revision = {} BY <1>9
  <2>3. QED BY <1>7, <1>8, <1>9, <2>1, <2>2 DEF RevisionsInv
<1>15. LastInv BY <1>9 DEF LastInv
<1>16. RelayInv BY <1>7, <1>10 DEF RelayInv, OutboxRelayed
<1>17. StreamInv BY <1>9, <1>10 DEF StreamInv
<1>18. WorkerInv BY <1>9 DEF WorkerInv
<1>19. NothingStranded BY <1>7 DEF NothingStranded
<1>20. CurrentInv BY DEF CurrentInv, LastIsNewest
<1>21. QED
  BY <1>6, <1>11, <1>12, <1>13, <1>14, <1>15, <1>16, <1>17, <1>18, <1>19, <1>20
  DEF PipelineInv, BaseInv, FlowInv

LEMMA NextPipeline == ASSUME PipelineInv, [Next]_allVars PROVE PipelineInv'
<1>1. FreshInv' BY NextRegistry
<1>2. CASE UNCHANGED recordVars /\ lost \subseteq lost' /\ UNCHANGED <<stream, worker, givenUp>>
  BY <1>1, <1>2, BaseKept, FlowKept DEF PipelineInv
<1>3. CASE RegistryNext /\ UNCHANGED pipelineVars
  BY <1>2, <1>3, LostGrows DEF pipelineVars, recordVars
<1>4. CASE UNCHANGED allVars
  BY <1>2, <1>4 DEF allVars, registryVars, pipelineVars, recordVars
<1>5. CASE RecordMapping
  BY <1>2, <1>5
  DEF RecordMapping, recordVars, registryVars, stripeVars, workerVars, relayVars
<1>6. CASE /\ Stripes
           /\ UNCHANGED <<conn, claim, unbound, isolation, visit, revocation, made, lost,
                          receipt, ingress, workerVars, mapped, projection, outbox,
                          relayVars, givenUp, redeliveries>>
  BY <1>1, <1>6, StripesInv DEF PipelineInv
<1>7. CASE \E e \in Events : Deliver(e) BY <1>1, <1>7, DeliverInv DEF PipelineInv
<1>8. CASE Worker
  BY <1>1, <1>8, ClaimInv, RetrieveInv, DisableRevokedInv, PlanInv, PlanUnmappedInv,
     RetryInv, CompleteInv, WorkerFailsInv
  DEF Worker, PipelineInv
<1>9. CASE Relay BY <1>1, <1>9, RelayKeeps DEF PipelineInv
<1>10. QED BY <1>3, <1>4, <1>5, <1>6, <1>7, <1>8, <1>9 DEF Next

\* Every step of the registry, Stripe, the handler, the worker and the relay
\* keeps their records, the stream and the worker's decision as described.
THEOREM PipelineInductive == Spec => []PipelineInv
<1>1. PipelineInit => PipelineInv BY InitPipeline
<1>2. PipelineInv /\ [Next]_allVars => PipelineInv' BY NextPipeline
<1>3. QED BY <1>1, <1>2, PTL DEF Spec

\* The registry's invariants hold beside the pipeline: a deauthorisation that a
\* webhook brings, between any two steps of an onboarding, leaves the sentinels
\* in step and no way for a lost account to come back.
THEOREM RegistryHoldsBeside ==
  Spec => [](SentinelsAgree /\ ActivationIsFresh /\ LostForGood)
<1>1. PipelineInv => SentinelsAgree
  BY DEF PipelineInv, FreshInv, RegistryInv
<1>2. PipelineInv => ActivationIsFresh
  BY DEF PipelineInv, FreshInv, ActivationIsFresh, VisitsCarry, VisitCarries
<1>3. PipelineInv => LostForGood
  BY DEF PipelineInv, FreshInv, RegistryInv, RegistryTypeOK, LostForGood, AccountsPlaced
<1>4. QED BY <1>1, <1>2, <1>3, PipelineInductive, PTL

LEMMA RevisionsBounded ==
  ASSUME PipelineInv PROVE projection.revision <= Cardinality(Events)
<1>1. Entered \subseteq Events /\ IsFiniteSet(Events)
  BY PipelineAssumption DEF Entered, PipelineAssumption
<1>2. Cardinality(Entered) <= Cardinality(Events) BY <1>1, FS_Subset
<1>3. QED BY <1>2 DEF PipelineInv, BaseInv, RevisionsInv

\* Every record keeps its shape, and the projection takes no more revisions
\* than there are events (stripe_store.py complete_ingress).
THEOREM PipelineTypesHold == Spec => []TypeOK
<1>1. ASSUME PipelineInv PROVE TypeOK
  <2> DEFINE N == Cardinality(Events)
  <2>1. /\ N \in Nat /\ projection.revision \in Nat /\ projection.revision <= N
        /\ \A e \in Events : outbox[e].sourceRevision \in Nat
    BY <1>1, RevisionsBounded, FS_CardinalityType, PipelineAssumption
    DEF PipelineAssumption, PipelineInv, BaseInv, RecordsInv
  <2> HIDE DEF N
  <2>2. \A e \in Events : outbox[e].sourceRevision \in 0..N
    <3>1. ASSUME NEW e \in Events PROVE outbox[e].sourceRevision \in 0..N
      <4>1. CASE e \in Entered
        <5>1. outbox[e].sourceRevision \in 1..projection.revision
          BY <1>1, <4>1 DEF PipelineInv, BaseInv, RevisionsInv
        <5>2. QED BY <2>1, <5>1
      <4>2. CASE e \notin Entered
        <5>1. outbox[e].sourceRevision = 0
          BY <1>1, <4>2 DEF PipelineInv, BaseInv, RevisionsInv
        <5>2. QED BY <2>1, <5>1
      <4>3. QED BY <4>1, <4>2
    <3>2. QED BY <3>1
  <2>3. projection.revision \in 0..N BY <2>1
  <2>4. /\ RecordsInv /\ worker \in WorkerRecords
    BY <1>1 DEF PipelineInv, BaseInv, FlowInv, WorkerInv
  <2>5. projection \in [revision : 0..N, state : States \cup {"none"},
                        created : 0..MaxClock, event : Events \cup {0}]
    BY <2>3, <2>4 DEF RecordsInv
  <2>6. outbox \in [Events ->
          [status : {"none", "pending", "delivering", "delivered"},
           sourceRevision : 0..N, tells : Tellings \cup {"none"}]]
    BY <2>2, <2>4 DEF RecordsInv
  <2>7. relay \in {"idle", "claimed", "published"}
    BY <1>1 DEF PipelineInv, BaseInv, RelayInv
  <2>8. QED BY <2>4, <2>5, <2>6, <2>7 DEF TypeOK, RecordsInv, WorkerRecords, N
<1>2. QED BY <1>1, PipelineInductive, PTL

\* The receipt and the ingress record of an event tell the same stage at the
\* same revision, whoever of the handler, its redeliveries and the worker wrote
\* last (accept_supported, claim_ingress, retry_ingress, complete_ingress).
THEOREM ReceiptsStayInStep == Spec => []ReceiptsAgree
<1>1. PipelineInv => ReceiptsAgree BY DEF PipelineInv, BaseInv
<1>2. QED BY <1>1, PipelineInductive, PTL

\* An accepted event that is neither settled nor given up by the stream has a
\* record in it that a worker can claim, or claim again.
THEOREM AcceptedEventsAreNotStranded == Spec => []NothingStranded
<1>1. PipelineInv => NothingStranded BY DEF PipelineInv, FlowInv
<1>2. QED BY <1>1, PipelineInductive, PTL

\* Whatever order the events come in and however often they are retried, the
\* projection shows the subscription's state at Stripe once its last change is
\* settled, unless another change of the same second has a greater id.
THEOREM ProjectionFollows == Spec => []ProjectionCurrent
<1>1. ASSUME PipelineInv, latest # NoEvent,
             \A e \in Events : Sold(e) => receipt[e].status \in {"processed", "ignored"},
             \A e \in Events : Sold(e) /\ e > latest => event[e].created < event[latest].created
      PROVE  projection.state = subscription
  <2>1. LastIsNewest BY <1>1 DEF LastIsNewest
  <2>2. latest \in Events /\ Sold(latest) BY <1>1 DEF PipelineInv, BaseInv, StripeInv
  <2>3. Followed BY <1>1, <2>2 DEF Followed
  <2>4. QED BY <1>1, <2>1, <2>3 DEF PipelineInv, FlowInv, CurrentInv
<1>2. PipelineInv => ProjectionCurrent BY <1>1 DEF ProjectionCurrent
<1>3. QED BY <1>2, PipelineInductive, PTL

\* Wherever the relay dies between claim_delivery, publish and mark_delivered, an
\* outgoing event is marked only after the topic was sent it, stays in the stream
\* until then unless the stream gives it up, and is not sent again once marked.
THEOREM EventsAreRelayed == Spec => []OutboxRelayed
<1>1. PipelineInv => OutboxRelayed BY DEF PipelineInv, BaseInv, RelayInv
<1>2. QED BY <1>1, PipelineInductive, PTL

\* A deauthorisation settled as processed has taken its connection's account
\* away, and no onboarding beside it gives the connection another.
THEOREM DeauthorizationsHold == Spec => []DeauthorizationHolds
<1>1. ASSUME PipelineInv, NEW e \in Events, event[e].kind = "deauthorized",
             receipt[e].status = "processed"
      PROVE  conn[receipt[e].connection].account = NoAccount
  <2>1. receipt[e].connection \in lost BY <1>1 DEF PipelineInv, BaseInv, RevokedAreLost
  <2>2. lost \subseteq Stripe BY <1>1 DEF PipelineInv, FreshInv, RegistryInv, RegistryTypeOK
  <2>3. QED BY <1>1, <2>1, <2>2 DEF PipelineInv, FreshInv, AccountsPlaced
<1>2. PipelineInv => DeauthorizationHolds BY <1>1 DEF DeauthorizationHolds
<1>3. QED BY <1>2, PipelineInductive, PTL

\* A settled event is never processed again: a redelivery needs a claim that is
\* under way and a worker's write the claim it holds.
THEOREM SettlementsStay == Spec => SettledOnce
<1>1. ASSUME PipelineInv, [Next]_allVars, NEW e \in Events, ingress[e].status = "processed"
      PROVE  ingress'[e] = ingress[e] /\ receipt'[e] = receipt[e]
  <2>1. receipt[e].status \in Terminal
    BY <1>1 DEF PipelineInv, BaseInv, ReceiptsAgree, Terminal
  <2>2. CASE UNCHANGED <<ingress, receipt>> BY <2>2
  <2>3. ASSUME NEW f \in Events, Deliver(f) PROVE f # e
    <3>1. PICK c \in Stripe : Accept(f, c) \/ Reactivate(f, c) BY <2>3 DEF Deliver
    <3>2. receipt[f].status \in {"none", "processing"}
      BY <3>1 DEF Accept, Reactivate, Redeliverable
    <3>3. QED BY <2>1, <3>2 DEF Terminal
  <2>4. CASE \E f \in Events : Deliver(f)
    <3>1. PICK f \in Events : Deliver(f) BY <2>4
    <3>2. f # e BY <2>3, <3>1
    <3>3. PICK c \in Stripe : Accept(f, c) \/ Reactivate(f, c) BY <3>1 DEF Deliver
    <3>4. QED BY <1>1, <3>2, <3>3 DEF Accept, Reactivate, PipelineInv, BaseInv, RecordsInv
  <2>5. CASE ClaimIngress \/ RetryIngress \/ CompleteIngress
    <3>1. UNCHANGED <<ingress, receipt>> \/ ingress[Handled].status \in {"pending", "processing"}
      BY <2>5 DEF ClaimIngress, RetryIngress, CompleteIngress, Claimable, StillClaimed, Handled
    <3>2. CASE ingress[Handled].status \in {"pending", "processing"}
      <4>1. Handled # e BY <1>1, <3>2
      <4>2. DOMAIN ingress = Events /\ DOMAIN receipt = Events
        BY <1>1, RecordsRead DEF PipelineInv, BaseInv
      <4>3. CASE ClaimIngress
        BY <1>1, <4>1, <4>2, <4>3 DEF ClaimIngress, Handled
      <4>4. CASE RetryIngress BY <1>1, <4>1, <4>2, <4>4 DEF RetryIngress
      <4>5. CASE CompleteIngress
        BY <1>1, <4>1, <4>2, <4>5 DEF CompleteIngress
      <4>6. QED BY <2>5, <4>3, <4>4, <4>5
    <3>3. QED BY <2>2, <3>1, <3>2
  <2>6. CASE Worker /\ ~(ClaimIngress \/ RetryIngress \/ CompleteIngress)
    BY <2>2, <2>6 DEF Worker, RetrieveRevoked, DisableRevoked, Plan, PlanUnmapped, WorkerFails
  <2>7. CASE RegistryNext /\ UNCHANGED pipelineVars BY <2>2, <2>7 DEF pipelineVars
  <2>8. CASE RecordMapping \/ Relay
    BY <2>2, <2>8
    DEF RecordMapping, Relay, ClaimDelivery, SkipDelivered, Publish, MarkDelivered, RelayFails,
        RelayChanges
  <2>9. CASE UNCHANGED allVars BY <2>2, <2>9 DEF allVars, pipelineVars
  <2>10. QED BY <1>1, <2>2, <2>4, <2>5, <2>6, <2>7, <2>8, <2>9 DEF Next
<1>2. PipelineInv /\ [Next]_allVars =>
        [\A e \in Events : ingress[e].status = "processed" =>
           ingress'[e] = ingress[e] /\ receipt'[e] = receipt[e]]_<<ingress, receipt>>
  BY <1>1
<1>3. QED BY <1>2, PipelineInductive, PTL DEF Spec, SettledOnce

-----------------------------------------------------------------------------
(* The log that consumers are promised *)

\* A cancellation that the projection, or what the worker is about to write,
\* shows has happened, and what the worker writes is read after the projection.
Dead(state) == Told[state] \in Canceled
CanceledInv ==
  /\ projection.revision # 0 /\ Dead(projection.state) => Dead(subscription)
  /\ worker.pc = "planned" /\ ~worker.stale =>
       /\ Dead(worker.seen) => Dead(subscription)
       /\ projection.revision # 0 /\ Dead(projection.state) => Dead(worker.seen)

LEMMA CanceledKept ==
  ASSUME PipelineInv, CanceledInv, [Next]_allVars PROVE CanceledInv'
<1> USE DEF CanceledInv
<1>0. worker \in WorkerRecords BY DEF PipelineInv, FlowInv, WorkerInv
<1>1. CASE UNCHANGED <<projection, worker, subscription>> BY <1>1 DEF Dead
<1>2. CASE UNCHANGED <<projection, subscription>> /\ (worker'.pc # "planned" \/ worker'.stale)
  BY <1>2 DEF Dead
<1>3. CASE Stripes /\ UNCHANGED <<workerVars, projection>>
  <2>1. CASE \E e \in Events, state \in States : Change(e, state)
    <3>1. Dead(subscription) => Dead(subscription') BY <2>1 DEF Change, Dead
    <3>2. UNCHANGED <<projection, worker>> BY <1>3 DEF workerVars
    <3>3. QED BY <3>1, <3>2 DEF Dead
  <2>2. CASE \E e \in Events : Revoked(e, Account)
    BY <1>1, <1>3, <2>2 DEF Revoked, workerVars
  <2>3. QED BY <1>3, <2>1, <2>2 DEF Stripes
<1>4. CASE Plan
  <2>1. UNCHANGED <<projection, subscription>> BY <1>4 DEF Plan, stripeVars
  <2>2. CASE worker' = Reviewed
    <3>1. worker'.stale BY <1>0, <2>2 DEF Reviewed, WorkerRecords
    <3>2. QED BY <1>2, <2>1, <3>1
  <2>3. CASE worker' # Reviewed
    <3>1. \E stale, decision :
            worker' = [worker EXCEPT !.pc = "planned", !.stale = stale,
                         !.seen = subscription, !.decision = decision]
      BY <1>4, <2>3 DEF Plan
    <3>2. worker'.seen = subscription BY <1>0, <3>1 DEF WorkerRecords
    <3>3. QED BY <2>1, <3>2 DEF Dead
  <2>4. QED BY <2>2, <2>3
<1>5. CASE PlanUnmapped
  <2>1. UNCHANGED <<projection, subscription>> BY <1>5 DEF PlanUnmapped, stripeVars
  <2>2. worker' \in {Unmapped, Reviewed, [worker EXCEPT !.pc = "unmapped"]}
    BY <1>5 DEF PlanUnmapped
  <2>3. worker'.pc # "planned" \/ worker'.stale
    BY <1>0, <2>2 DEF Unmapped, Reviewed, WorkerRecords
  <2>4. QED BY <1>2, <2>1, <2>3
<1>6. CASE RetrieveRevoked \/ DisableRevoked
  <2>1. UNCHANGED <<projection, subscription>>
    BY <1>6 DEF RetrieveRevoked, DisableRevoked, stripeVars
  <2>2. worker'.pc # "planned" \/ worker'.stale
    <3>1. CASE RetrieveRevoked
      <4>1. worker'.pc = "retrieved" BY <1>0, <3>1 DEF RetrieveRevoked, WorkerRecords
      <4>2. QED BY <4>1
    <3>2. CASE DisableRevoked
      <4>1. worker' = [worker EXCEPT !.pc = "planned", !.decision = "processed", !.stale = TRUE]
        BY <3>2 DEF DisableRevoked
      <4>2. QED BY <1>0, <4>1 DEF WorkerRecords
    <3>3. QED BY <1>6, <3>1, <3>2
  <2>3. QED BY <1>2, <2>1, <2>2
<1>7. CASE ClaimIngress \/ RetryIngress \/ WorkerFails
  <2>1. UNCHANGED <<projection, subscription>>
    BY <1>7 DEF ClaimIngress, RetryIngress, WorkerFails, stripeVars
  <2>2. worker' = IdleWorker \/
          \E n, k : worker' = [IdleWorker EXCEPT !.pc = "claimed", !.revision = n, !.attempts = k]
    <3>1. CASE ClaimIngress
      BY <3>1, Zenon DEF ClaimIngress, FailRecord, NextRecord
    <3>2. CASE RetryIngress \/ WorkerFails
      BY <3>2 DEF RetryIngress, WorkerFails, FailRecord, NextRecord
    <3>3. QED BY <1>7, <3>1, <3>2
  <2>3. worker'.pc \in {"idle", "claimed"}
    <3>1. CASE worker' = IdleWorker BY <3>1 DEF IdleWorker
    <3>2. ASSUME NEW n, NEW k,
                 worker' = [IdleWorker EXCEPT !.pc = "claimed", !.revision = n, !.attempts = k]
          PROVE  worker'.pc = "claimed"
      BY ONLY <3>2, SMT DEF IdleWorker
    <3>3. QED BY <2>2, <3>1, <3>2
  <2>4. QED BY <1>2, <2>1, <2>3
<1>8. CASE CompleteIngress
  <2>1. worker'.pc = "idle" /\ subscription' = subscription /\ worker.pc = "planned"
    BY <1>8 DEF CompleteIngress, FailRecord, NextRecord, IdleWorker, stripeVars
  <2>2. CASE worker.stale BY <1>2, <1>8, <2>1, <2>2 DEF CompleteIngress
  <2>3. CASE ~worker.stale
    <3>1. projection'.state = worker.seen BY <1>8, <2>3 DEF CompleteIngress
    <3>2. QED BY <2>1, <2>3, <3>1 DEF Dead
  <2>4. QED BY <2>2, <2>3
<1>9. CASE Relay \/ RecordMapping
  BY <1>1, <1>9
  DEF Relay, ClaimDelivery, SkipDelivered, Publish, MarkDelivered, RelayFails, RelayChanges,
      RecordMapping, stripeVars, workerVars
<1>10. CASE \E e \in Events : Deliver(e)
  BY <1>1, <1>10 DEF Deliver
<1>11. CASE (RegistryNext /\ UNCHANGED pipelineVars) \/ UNCHANGED allVars
  BY <1>1, <1>11 DEF pipelineVars, allVars
<1>12. QED
  BY <1>3, <1>4, <1>5, <1>6, <1>7, <1>8, <1>9, <1>10, <1>11 DEF Next, Worker

\* eventLog, of the outgoing events, what Stripe emitted and the projection's
\* revision.
Picked(ob, n) == CHOOSE e \in Events : ob[e].sourceRevision = n
LogOf(ob, ev, k) ==
  [n \in 1..k |-> [event |-> Picked(ob, n), created |-> ev[Picked(ob, n)].created,
                   tells |-> ob[Picked(ob, n)].tells]]

LEMMA EntryAt ==
  ASSUME NEW ob, NEW ev, NEW k \in Nat, NEW n \in 1..k, NEW e \in Events,
         ob[e].sourceRevision = n, \A f \in Events : ob[f].sourceRevision = n => f = e
  PROVE  LogOf(ob, ev, k)[n] = [event |-> e, created |-> ev[e].created, tells |-> ob[e].tells]
<1>1. Picked(ob, n) = e
  <2>1. \E f \in Events : ob[f].sourceRevision = n OBVIOUS
  <2>2. Picked(ob, n) \in Events /\ ob[Picked(ob, n)].sourceRevision = n BY <2>1 DEF Picked
  <2>3. QED BY <2>2
<1>2. QED BY <1>1 DEF LogOf

\* The entry of a revision, and its place in the log.
LEMMA EntryOfRevision ==
  ASSUME PipelineInv, NEW n \in 1..projection.revision
  PROVE  \E e \in Entered :
           /\ outbox[e].sourceRevision = n
           /\ \A f \in Events : outbox[f].sourceRevision = n => f = e
           /\ LogOf(outbox, event, projection.revision)[n] =
                [event |-> e, created |-> event[e].created, tells |-> outbox[e].tells]
<1>1. projection.revision \in Nat BY DEF PipelineInv, BaseInv, RecordsInv
<1>2. PICK e \in Entered : outbox[e].sourceRevision = n
  BY DEF PipelineInv, BaseInv, RevisionsInv
<1>3. ASSUME NEW f \in Events, outbox[f].sourceRevision = n PROVE f = e
  <2>1. f \in Entered
    BY <1>1, <1>3 DEF PipelineInv, BaseInv, RevisionsInv
  <2>2. QED BY <1>2, <1>3, <2>1 DEF PipelineInv, BaseInv, RevisionsInv
<1>4. e \in Events BY <1>2 DEF Entered
<1>5. QED BY <1>1, <1>2, <1>3, <1>4, EntryAt

LEMMA LogLength ==
  ASSUME NEW ob, NEW ev, NEW k \in Nat
  PROVE  /\ DOMAIN LogOf(ob, ev, k) = 1..k
         /\ LogOf(ob, ev, k) = [n \in 1..k |-> LogOf(ob, ev, k)[n]]
BY DEF LogOf

LEMMA LogTyped ==
  ASSUME PipelineInv
  PROVE  /\ LogOf(outbox, event, projection.revision) \in Seq(Log!Entries)
         /\ Len(LogOf(outbox, event, projection.revision)) = projection.revision
<1> DEFINE L == LogOf(outbox, event, projection.revision)
           k == projection.revision
<1>1. k \in Nat BY DEF PipelineInv, BaseInv, RecordsInv
<1>2. ASSUME NEW n \in 1..k PROVE L[n] \in Log!Entries
  <2>1. PICK e \in Entered :
          L[n] = [event |-> e, created |-> event[e].created, tells |-> outbox[e].tells]
    BY <1>2, EntryOfRevision
  <2>2. e \in Events /\ event[e].created \in 0..MaxClock /\ outbox[e].tells \in Tellings
    BY <2>1 DEF PipelineInv, BaseInv, StripeInv, RevisionsInv, Entered
  <2>3. QED BY <2>1, <2>2 DEF Log!Entries
<1>3. DOMAIN L = 1..k /\ L = [n \in 1..k |-> L[n]] BY <1>1, LogLength
<1> HIDE DEF L, k
<1>4. L \in Seq(Log!Entries) BY <1>1, <1>2, <1>3
<1>5. Len(L) = k BY <1>1, <1>3, <1>4
<1>6. QED BY <1>4, <1>5 DEF L, k
LEMMA ShownLog == LogOf(outbox, event, projection.revision) = eventLog
BY DEF LogOf, Picked, eventLog, EventOf, Entry

\* The first k entries stay when their events keep their revision, state and
\* time, and no other event takes their revisions.
SameEntry(ob, ev, ob2, ev2, n) ==
  \E e \in Events :
    /\ ob[e].sourceRevision = n /\ ob2[e].sourceRevision = n
    /\ \A f \in Events : ob[f].sourceRevision = n => f = e
    /\ \A f \in Events : ob2[f].sourceRevision = n => f = e
    /\ ob2[e].tells = ob[e].tells /\ ev2[e].created = ev[e].created
LEMMA LogKept ==
  ASSUME NEW ob, NEW ev, NEW ob2, NEW ev2, NEW k \in Nat, NEW k2 \in Nat, k <= k2,
         \A n \in 1..k : SameEntry(ob, ev, ob2, ev2, n)
  PROVE  \A n \in 1..k : LogOf(ob2, ev2, k2)[n] = LogOf(ob, ev, k)[n]
<1>1. SUFFICES ASSUME NEW n \in 1..k
               PROVE  LogOf(ob2, ev2, k2)[n] = LogOf(ob, ev, k)[n]
  OBVIOUS
<1>2. PICK e \in Events :
        /\ ob[e].sourceRevision = n /\ ob2[e].sourceRevision = n
        /\ \A f \in Events : ob[f].sourceRevision = n => f = e
        /\ \A f \in Events : ob2[f].sourceRevision = n => f = e
        /\ ob2[e].tells = ob[e].tells /\ ev2[e].created = ev[e].created
  BY DEF SameEntry
<1>3. n \in 1..k2 OBVIOUS
<1>4. LogOf(ob, ev, k)[n] = [event |-> e, created |-> ev[e].created, tells |-> ob[e].tells]
  BY <1>2, EntryAt
<1>5. LogOf(ob2, ev2, k2)[n] = [event |-> e, created |-> ev2[e].created, tells |-> ob2[e].tells]
  BY <1>2, <1>3, EntryAt
<1>6. QED BY <1>2, <1>4, <1>5

\* A step that keeps the projection, and what the entered events say.
LEMMA LogStays ==
  ASSUME PipelineInv, projection' = projection,
         \A e \in Events : outbox'[e].sourceRevision = outbox[e].sourceRevision
                           /\ outbox'[e].tells = outbox[e].tells,
         \A e \in Entered : event'[e] = event[e]
  PROVE  eventLog' = eventLog
<1>0. PICK k, ob, ev : k = projection.revision /\ ob = outbox' /\ ev = event' OBVIOUS
<1>1. k \in Nat /\ k <= k BY <1>0 DEF PipelineInv, BaseInv, RecordsInv
<1>2. ASSUME NEW n \in 1..k
      PROVE  SameEntry(outbox, event, ob, ev, n)
  <2>1. PICK e \in Entered : /\ outbox[e].sourceRevision = n
                             /\ \A f \in Events : outbox[f].sourceRevision = n => f = e
    BY <1>0, <1>2, EntryOfRevision
  <2>2. e \in Events BY <2>1 DEF Entered
  <2>3. QED BY <1>0, <2>1, <2>2 DEF SameEntry
<1>3. \A n \in 1..k : LogOf(ob, ev, k)[n] = LogOf(outbox, event, k)[n]
  <2>1. \A n \in 1..k : SameEntry(outbox, event, ob, ev, n) BY <1>2
  <2>2. QED BY <1>1, <2>1, LogKept
<1>4. LogOf(ob, ev, k) = LogOf(outbox, event, k)
  <2>1. LogOf(ob, ev, k) = [n \in 1..k |-> LogOf(ob, ev, k)[n]]
    BY <1>1, LogLength
  <2>2. LogOf(outbox, event, k) = [n \in 1..k |-> LogOf(outbox, event, k)[n]]
    BY <1>1, LogLength
  <2>3. QED BY <1>3, <2>1, <2>2
<1>5. eventLog = LogOf(outbox, event, k) BY <1>0, ShownLog
<1>6. eventLog' = LogOf(ob, ev, k)
  BY <1>0 DEF LogOf, Picked, eventLog, EventOf, Entry
<1>7. QED BY <1>4, <1>5, <1>6

\* Completing an event that the projection follows enters it in the log.
LEMMA LogGrows ==
  ASSUME PipelineInv, CanceledInv, CompleteIngress, ~worker.stale
  PROVE  Log!Next
<1>0. PICK e, k, s, x :
        /\ e = Handled /\ k = projection.revision /\ s = worker.seen
        /\ x = [event |-> e, created |-> event[e].created, tells |-> Told[s]]
  OBVIOUS
<1>1. /\ worker.pc = "planned" /\ event' = event /\ Newer(e) /\ outbox[e].status = "none"
      /\ projection' = [revision |-> k + 1, state |-> s, created |-> event[e].created, event |-> e]
      /\ outbox' = [outbox EXCEPT ![e] =
                      [status |-> "pending", sourceRevision |-> k + 1, tells |-> Told[s]]]
  BY <1>0 DEF CompleteIngress, stripeVars
<1>2. BaseInv /\ FlowInv BY DEF PipelineInv
<1>3. k \in Nat /\ k + 1 \in Nat /\ k <= k + 1
  BY <1>0, <1>2 DEF BaseInv, RecordsInv
<1>4. e \in Events /\ s \in States /\ Told[s] \in Tellings /\ event[e].created \in 0..MaxClock
  <2>1. stream # <<>> BY <1>1, <1>2 DEF FlowInv, StreamInv
  <2>2. e \in Events BY <1>0, <1>2, <2>1, HeadRecord DEF FlowInv
  <2>3. s \in States /\ Told[s] \in Tellings
    BY <1>0, <1>1, <1>2 DEF FlowInv, WorkerInv, Tellings
  <2>4. QED BY <1>2, <2>2, <2>3 DEF BaseInv, StripeInv
<1>5. x \in Log!Entries BY <1>0, <1>4 DEF Log!Entries
<1>6. /\ outbox'[e].sourceRevision = k + 1 /\ outbox'[e].tells = Told[s]
      /\ \A f \in Events \ {e} : outbox'[f] = outbox[f]
  BY <1>1, <1>2, <1>4 DEF BaseInv, RecordsInv
<1>7. e \notin Entered BY <1>1 DEF Entered
<1>8. ASSUME NEW n \in 1..k
      PROVE  SameEntry(outbox, event, outbox', event', n)
  <2>1. PICK f \in Entered : /\ outbox[f].sourceRevision = n
                             /\ \A g \in Events : outbox[g].sourceRevision = n => g = f
    <3>1. n \in 1..projection.revision BY <1>0, <1>8
    <3>2. \E f \in Entered :
            /\ outbox[f].sourceRevision = n
            /\ \A g \in Events : outbox[g].sourceRevision = n => g = f
            /\ LogOf(outbox, event, projection.revision)[n] =
                 [event |-> f, created |-> event[f].created, tells |-> outbox[f].tells]
      BY <3>1, EntryOfRevision
    <3>3. QED BY <3>2
  <2>2. f \in Events /\ f # e BY <1>7, <2>1 DEF Entered
  <2>3. n # k + 1 BY <1>3
  <2>4. QED BY <1>1, <1>6, <2>1, <2>2, <2>3 DEF SameEntry
<1>9. \A n \in 1..k : LogOf(outbox', event', k + 1)[n] = LogOf(outbox, event, k)[n]
  BY <1>3, <1>8, LogKept
<1>10. LogOf(outbox', event', k + 1)[k + 1] = x
  <2>1. ASSUME NEW f \in Events, outbox'[f].sourceRevision = k + 1 PROVE f = e
    <3>1. CASE f # e
      <4>1. outbox[f].sourceRevision = k + 1 BY <1>6, <2>1, <3>1
      <4>2. f \in Entered BY <1>2, <1>3, <4>1 DEF BaseInv, RevisionsInv
      <4>3. k + 1 \in 1..k BY <1>0, <1>2, <4>1, <4>2 DEF BaseInv, RevisionsInv
      <4>4. QED BY <1>3, <4>3
    <3>2. QED BY <3>1
  <2>2. k + 1 \in 1..(k + 1) BY <1>3
  <2>3. LogOf(outbox', event', k + 1)[k + 1] =
          [event |-> e, created |-> event'[e].created, tells |-> outbox'[e].tells]
    BY <1>3, <1>4, <1>6, <2>1, <2>2, EntryAt
  <2>4. QED BY <1>0, <1>1, <1>6, <2>3
<1>11. PICK L, M : L = LogOf(outbox, event, k) /\ M = LogOf(outbox', event', k + 1)
  OBVIOUS
<1>12. L \in Seq(Log!Entries) /\ Len(L) = k /\ DOMAIN L = 1..k
  BY <1>0, <1>11, LogTyped
<1>13. M = Append(L, x)
  <2>1. M = [n \in 1..(k + 1) |-> M[n]] BY <1>3, <1>11, LogLength
  <2>2. /\ Append(L, x) \in Seq(Log!Entries) /\ Len(Append(L, x)) = k + 1
        /\ \A n \in 1..k : Append(L, x)[n] = L[n]
        /\ Append(L, x)[k + 1] = x
    BY <1>5, <1>12, AppendProperties
  <2>3. ASSUME NEW n \in 1..(k + 1) PROVE M[n] = Append(L, x)[n]
    <3>1. CASE n = k + 1 BY <1>10, <1>11, <2>2, <3>1
    <3>2. CASE n # k + 1
      <4>1. n \in 1..k BY <1>3, <3>2
      <4>2. QED BY <1>9, <1>11, <2>2, <4>1
    <3>3. QED BY <3>1, <3>2
  <2>4. Append(L, x) = [n \in 1..(k + 1) |-> Append(L, x)[n]]
    <3>1. PICK A : A = Append(L, x) OBVIOUS
    <3>2. A \in Seq(Log!Entries) /\ Len(A) = k + 1 BY <2>2, <3>1
    <3>3. A = [n \in 1..Len(A) |-> A[n]] BY <3>2
    <3>4. QED BY <3>1, <3>2, <3>3
  <2>5. QED BY <2>1, <2>3, <2>4
<1>14. ASSUME L # <<>>
       PROVE  Log!Before(L[k], x) /\ (L[k].tells \in Canceled => x.tells \in Canceled)
  <2>1. k \in 1..k BY <1>3, <1>12, <1>14, EmptySeq
  <2>2. PICK f \in Entered :
          /\ outbox[f].sourceRevision = k
          /\ L[k] = [event |-> f, created |-> event[f].created, tells |-> outbox[f].tells]
    BY <1>0, <1>11, <2>1, EntryOfRevision
  <2>3. /\ projection.event \in Entered /\ outbox[projection.event].sourceRevision = k
        /\ outbox[projection.event].tells = Told[projection.state]
        /\ event[projection.event].created = projection.created
    BY <1>0, <1>2, <2>1 DEF BaseInv, LastInv
  <2>4. f = projection.event BY <1>2, <2>2, <2>3 DEF BaseInv, RevisionsInv
  <2>5. /\ L[k].event = projection.event /\ L[k].created = projection.created
        /\ L[k].tells = Told[projection.state]
    BY <2>2, <2>3, <2>4
  <2>6. x.event = e /\ x.created = event[e].created /\ x.tells = Told[s] BY <1>0
  <2>7. L[k].created \in Nat /\ x.created \in Nat /\ L[k].event \in Nat /\ x.event \in Nat
    <3>1. projection.created \in 0..MaxClock BY <1>2 DEF BaseInv, RecordsInv
    <3>2. projection.event \in Events BY <2>3 DEF Entered
    <3>3. 0..MaxClock \subseteq Nat /\ Events \subseteq Nat
      BY PipelineAssumption DEF PipelineAssumption
    <3>4. QED BY <1>4, <2>5, <2>6, <3>1, <3>2, <3>3
  <2>8. \/ x.created > L[k].created
        \/ (x.created = L[k].created /\ x.event > L[k].event)
    BY <1>1, <2>5, <2>6 DEF Newer
  <2>9. Log!Before(L[k], x)
    BY <2>7, <2>8 DEF Log!Before
  <2>10. Told[projection.state] \in Canceled => Told[s] \in Canceled
    BY <1>0, <1>1, <2>1, <1>3 DEF CanceledInv, Dead
  <2>11. QED BY <2>5, <2>6, <2>9, <2>10
<1>15. eventLog = L BY <1>0, <1>11, ShownLog
<1>16. eventLog' = M
  BY <1>1, <1>11 DEF LogOf, Picked, eventLog, EventOf, Entry
<1>17. Log!Enter(x) BY <1>12, <1>13, <1>14, <1>15, <1>16 DEF Log!Enter
<1>18. M # L
  <2>1. Len(M) = k + 1 BY <1>5, <1>12, <1>13, AppendProperties
  <2>2. QED BY <1>3, <1>12, <2>1
<1>19. QED BY <1>5, <1>15, <1>16, <1>17, <1>18 DEF Log!Next

LEMMA LogStep ==
  ASSUME PipelineInv, CanceledInv, [Next]_allVars PROVE [Log!Next]_eventLog
<1>1. /\ event \in [Events -> [kind : {"none", "subscription", "deauthorized"},
                               created : 0..MaxClock, account : Accounts \cup {NoAccount}]]
      /\ outbox \in [Events -> [status : {"none", "pending", "delivering", "delivered"},
                                sourceRevision : Nat, tells : Tellings \cup {"none"}]]
      /\ \A e \in Entered : Sold(e)
  BY DEF PipelineInv, BaseInv, StripeInv, RecordsInv, RevisionsInv
<1>2. CASE UNCHANGED <<event, outbox, projection>> BY <1>2, LogStays
<1>3. CASE RegistryNext /\ UNCHANGED pipelineVars BY <1>2, <1>3 DEF pipelineVars
<1>4. CASE Stripes /\ UNCHANGED <<outbox, projection>>
  <2>1. PICK e, x : e \in Events /\ event[e].kind = "none" /\ event' = [event EXCEPT ![e] = x]
    BY <1>4 DEF Stripes, Change, Revoked, Emit
  <2>2. \A f \in Entered : event'[f] = event[f] BY <1>1, <2>1 DEF Sold, Entered
  <2>3. QED BY <1>4, <2>2, LogStays
<1>5. CASE \E e \in Events : Deliver(e) BY <1>2, <1>5 DEF Deliver
<1>6. CASE CompleteIngress
  <2>1. CASE worker.stale BY <1>2, <1>6, <2>1 DEF CompleteIngress, stripeVars
  <2>2. QED BY <1>6, <2>1, LogGrows
<1>7. CASE Worker /\ ~CompleteIngress
  BY <1>2, <1>7
  DEF Worker, ClaimIngress, RetrieveRevoked, DisableRevoked, Plan, PlanUnmapped, RetryIngress,
      WorkerFails, stripeVars
<1>8. CASE RecordMapping BY <1>2, <1>8 DEF RecordMapping, stripeVars
<1>9. CASE Relay
  <2>1. UNCHANGED <<event, projection>>
    BY <1>9
    DEF Relay, ClaimDelivery, SkipDelivered, Publish, MarkDelivered, RelayFails, RelayChanges,
        stripeVars
  <2>2. BaseInv BY DEF PipelineInv
  <2>3. PICK e, s : outbox' = [outbox EXCEPT ![e] = [outbox[e] EXCEPT !.status = s]]
    BY <1>9, <2>2, RelayWrites
  <2>4. \A f \in Events : outbox'[f].sourceRevision = outbox[f].sourceRevision
                          /\ outbox'[f].tells = outbox[f].tells
    BY <1>1, <2>3
  <2>5. QED BY <2>1, <2>4, LogStays
<1>10. CASE UNCHANGED allVars BY <1>2, <1>10 DEF allVars, pipelineVars
<1>11. QED BY <1>3, <1>4, <1>5, <1>6, <1>7, <1>8, <1>9, <1>10 DEF Next

\* The events published for other services are the log of SubscriptionLog: every
\* step of the pipeline leaves it or appends one entry that is newer than the
\* last, as the guards of complete_ingress require, and that tells of a canceled
\* subscription if the last did, for the worker reads the state back after it
\* wrote the entry before.
THEOREM PipelineImplementsLog == Spec => ImplementsLog
<1>1. PipelineInit => Log!Init /\ CanceledInv
  <2>1. SUFFICES ASSUME PipelineInit PROVE eventLog = <<>> /\ CanceledInv BY DEF Log!Init
  <2>2. projection.revision = 0 /\ worker.pc = "idle"
    BY <2>1 DEF PipelineInit, NoProjection, IdleWorker
  <2>3. QED BY <2>2 DEF eventLog, CanceledInv
<1>2. PipelineInv /\ CanceledInv /\ [Next]_allVars => CanceledInv' BY CanceledKept
<1>3. PipelineInv /\ CanceledInv /\ [Next]_allVars => [Log!Next]_eventLog BY LogStep
<1>4. QED BY <1>1, <1>2, <1>3, PipelineInductive, PTL DEF Spec, ImplementsLog, Log!Spec

=============================================================================
