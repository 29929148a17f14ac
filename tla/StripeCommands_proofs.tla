------------------------ MODULE StripeCommands_proofs ------------------------
(***************************************************************************)
(* For any commands, resources and number of invocations: receipts and     *)
(* claims agree, Stripe does what a command asks once, it is settled for   *)
(* all its callers alike, what is accepted is in the catalogue, codes are  *)
(* exclusive, nothing retired is sold again, and every operation of the    *)
(* catalogue implements the ledger of CommandLedger.                       *)
(*                                                                         *)
(* The inductive invariant, CommandsInv, has five parts.  TypeInv types    *)
(* the records.  StoreInv ties each receipt to the claim of its operation; *)
(* its TakenInv says that a command which left any trace was claimed, and  *)
(* its operation never went back before it, so that a command that can be  *)
(* claimed is new.  KeyInv bounds when Stripe forgets a key.  AnswersInv   *)
(* ties what callers were told to the records there still are.             *)
(* CatalogueInv ties mappings to claims (LedgerInv) and, in PlanInv, what  *)
(* each invocation means to write to what the catalogue shows now, though  *)
(* it read an older one.  The lemmas follow that order: plans, what a      *)
(* completion writes, the steps, the theorems.                             *)
(***************************************************************************)
EXTENDS StripeCommands, FiniteSetTheorems, TLAPS

-----------------------------------------------------------------------------
(* The inductive invariant *)

Statuses == {"none", "pending"} \cup Lifecycles
Words == {Content(c) : c \in DOMAIN asked} \cup {"none"}
MappingRecords ==
  [status : Statuses, immutable : Nat, presentation : Nat, lifecycle : Nat,
   content : Words, linked : BOOLEAN]
ClaimRecords ==
  [command : DOMAIN asked \cup {NoCommand}, status : Open \cup Settled \cup {"none"}]
Nexts == UNION {[R -> MappingRecords] : R \in SUBSET Resources}
Pcs == {"idle", "perform", "call", "record", "refuse", "review", "unsure"}
RunRecords == [pc : Pcs, command : DOMAIN asked \cup {NoCommand}, next : Nexts]

AskedInv ==
  /\ DOMAIN asked \subseteq Commands /\ sent \subseteq DOMAIN asked
  /\ asked \in [DOMAIN asked -> Shape]
  /\ \A c \in DOMAIN asked :
       /\ On(c) \in Subjects(Kind(c))
       /\ Kind(c) = "discount-lifecycle" => Content(c) \in Lifecycles
RecordTypes ==
  /\ receipt \in [DOMAIN asked -> Open \cup Settled \cup {"none"}]
  /\ claim \in [Operations -> ClaimRecords]
  /\ run \in [Workers -> RunRecords]
  /\ mapping \in [Resources -> MappingRecords]
  /\ code \in [Codes -> Discounts \cup {NoCode}]
  /\ source \in [Checkouts -> 0..MaxSource]
  /\ effect \in [DOMAIN asked -> {"none", "done", "forgotten", "twice"}]
  /\ answers \in [DOMAIN asked -> SUBSET Answers]
  /\ late \subseteq DOMAIN asked
TypeInv == AskedInv /\ RecordTypes

\* A resource that is mapped was made at Stripe by a command that creates it.
Provided(r) ==
  \E x \in DOMAIN asked : On(x) = r /\ Dimension(x) = "immutable" /\ effect[x] # "none"
MappingInv ==
  \A r \in Resources :
    /\ mapping[r].status = "none" => mapping[r] = Unmapped
    /\ mapping[r].status # "none" =>
         mapping[r].immutable > 0 /\ (r # Configuration => Provided(r))

\* What an invocation means to write, against what the catalogue shows now: it
\* sets its command's dimension and takes no other beyond what is there.
PortalConfiguration == [Unmapped EXCEPT !.status = "active", !.immutable = 1]
WriteShape(c, next) ==
  LET m == next[On(c)] IN
  /\ On(c) \in DOMAIN next /\ DOMAIN next \subseteq {On(c), Configuration}
  /\ m \in MappingRecords /\ m.status # "none" /\ m.immutable > 0
  /\ m[Dimension(c)] = Revision(c)
  /\ \A d \in Dimensions \ {Dimension(c)} : m[d] <= mapping[On(c)][d]
  /\ mapping[On(c)].status = "none" =>
       Kind(c) \in Creators \cup {"customer-portal"} /\ m = Created(c)
  /\ Kind(c) = "discount-presentation" => m.status = "active"
  /\ Kind(c) = "discount-lifecycle" => m.status = Content(c)
  /\ Kind(c) = "deactivate" => m.status = "existing_only"
  /\ Kind(c) = "discount-lifecycle" /\ Content(c) = "active" /\ StillOpen(c) =>
       mapping[On(c)].status = "active"
  /\ Configuration \in DOMAIN next => next[Configuration] = PortalConfiguration
PlanShape(c, next) ==
  IF Dimension(c) = "mutation" THEN DOMAIN next = {}
  ELSE IF DOMAIN next = {} THEN /\ mapping[On(c)].status # "none"
                                /\ mapping[On(c)][Dimension(c)] >= Revision(c)
  ELSE WriteShape(c, next)
PlanFits(c, pc, next) ==
  /\ pc \in {"call", "record"} => PlanShape(c, next)
  /\ pc = "record" /\ Dimension(c) # "mutation" => Provided(On(c))

PlanInv ==
  \A w \in Workers, c \in DOMAIN asked, pc \in Pcs, next \in Nexts :
    run[w].command = c /\ run[w].pc = pc /\ run[w].next = next => PlanFits(c, pc, next)

\* An operation's claim is at one of its commands, no earlier than any that was
\* ever attempted, and an invocation runs a command that has a receipt.
ClaimInv ==
  \A o \in Operations :
    /\ claim[o].command = NoCommand <=> claim[o].status = "none"
    /\ \A c \in DOMAIN asked : claim[o].command = c => Operation(c) = o
RunInv ==
  \A w \in Workers : run[w].pc # "idle" =>
    run[w].command \in DOMAIN asked /\ receipt[run[w].command] # "none"
Attempted(c) == receipt[c] # "none" \/ effect[c] # "none" \/ Told(c) # {} \/ c \in late
Passed(c) ==
  \E h \in DOMAIN asked : claim[Operation(c)].command = h /\ Revision(h) >= Revision(c)
TakenInv == \A c \in DOMAIN asked : Attempted(c) => Passed(c)
StoreInv == ClaimInv /\ RunInv /\ TakenInv /\ ReceiptMatchesClaim

\* Stripe may have forgotten a key only of a command that is not performed again.
KeyInv ==
  /\ ProviderOnce
  /\ \A c \in DOMAIN asked : effect[c] = "forgotten" => c \in late
  /\ \A w \in Workers : run[w].pc \in {"perform", "call"} => effect[run[w].command] # "forgotten"

\* What settled a command for a caller is what the records say, as long as there
\* are any.
AnswersInv ==
  \A c \in DOMAIN asked : Kind(c) # "customer-portal" =>
    \A x \in Told(c) :
      /\ receipt[c] # "none" => receipt[c] = x
      /\ claim[Operation(c)].command = c => claim[Operation(c)].status = x
      /\ \A y \in Told(c) : x = y

\* A dimension shows the revision of the command that holds its claim once that
\* is accepted, and less while it is open or after it was refused.
LedgerInv ==
  \A o \in Catalogued :
    /\ claim[o].status = "none" => mapping[o[1]][o[2]] = 0
    /\ \A h \in DOMAIN asked : claim[o].command = h =>
         IF claim[o].status = "accepted" THEN mapping[o[1]][o[2]] = Revision(h)
         ELSE mapping[o[1]][o[2]] < Revision(h)

\* What is accepted, by any record there is of it, is in the catalogue.
Accepted(c) ==
  \/ "accepted" \in answers[c] \/ receipt[c] = "accepted"
  \/ claim[Operation(c)] = [command |-> c, status |-> "accepted"]
Recorded(c) == mapping[On(c)][Dimension(c)] >= Revision(c) /\ Provided(On(c))
RecordedInv ==
  \A c \in DOMAIN asked : Accepted(c) /\ Dimension(c) # "mutation" => Recorded(c)

CatalogueInv == MappingInv /\ LedgerInv /\ RecordedInv /\ PlanInv /\ CodeExclusive
CommandsInv == TypeInv /\ StoreInv /\ KeyInv /\ AnswersInv /\ CatalogueInv

-----------------------------------------------------------------------------
(* Commands, and what they plan *)

LEMMA SubjectsApart ==
  ASSUME NEW kind
  PROVE  /\ Subjects(kind) \subseteq Resources \ {Configuration}
         /\ kind \in Kinds =>
              (Subjects(kind) \cap Discounts # {} =>
                 kind \in {"discount", "discount-presentation", "discount-lifecycle"})
<1>1. /\ Offers \cap Discounts = {} /\ Checkouts \cap (Offers \cup Discounts) = {}
      /\ Portals \cap (Offers \cup Discounts \cup Checkouts) = {}
      /\ Configuration \notin Offers \cup Discounts \cup Checkouts \cup Portals
  BY ScenarioAssumption DEF ScenarioAssumption
<1>2. Subjects(kind) \in {Offers, Discounts, Portals, Checkouts} BY DEF Subjects
<1>3. kind \in Kinds \ {"discount", "discount-presentation", "discount-lifecycle"} =>
        Subjects(kind) \in {Offers, Portals, Checkouts}
  BY DEF Subjects, Kinds
<1>4. QED BY <1>1, <1>2, <1>3 DEF Resources

LEMMA AskedRead ==
  ASSUME AskedInv, NEW c \in DOMAIN asked
  PROVE  /\ Kind(c) \in Kinds /\ Revision(c) \in Nat \ {0} /\ Content(c) \in Words
         /\ On(c) \in Resources /\ Operation(c) \in Operations
         /\ On(c) \in Subjects(Kind(c)) /\ On(c) # Configuration
<1>1. asked[c] \in Shape BY DEF AskedInv
<1>2. Kind(c) \in Kinds /\ Revision(c) \in Nat \ {0} /\ Content(c) \in Words
      /\ On(c) \in Resources
  <2>1. Revisions \subseteq Nat \ {0} BY CommandAssumption DEF CommandAssumption
  <2>2. QED BY <1>1, <2>1 DEF Shape, Kind, Revision, On, Words
<1>3. On(c) \in Subjects(Kind(c)) BY DEF AskedInv
<1>4. On(c) # Configuration BY <1>3, SubjectsApart
<1>5. QED BY <1>2, <1>3, <1>4 DEF Operations

LEMMA Dimensioned ==
  ASSUME AskedInv, NEW c \in DOMAIN asked
  PROVE  /\ Kind(c) \in {"provision", "discount", "checkout", "customer-portal"} =>
              Dimension(c) = "immutable"
         /\ Kind(c) \in {"product-presentation", "discount-presentation"} =>
              Dimension(c) = "presentation"
         /\ Kind(c) \in {"deactivate", "discount-lifecycle"} => Dimension(c) = "lifecycle"
         /\ Kind(c) \in {"subscription-change", "subscription-discount", "subscription-pause"}
              => Dimension(c) = "mutation"
         /\ Dimension(c) \in Dimensions \cup {"mutation"}
<1>1. Kind(c) \in Kinds BY AskedRead
<1>2. QED BY <1>1 DEF Dimension, Dimensions, Kinds

LEMMA CreatedRecord ==
  ASSUME AskedInv, NEW c \in DOMAIN asked
  PROVE  /\ Created(c) \in MappingRecords /\ Created(c).immutable = Revision(c)
         /\ Created(c).presentation = 0 /\ Created(c).lifecycle = 0
         /\ Created(c).status = IF Kind(c) = "checkout" THEN "pending" ELSE "active"
         /\ PortalConfiguration \in MappingRecords /\ PortalConfiguration.status = "active"
         /\ PortalConfiguration.immutable = 1
<1>1. Content(c) \in Words /\ Revision(c) \in Nat BY AskedRead
<1>2. /\ Unmapped \in MappingRecords /\ Unmapped.presentation = 0 /\ Unmapped.lifecycle = 0
      /\ Unmapped.status = "none"
  BY DEF Unmapped, MappingRecords, Words, Statuses
<1>3. PICK u : u = Unmapped OBVIOUS
<1>4. PICK k, r, t : /\ k = (IF Kind(c) = "checkout" THEN "pending" ELSE "active")
                     /\ r = Revision(c) /\ t = Content(c)
  OBVIOUS
<1>5. k \in Statuses /\ "active" \in Statuses BY <1>4 DEF Statuses, Lifecycles
<1>6. Created(c) = [u EXCEPT !.status = k, !.immutable = r, !.content = t]
  BY <1>3, <1>4 DEF Created
<1>7. PortalConfiguration = [u EXCEPT !.status = "active", !.immutable = 1]
  BY <1>3 DEF PortalConfiguration
<1>8. /\ [u EXCEPT !.status = k, !.immutable = r, !.content = t] \in MappingRecords
      /\ [u EXCEPT !.status = "active", !.immutable = 1] \in MappingRecords
  BY <1>1, <1>2, <1>3, <1>4, <1>5 DEF MappingRecords
<1>9. /\ Created(c).immutable = r /\ Created(c).presentation = 0 /\ Created(c).lifecycle = 0
      /\ Created(c).status = k
  BY <1>2, <1>3, <1>6 DEF MappingRecords
<1>10. PortalConfiguration.status = "active" /\ PortalConfiguration.immutable = 1
  BY <1>2, <1>3, <1>7 DEF MappingRecords
<1>11. QED BY <1>4, <1>6, <1>7, <1>8, <1>9, <1>10

\* A plan that writes one mapping.
LEMMA WriteFits ==
  ASSUME TypeInv, MappingInv, NEW c \in DOMAIN asked, NEW m \in MappingRecords,
         Dimension(c) # "mutation", m.status # "none", m.immutable > 0,
         m[Dimension(c)] = Revision(c),
         \A d \in Dimensions \ {Dimension(c)} : m[d] <= mapping[On(c)][d],
         mapping[On(c)].status = "none" =>
           Kind(c) \in Creators \cup {"customer-portal"} /\ m = Created(c),
         Kind(c) = "discount-presentation" => m.status = "active",
         Kind(c) = "discount-lifecycle" => m.status = Content(c),
         Kind(c) = "deactivate" => m.status = "existing_only",
         Kind(c) = "discount-lifecycle" /\ Content(c) = "active" => Active(On(c))
  PROVE  /\ Write(On(c), m) \in Nexts /\ PlanShape(c, Write(On(c), m))
<1>1. On(c) \in Resources /\ On(c) # Configuration BY AskedRead DEF TypeInv
<1>2. DOMAIN Write(On(c), m) = {On(c)} /\ Write(On(c), m)[On(c)] = m
  BY DEF Write
<1>3. Write(On(c), m) \in [{On(c)} -> MappingRecords] BY DEF Write
<1>4. Write(On(c), m) \in Nexts
  <2>1. {On(c)} \in SUBSET Resources BY <1>1
  <2>2. QED BY <1>3, <2>1 DEF Nexts
<1>5. WriteShape(c, Write(On(c), m)) BY <1>1, <1>2 DEF WriteShape, Active
<1>6. DOMAIN Write(On(c), m) # {} BY <1>2
<1>7. QED BY <1>4, <1>5, <1>6 DEF PlanShape

\* What an invocation may have decided.
PlanOK(c, plan) ==
  /\ plan.pc \in {"call", "record", "refuse", "review", "unsure"} /\ plan.next \in Nexts
  /\ PlanFits(c, plan.pc, plan.next)

LEMMA NothingIs == Nothing \in Nexts /\ DOMAIN Nothing = {}
<1>1. Nothing \in [{} -> MappingRecords] /\ DOMAIN Nothing = {} BY DEF Nothing
<1>2. QED BY <1>1 DEF Nexts

LEMMA EndOK ==
  ASSUME NEW c PROVE PlanOK(c, Refuse) /\ PlanOK(c, Review) /\ PlanOK(c, Unsure)
BY NothingIs DEF PlanOK, PlanFits, Refuse, Review, Unsure, Plan

\* Done: the catalogue shows the command's revision already.
LEMMA DoneOK ==
  ASSUME TypeInv, MappingInv, NEW c \in DOMAIN asked,
         Dimension(c) # "mutation" => /\ mapping[On(c)].status # "none"
                                      /\ mapping[On(c)][Dimension(c)] >= Revision(c)
  PROVE  PlanOK(c, Done)
<1>1. Done.pc = "record" /\ Done.next = Nothing BY DEF Done, Store, Plan
<1>2. On(c) \in Resources /\ On(c) # Configuration BY AskedRead DEF TypeInv
<1>3. Dimension(c) # "mutation" => Provided(On(c)) BY <1>2 DEF MappingInv
<1>4. QED BY <1>1, <1>3, NothingIs DEF PlanOK, PlanFits, PlanShape

LEMMA MutationOK ==
  ASSUME NEW c, Dimension(c) = "mutation" PROVE PlanOK(c, Call(Nothing)) /\ PlanOK(c, Done)
BY NothingIs DEF PlanOK, PlanFits, PlanShape, Call, Done, Store, Plan

LEMMA WriteOK ==
  ASSUME NEW c, NEW next \in Nexts, PlanShape(c, next)
  PROVE  /\ PlanOK(c, Call(next))
         /\ Provided(On(c)) => PlanOK(c, Store(next))
BY DEF PlanOK, PlanFits, Call, Store, Plan

LEMMA MappingRead ==
  ASSUME TypeInv, MappingInv, NEW c \in DOMAIN asked, NEW m, m = mapping[On(c)]
  PROVE  /\ m \in MappingRecords /\ m.immutable \in Nat /\ m.presentation \in Nat
         /\ m.lifecycle \in Nat /\ m.status \in Statuses /\ Revision(c) \in Nat \ {0}
         /\ m.status = "none" =>
              m.immutable = 0 /\ m.presentation = 0 /\ m.lifecycle = 0
         /\ m.status # "none" => m.immutable > 0 /\ Provided(On(c))
<1>1. On(c) \in Resources /\ On(c) # Configuration /\ Revision(c) \in Nat \ {0}
  BY AskedRead DEF TypeInv
<1>2. m \in MappingRecords BY <1>1 DEF TypeInv, RecordTypes
<1>3. m.status = "none" => m = Unmapped BY <1>1 DEF MappingInv
<1>4. m.status # "none" => m.immutable > 0 /\ Provided(On(c)) BY <1>1 DEF MappingInv
<1>5. Unmapped.immutable = 0 /\ Unmapped.presentation = 0 /\ Unmapped.lifecycle = 0
  BY DEF Unmapped
<1>6. QED BY <1>1, <1>2, <1>3, <1>4, <1>5 DEF MappingRecords

\* One field of a mapping, or two, written.
LEMMA Rewritten ==
  ASSUME NEW m \in MappingRecords, NEW n \in Nat, NEW k \in Statuses
  PROVE  /\ [m EXCEPT !.immutable = n] \in MappingRecords
         /\ [m EXCEPT !.presentation = n] \in MappingRecords
         /\ [m EXCEPT !.status = k, !.lifecycle = n] \in MappingRecords
         /\ [m EXCEPT !.lifecycle = n, !.status = k] \in MappingRecords
BY DEF MappingRecords

LEMMA CreateOK ==
  ASSUME TypeInv, MappingInv, NEW c \in DOMAIN asked,
         Kind(c) \in Creators \cup {"customer-portal"}
  PROVE  Write(On(c), Created(c)) \in Nexts /\ PlanShape(c, Write(On(c), Created(c)))
<1>1. PICK m, x : m = mapping[On(c)] /\ x = Created(c) OBVIOUS
<1>2. /\ m.immutable \in Nat /\ m.presentation \in Nat /\ m.lifecycle \in Nat
      /\ Revision(c) \in Nat \ {0}
  BY <1>1, MappingRead
<1>3. Dimension(c) = "immutable" BY Dimensioned DEF TypeInv, Creators
<1>4. /\ x \in MappingRecords /\ x.immutable = Revision(c) /\ x.status # "none"
      /\ x.presentation = 0 /\ x.lifecycle = 0
  BY <1>1, CreatedRecord DEF TypeInv
<1>5. Kind(c) \notin {"discount-presentation", "discount-lifecycle", "deactivate"} BY DEF Creators
<1>6. x[Dimension(c)] = Revision(c) BY <1>3, <1>4
<1>7. \A d \in Dimensions \ {Dimension(c)} : x[d] <= m[d]
  BY <1>2, <1>3, <1>4 DEF Dimensions
<1>8. x.immutable > 0 BY <1>2, <1>4
<1>9. QED BY <1>1, <1>3, <1>4, <1>5, <1>6, <1>7, <1>8, WriteFits

LEMMA RenewOK ==
  ASSUME TypeInv, MappingInv, NEW c \in DOMAIN asked, mapping[On(c)].status # "none",
         Kind(c) \in Creators
  PROVE  PlanOK(c, Renew(c))
<1>1. PICK m, x : m = mapping[On(c)] /\ x = [m EXCEPT !.immutable = Revision(c)] OBVIOUS
<1>2. /\ m \in MappingRecords /\ m.immutable \in Nat /\ m.presentation \in Nat
      /\ m.lifecycle \in Nat /\ Revision(c) \in Nat \ {0} /\ Provided(On(c))
      /\ m.status # "none"
  BY <1>1, MappingRead
<1>3. Dimension(c) = "immutable" BY Dimensioned DEF TypeInv, Creators
<1>4. CASE Renew(c) = Refuse BY <1>4, EndOK
<1>5. CASE Renew(c) = Done /\ Revision(c) = m.immutable
  <2>1. mapping[On(c)][Dimension(c)] >= Revision(c) BY <1>1, <1>2, <1>3, <1>5
  <2>2. QED BY <1>5, <2>1, DoneOK
<1>6. CASE Renew(c) = Store(Write(On(c), x))
  <2>1. /\ x \in MappingRecords /\ x.immutable = Revision(c) /\ x.status = m.status
        /\ x.presentation = m.presentation /\ x.lifecycle = m.lifecycle
    <3>1. x \in MappingRecords BY <1>1, <1>2, Rewritten DEF Statuses
    <3>2. QED BY <1>1, <1>2, <3>1 DEF MappingRecords
  <2>2. x[Dimension(c)] = Revision(c) BY <1>3, <2>1
  <2>3. \A d \in Dimensions \ {Dimension(c)} : x[d] <= m[d]
    BY <1>2, <1>3, <2>1 DEF Dimensions
  <2>4. Kind(c) \notin {"discount-presentation", "discount-lifecycle", "deactivate"} BY DEF Creators
  <2>5. x.immutable > 0 BY <1>2, <2>1
  <2>6. Write(On(c), x) \in Nexts /\ PlanShape(c, Write(On(c), x))
    BY <1>1, <1>2, <1>3, <2>1, <2>2, <2>3, <2>4, <2>5, WriteFits
  <2>7. QED BY <1>2, <1>6, <2>6, WriteOK
<1>7. QED BY <1>1, <1>4, <1>5, <1>6 DEF Renew

LEMMA PresentationOK ==
  ASSUME TypeInv, MappingInv, NEW c \in DOMAIN asked,
         Kind(c) \in {"product-presentation", "discount-presentation"}
  PROVE  PlanOK(c, Presentation(c))
<1>1. PICK m, x : m = mapping[On(c)] /\ x = [m EXCEPT !.presentation = Revision(c)] OBVIOUS
<1>2. /\ m \in MappingRecords /\ m.immutable \in Nat /\ m.presentation \in Nat
      /\ m.lifecycle \in Nat /\ Revision(c) \in Nat \ {0}
      /\ m.status # "none" => m.immutable > 0
  BY <1>1, MappingRead
<1>3. Dimension(c) = "presentation" BY Dimensioned DEF TypeInv
<1>4. CASE Presentation(c) = Refuse BY <1>4, EndOK
<1>5. CASE Presentation(c) = Done /\ Revision(c) = m.presentation /\ m.status = "active"
  <2>1. mapping[On(c)][Dimension(c)] >= Revision(c) BY <1>1, <1>2, <1>3, <1>5
  <2>2. QED BY <1>1, <1>5, <2>1, DoneOK
<1>6. CASE Presentation(c) = Call(Write(On(c), x)) /\ m.status = "active"
  <2>1. /\ x \in MappingRecords /\ x.presentation = Revision(c) /\ x.status = "active"
        /\ x.immutable = m.immutable /\ x.lifecycle = m.lifecycle
    <3>1. x \in MappingRecords BY <1>1, <1>2, Rewritten DEF Statuses
    <3>2. QED BY <1>1, <1>2, <1>6, <3>1 DEF MappingRecords
  <2>2. x[Dimension(c)] = Revision(c) BY <1>3, <2>1
  <2>3. \A d \in Dimensions \ {Dimension(c)} : x[d] <= m[d]
    BY <1>2, <1>3, <2>1 DEF Dimensions
  <2>4. Kind(c) \notin {"discount-lifecycle", "deactivate"} OBVIOUS
  <2>5. x.immutable > 0 BY <1>2, <1>6, <2>1
  <2>6. Write(On(c), x) \in Nexts /\ PlanShape(c, Write(On(c), x))
    BY <1>1, <1>2, <1>3, <1>6, <2>1, <2>2, <2>3, <2>4, <2>5, WriteFits
  <2>7. QED BY <1>6, <2>6, WriteOK
<1>7. QED BY <1>1, <1>4, <1>5, <1>6 DEF Presentation, Active

LEMMA RetireOK ==
  ASSUME TypeInv, MappingInv, NEW c \in DOMAIN asked, NEW k \in Lifecycles,
         mapping[On(c)].status # "none", Kind(c) \in {"deactivate", "discount-lifecycle"},
         Kind(c) = "discount-lifecycle" => k = Content(c) /\ (k = "active" => Active(On(c))),
         Kind(c) = "deactivate" => k = "existing_only"
  PROVE  /\ PlanOK(c, Call(Retired(c, k))) /\ PlanOK(c, Store(Retired(c, k)))
<1>1. PICK m, x : /\ m = mapping[On(c)]
                  /\ x = [m EXCEPT !.status = k, !.lifecycle = Revision(c)]
  OBVIOUS
<1>2. /\ m \in MappingRecords /\ m.immutable \in Nat /\ m.presentation \in Nat
      /\ m.lifecycle \in Nat /\ Revision(c) \in Nat \ {0} /\ Provided(On(c))
      /\ m.immutable > 0
  BY <1>1, MappingRead
<1>3. Dimension(c) = "lifecycle" BY Dimensioned DEF TypeInv
<1>4. k \in Statuses /\ k # "none" BY DEF Statuses, Lifecycles
<1>5. /\ x \in MappingRecords /\ x.lifecycle = Revision(c) /\ x.status = k
      /\ x.immutable = m.immutable /\ x.presentation = m.presentation
  <2>1. x \in MappingRecords BY <1>1, <1>2, <1>4, Rewritten
  <2>2. QED BY <1>1, <1>2, <2>1 DEF MappingRecords
<1>6. x[Dimension(c)] = Revision(c) BY <1>3, <1>5
<1>7. \A d \in Dimensions \ {Dimension(c)} : x[d] <= m[d]
  BY <1>2, <1>3, <1>5 DEF Dimensions
<1>8. Kind(c) # "discount-presentation" OBVIOUS
<1>9. Write(On(c), x) \in Nexts /\ PlanShape(c, Write(On(c), x))
  BY <1>1, <1>2, <1>3, <1>4, <1>5, <1>6, <1>7, <1>8, WriteFits
<1>10. Retired(c, k) = Write(On(c), x) BY <1>1 DEF Retired
<1>11. QED BY <1>2, <1>9, <1>10, WriteOK

LEMMA OutdatedOK ==
  ASSUME TypeInv, MappingInv, NEW c \in DOMAIN asked,
         mapping[On(c)].lifecycle = Revision(c) \/ ~Outdated(c)
  PROVE  mapping[On(c)].status # "none"
<1>1. PICK m : m = mapping[On(c)] OBVIOUS
<1>2. m.status = "none" => m.lifecycle = 0 BY <1>1, MappingRead
<1>3. Revision(c) \in Nat \ {0} BY AskedRead DEF TypeInv
<1>4. QED BY <1>1, <1>2, <1>3 DEF Outdated

LEMMA LifecycleOK ==
  ASSUME TypeInv, MappingInv, NEW c \in DOMAIN asked
  PROVE  /\ Kind(c) = "deactivate" => PlanOK(c, Deactivate(c))
         /\ Kind(c) = "discount-lifecycle" => PlanOK(c, DiscountLifecycle(c))
<1>1. Revision(c) \in Nat BY AskedRead DEF TypeInv
<1>2. ASSUME Kind(c) \in {"deactivate", "discount-lifecycle"},
             mapping[On(c)].lifecycle = Revision(c)
      PROVE  PlanOK(c, Done)
  <2>1. Dimension(c) = "lifecycle" BY <1>2, Dimensioned DEF TypeInv
  <2>2. mapping[On(c)][Dimension(c)] >= Revision(c) BY <1>1, <1>2, <2>1
  <2>3. mapping[On(c)].status # "none" BY <1>2, OutdatedOK
  <2>4. QED BY <2>2, <2>3, DoneOK
<1>3. ASSUME Kind(c) = "deactivate" PROVE PlanOK(c, Deactivate(c))
  <2>1. CASE mapping[On(c)].lifecycle = Revision(c) BY <1>2, <1>3, <2>1 DEF Deactivate
  <2>2. CASE Deactivate(c) = Refuse BY <2>2, EndOK
  <2>3. CASE ~Outdated(c) /\ Deactivate(c) = Store(Retired(c, "existing_only"))
    <3>1. mapping[On(c)].status # "none" BY <2>3, OutdatedOK
    <3>2. "existing_only" \in Lifecycles BY DEF Lifecycles
    <3>3. QED BY <1>3, <2>3, <3>1, <3>2, RetireOK
  <2>4. QED BY <2>1, <2>2, <2>3 DEF Deactivate
<1>4. ASSUME Kind(c) = "discount-lifecycle" PROVE PlanOK(c, DiscountLifecycle(c))
  <2>1. CASE mapping[On(c)].lifecycle = Revision(c) /\ DiscountLifecycle(c) = Done
    BY <1>2, <1>4, <2>1
  <2>2. CASE DiscountLifecycle(c) = Refuse BY <2>2, EndOK
  <2>3. CASE /\ ~Outdated(c) /\ (Content(c) = "active" => Active(On(c)))
             /\ DiscountLifecycle(c) = Call(Retired(c, Content(c)))
    <3>1. mapping[On(c)].status # "none" BY <2>3, OutdatedOK
    <3>2. Content(c) \in Lifecycles BY <1>4 DEF TypeInv, AskedInv
    <3>3. QED BY <1>4, <2>3, <3>1, <3>2, RetireOK
  <2>4. QED BY <2>1, <2>2, <2>3 DEF DiscountLifecycle
<1>5. QED BY <1>3, <1>4

LEMMA BothOK ==
  ASSUME TypeInv, MappingInv, NEW c \in DOMAIN asked, Kind(c) = "customer-portal", NEW next,
         next = [r \in {On(c), Configuration} |->
                   IF r = On(c) THEN Created(c)
                   ELSE [Unmapped EXCEPT !.status = "active", !.immutable = 1]]
  PROVE  next \in Nexts /\ PlanShape(c, next)
<1>1. On(c) \in Resources /\ On(c) # Configuration /\ Configuration \in Resources
  BY AskedRead DEF TypeInv, Resources
<1>2. DOMAIN next = {On(c), Configuration} /\ next[On(c)] = Created(c)
      /\ next[Configuration] = PortalConfiguration
  BY <1>1 DEF PortalConfiguration
<1>3. Created(c) \in MappingRecords /\ PortalConfiguration \in MappingRecords
  BY CreatedRecord DEF TypeInv
<1>4. next \in Nexts
  <2>1. next \in [{On(c), Configuration} -> MappingRecords]
    BY <1>1, <1>3 DEF PortalConfiguration
  <2>2. {On(c), Configuration} \in SUBSET Resources BY <1>1
  <2>3. QED BY <2>1, <2>2 DEF Nexts
<1>5. WriteShape(c, Write(On(c), Created(c)))
  <2>1. PlanShape(c, Write(On(c), Created(c))) BY CreateOK
  <2>2. Dimension(c) # "mutation" /\ DOMAIN Write(On(c), Created(c)) # {}
    BY Dimensioned DEF TypeInv, Write
  <2>3. QED BY <2>1, <2>2 DEF PlanShape
<1>6. Write(On(c), Created(c))[On(c)] = Created(c) BY DEF Write
<1>7. WriteShape(c, next) BY <1>2, <1>5, <1>6 DEF WriteShape
<1>8. Dimension(c) # "mutation" BY Dimensioned DEF TypeInv
<1>9. QED BY <1>2, <1>4, <1>7, <1>8 DEF PlanShape

LEMMA PortalOK ==
  ASSUME TypeInv, MappingInv, NEW c \in DOMAIN asked, Kind(c) = "customer-portal",
         NEW plan \in CustomerPortal(c)
  PROVE  PlanOK(c, plan)
<1> DEFINE session == Write(On(c), Created(c))
           both == [r \in {On(c), Configuration} |->
                      IF r = On(c) THEN Created(c)
                      ELSE [Unmapped EXCEPT !.status = "active", !.immutable = 1]]
<1>1. plan \in {Refuse, Review, Call(both), Call(session)}
  <2>1. PICK use \in Uses(c) :
          plan \in Subscription(use[1], c, FALSE,
                     {Call(IF mapping[Configuration].status = "none" THEN both ELSE session)})
    BY DEF CustomerPortal
  <2> HIDE DEF both, session
  <2>2. QED BY <2>1 DEF Subscription
<1>2. both \in Nexts /\ PlanShape(c, both) BY BothOK
<1>3. session \in Nexts /\ PlanShape(c, session) BY CreateOK
<1> HIDE DEF both, session
<1>4. QED BY <1>1, <1>2, <1>3, EndOK, WriteOK

LEMMA CheckoutOK ==
  ASSUME TypeInv, MappingInv, NEW c \in DOMAIN asked, Kind(c) = "checkout",
         NEW plan \in Checkout(c)
  PROVE  PlanOK(c, plan)
<1>1. PICK m : m = mapping[On(c)] OBVIOUS
<1>2. \/ plan = Refuse
      \/ plan = Done /\ m.status # "none" /\ m.immutable = Revision(c)
      \/ plan = Call(Write(On(c), Created(c)))
  BY <1>1 DEF Checkout
<1>3. CASE plan = Done /\ m.status # "none" /\ m.immutable = Revision(c)
  <2>1. Dimension(c) = "immutable" BY Dimensioned DEF TypeInv
  <2>2. m.immutable \in Nat BY <1>1, MappingRead
  <2>3. mapping[On(c)][Dimension(c)] >= Revision(c) BY <1>1, <1>3, <2>1, <2>2
  <2>4. QED BY <1>1, <1>3, <2>3, DoneOK
<1>4. CASE plan = Call(Write(On(c), Created(c)))
  <2>1. Write(On(c), Created(c)) \in Nexts /\ PlanShape(c, Write(On(c), Created(c)))
    BY CreateOK DEF Creators
  <2>2. QED BY <1>4, <2>1, WriteOK
<1>5. QED BY <1>2, <1>3, <1>4, EndOK

LEMMA MutatesOK ==
  ASSUME TypeInv, NEW c \in DOMAIN asked,
         Kind(c) \in {"subscription-change", "subscription-discount", "subscription-pause"},
         NEW plan, NEW plans, plans \subseteq {Done, Call(Nothing)}, NEW enforced,
         plan \in Subscription(On(c), c, enforced, plans)
  PROVE  PlanOK(c, plan)
<1>1. Dimension(c) = "mutation" BY Dimensioned DEF TypeInv
<1>2. plan \in {Refuse, Review, Done, Call(Nothing)} BY DEF Subscription
<1>3. QED BY <1>1, <1>2, EndOK, MutationOK

\* Whatever a command is, and whatever the catalogue shows.
LEMMA PlansOK ==
  ASSUME TypeInv, MappingInv, NEW c \in DOMAIN asked, NEW plan \in Plans(c) \cup {Unsure}
  PROVE  PlanOK(c, plan)
<1>1. Kind(c) \in Kinds BY AskedRead DEF TypeInv
<1>2. CASE plan = Unsure BY <1>2, EndOK
<1>3. ASSUME plan \in Plans(c) PROVE PlanOK(c, plan)
  <2>1. CASE Kind(c) = "provision"
    <3>1. plan = Provision(c) BY <1>3, <2>1 DEF Plans
    <3>2. CASE mapping[On(c)].status = "none"
      <4>1. Write(On(c), Created(c)) \in Nexts /\ PlanShape(c, Write(On(c), Created(c)))
        BY <2>1, CreateOK DEF Creators
      <4>2. QED BY <3>1, <3>2, <4>1, WriteOK DEF Provision
    <3>3. CASE mapping[On(c)].status # "none"
      BY <2>1, <3>1, <3>3, RenewOK DEF Provision, Creators
    <3>4. QED BY <3>2, <3>3
  <2>2. CASE Kind(c) = "discount"
    <3>1. plan = Discount(c) BY <1>3, <2>2 DEF Plans
    <3>2. CASE plan = Refuse BY <3>2, EndOK
    <3>3. CASE mapping[On(c)].status # "none" /\ plan = Renew(c)
      BY <2>2, <3>3, RenewOK DEF Creators
    <3>4. CASE plan = Call(Write(On(c), Created(c)))
      <4>1. Write(On(c), Created(c)) \in Nexts /\ PlanShape(c, Write(On(c), Created(c)))
        BY <2>2, CreateOK DEF Creators
      <4>2. QED BY <3>4, <4>1, WriteOK
    <3>5. QED BY <3>1, <3>2, <3>3, <3>4 DEF Discount
  <2>3. CASE Kind(c) \in {"deactivate", "discount-lifecycle"}
    <3>1. \/ Kind(c) = "deactivate" /\ plan = Deactivate(c)
          \/ Kind(c) = "discount-lifecycle" /\ plan = DiscountLifecycle(c)
      BY <1>3, <2>3 DEF Plans
    <3>2. QED BY <3>1, LifecycleOK
  <2>4. CASE Kind(c) \in {"product-presentation", "discount-presentation"}
    <3>1. plan = Presentation(c) BY <1>3, <2>4 DEF Plans
    <3>2. QED BY <2>4, <3>1, PresentationOK
  <2>5. CASE Kind(c) = "checkout"
    <3>1. plan \in Checkout(c) BY <1>3, <2>5 DEF Plans
    <3>2. QED BY <2>5, <3>1, CheckoutOK
  <2>6. CASE Kind(c) = "subscription-change"
    <3>1. plan \in SubscriptionChange(c) BY <1>3, <2>6 DEF Plans
    <3>2. QED BY <2>6, <3>1, MutatesOK DEF SubscriptionChange
  <2>7. CASE Kind(c) = "subscription-discount"
    <3>1. plan \in SubscriptionDiscount(c) BY <1>3, <2>7 DEF Plans
    <3>2. QED BY <2>7, <3>1, MutatesOK DEF SubscriptionDiscount
  <2>8. CASE Kind(c) = "subscription-pause"
    <3>1. plan \in SubscriptionPause(c) BY <1>3, <2>8 DEF Plans
    <3>2. QED BY <2>8, <3>1, MutatesOK DEF SubscriptionPause
  <2>9. CASE Kind(c) = "customer-portal"
    <3>1. plan \in CustomerPortal(c) BY <1>3, <2>9 DEF Plans
    <3>2. QED BY <2>9, <3>1, PortalOK
  <2>10. QED BY <1>1, <2>1, <2>2, <2>3, <2>4, <2>5, <2>6, <2>7, <2>8, <2>9 DEF Kinds
<1>4. QED BY <1>2, <1>3

-----------------------------------------------------------------------------
(* What a completion writes *)

LEMMA AdvanceOne ==
  ASSUME NEW old \in MappingRecords, NEW m \in MappingRecords, NEW r \in Resources,
         old = mapping[r], NEW d \in Dimensions, Writable(r, m), old.status # "none",
         \A x \in Dimensions \ {d} : m[x] <= old[x]
  PROVE  /\ m[d] > old[d] /\ Written(r, m) \in MappingRecords /\ Written(r, m)[d] = m[d]
         /\ \A x \in Dimensions \ {d} : Written(r, m)[x] = old[x]
         /\ Written(r, m).status = IF d = "lifecycle" THEN m.status ELSE old.status
<1>1. \A x \in Dimensions : m[x] \in Nat /\ old[x] \in Nat
  BY DEF Dimensions, MappingRecords
<1>2. Advanced(r, m) \subseteq {d} BY <1>1 DEF Advanced
<1>3. Cardinality({}) = 0 BY FS_EmptySet
<1>4. Advanced(r, m) = {d}
  <2>1. Advanced(r, m) # {} BY <1>3 DEF Writable
  <2>2. QED BY <1>2, <2>1
<1>5. m[d] > old[d] BY <1>4 DEF Advanced
<1>6. (CHOOSE x \in Advanced(r, m) : TRUE) = d BY <1>4
<1>7. CASE d = "lifecycle"
  <2>1. Written(r, m) = [old EXCEPT !.lifecycle = m.lifecycle, !.status = m.status]
    BY <1>6, <1>7 DEF Written
  <2>2. m.lifecycle \in Nat /\ m.status \in Statuses BY DEF MappingRecords
  <2>3. Written(r, m) \in MappingRecords
    <3>1. PICK n, k : n = m.lifecycle /\ k = m.status OBVIOUS
    <3>2. [old EXCEPT !.lifecycle = n, !.status = k] \in MappingRecords
      BY <2>2, <3>1, Rewritten
    <3>3. QED BY <2>1, <3>1, <3>2
  <2>4. /\ Written(r, m).lifecycle = m.lifecycle /\ Written(r, m).status = m.status
        /\ Written(r, m).immutable = old.immutable
        /\ Written(r, m).presentation = old.presentation
    BY <2>1 DEF MappingRecords
  <2>5. QED BY <1>5, <1>7, <2>3, <2>4 DEF Dimensions
<1>8. CASE d = "immutable"
  <2>1. Written(r, m) = [old EXCEPT !.immutable = m.immutable]
    BY <1>6, <1>8 DEF Written
  <2>2. m.immutable \in Nat BY DEF MappingRecords
  <2>3. Written(r, m) \in MappingRecords BY <2>1, <2>2, Rewritten DEF Statuses
  <2>4. /\ Written(r, m).immutable = m.immutable /\ Written(r, m).status = old.status
        /\ Written(r, m).lifecycle = old.lifecycle
        /\ Written(r, m).presentation = old.presentation
    BY <2>1 DEF MappingRecords
  <2>5. QED BY <1>5, <1>8, <2>3, <2>4 DEF Dimensions
<1>9. CASE d = "presentation"
  <2>1. Written(r, m) = [old EXCEPT !.presentation = m.presentation]
    BY <1>6, <1>9 DEF Written
  <2>2. m.presentation \in Nat BY DEF MappingRecords
  <2>3. Written(r, m) \in MappingRecords BY <2>1, <2>2, Rewritten DEF Statuses
  <2>4. /\ Written(r, m).presentation = m.presentation /\ Written(r, m).status = old.status
        /\ Written(r, m).lifecycle = old.lifecycle
        /\ Written(r, m).immutable = old.immutable
    BY <2>1 DEF MappingRecords
  <2>5. QED BY <1>5, <1>9, <2>3, <2>4 DEF Dimensions
<1>10. QED BY <1>7, <1>8, <1>9 DEF Dimensions

\* The portal configuration is created once, and nothing rewrites it.
LEMMA ConfigurationOnce ==
  ASSUME TypeInv, MappingInv, mapping[Configuration].status # "none"
  PROVE  ~Writable(Configuration, PortalConfiguration)
<1>1. PICK m, p : m = mapping[Configuration] /\ p = PortalConfiguration OBVIOUS
<1>2. Configuration \in Resources BY DEF Resources
<1>3. m \in MappingRecords /\ m.immutable > 0
  BY <1>1, <1>2 DEF TypeInv, RecordTypes, MappingInv
<1>4. p.immutable = 1 /\ p.presentation = 0 /\ p.lifecycle = 0
  BY <1>1 DEF PortalConfiguration, Unmapped
<1>5. m.immutable \in Nat /\ m.presentation \in Nat /\ m.lifecycle \in Nat
  BY <1>3 DEF MappingRecords
<1>6. Advanced(Configuration, p) = {} BY <1>1, <1>3, <1>4, <1>5 DEF Advanced, Dimensions
<1>7. Cardinality({}) = 0 BY FS_EmptySet
<1>8. QED BY <1>1, <1>6, <1>7 DEF Writable

\* The mappings of a completion, from those there were.
Completed(c, next) ==
  [r \in Resources |-> IF r \in DOMAIN next THEN Written(r, next[r]) ELSE mapping[r]]
LEMMA CompletionWrites ==
  ASSUME TypeInv, MappingInv, NEW c \in DOMAIN asked, NEW next \in Nexts, PlanShape(c, next),
         Completable(c, next), NEW M, M = Completed(c, next)
  PROVE  /\ M \in [Resources -> MappingRecords]
         /\ \A r \in Resources \ {On(c), Configuration} : M[r] = mapping[r]
         /\ M[Configuration] # mapping[Configuration] =>
              mapping[Configuration].status = "none" /\ M[Configuration] = PortalConfiguration
         /\ DOMAIN next = {} => M = mapping
         /\ DOMAIN next # {} =>
              /\ WriteShape(c, next) /\ Dimension(c) \in Dimensions
              /\ M[On(c)][Dimension(c)] = Revision(c)
              /\ Revision(c) > mapping[On(c)][Dimension(c)]
              /\ \A x \in Dimensions \ {Dimension(c)} : M[On(c)][x] = mapping[On(c)][x]
              /\ M[On(c)].status # "none" /\ M[On(c)].immutable > 0
              /\ mapping[On(c)].status = "none" => M[On(c)] = Created(c)
              /\ mapping[On(c)].status # "none" =>
                   M[On(c)].status = IF Dimension(c) = "lifecycle"
                                     THEN next[On(c)].status ELSE mapping[On(c)].status
<1>1. /\ On(c) \in Resources /\ On(c) # Configuration /\ Configuration \in Resources
      /\ Revision(c) \in Nat \ {0} /\ Dimension(c) \in Dimensions \cup {"mutation"}
  BY AskedRead, Dimensioned DEF TypeInv, Resources
<1>2. mapping \in [Resources -> MappingRecords] BY DEF TypeInv, RecordTypes
<1>3. CASE DOMAIN next = {}
  <2>1. M = mapping BY <1>2, <1>3 DEF Completed
  <2>2. QED BY <1>2, <1>3, <2>1
<1>4. CASE DOMAIN next # {}
  <2>1. WriteShape(c, next) /\ Dimension(c) \in Dimensions
    BY <1>1, <1>4 DEF PlanShape
  <2>2. PICK old, m, d : old = mapping[On(c)] /\ m = next[On(c)] /\ d = Dimension(c) OBVIOUS
  <2>3. /\ old \in MappingRecords /\ m \in MappingRecords /\ d \in Dimensions
        /\ Writable(On(c), m) /\ \A x \in Dimensions \ {d} : m[x] <= old[x]
        /\ m.status # "none" /\ m.immutable > 0 /\ m[d] = Revision(c)
        /\ DOMAIN next \subseteq {On(c), Configuration} /\ On(c) \in DOMAIN next
        /\ Configuration \in DOMAIN next => next[Configuration] = PortalConfiguration
        /\ old.status = "none" => m = Created(c)
    BY <1>1, <1>2, <2>1, <2>2 DEF WriteShape, Completable, AllWritable
  <2>4. M[On(c)] = Written(On(c), m) BY <1>1, <2>2, <2>3 DEF Completed
  <2>5. \A r \in Resources \ {On(c), Configuration} : M[r] = mapping[r]
    BY <2>3 DEF Completed
  <2>6. /\ M[Configuration] \in MappingRecords
        /\ M[Configuration] # mapping[Configuration] =>
             mapping[Configuration].status = "none" /\ M[Configuration] = PortalConfiguration
    <3>1. CASE Configuration \notin DOMAIN next
      <4>1. M[Configuration] = mapping[Configuration] BY <1>1, <3>1 DEF Completed
      <4>2. QED BY <1>1, <1>2, <4>1
    <3>2. CASE Configuration \in DOMAIN next
      <4>1. Writable(Configuration, PortalConfiguration)
        BY <2>3, <3>2 DEF Completable, AllWritable
      <4>2. mapping[Configuration].status = "none" BY <4>1, ConfigurationOnce
      <4>3. M[Configuration] = PortalConfiguration
        BY <1>1, <2>3, <3>2, <4>2 DEF Completed, Written
      <4>4. QED BY <4>2, <4>3, CreatedRecord DEF TypeInv
    <3>3. QED BY <3>1, <3>2
  <2>7. /\ M[On(c)] \in MappingRecords /\ M[On(c)][d] = Revision(c) /\ Revision(c) > old[d]
        /\ \A x \in Dimensions \ {d} : M[On(c)][x] = old[x]
        /\ old.status = "none" => M[On(c)] = Created(c)
        /\ old.status # "none" =>
             M[On(c)].status = IF d = "lifecycle" THEN m.status ELSE old.status
    <3>1. CASE old.status # "none"
      <4>1. /\ m[d] > old[d] /\ Written(On(c), m) \in MappingRecords
            /\ Written(On(c), m)[d] = m[d]
            /\ \A x \in Dimensions \ {d} : Written(On(c), m)[x] = old[x]
            /\ Written(On(c), m).status = IF d = "lifecycle" THEN m.status ELSE old.status
        BY <1>1, <2>2, <2>3, <3>1, AdvanceOne
      <4>2. QED BY <2>3, <2>4, <3>1, <4>1
    <3>2. CASE old.status = "none"
      <4>1. M[On(c)] = m /\ m = Created(c) BY <2>2, <2>3, <2>4, <3>2 DEF Written
      <4>2. old.immutable = 0 /\ old.presentation = 0 /\ old.lifecycle = 0
        BY <2>2, <3>2, MappingRead
      <4>3. \A x \in Dimensions : old[x] = 0 BY <4>2 DEF Dimensions
      <4>4. \A x \in Dimensions : m[x] \in Nat BY <2>3 DEF Dimensions, MappingRecords
      <4>5. \A x \in Dimensions \ {d} : m[x] = 0 BY <2>3, <4>3, <4>4
      <4>6. QED BY <1>1, <2>3, <3>2, <4>1, <4>3, <4>5
    <3>3. QED BY <3>1, <3>2
  <2>8. M[On(c)].immutable > 0 /\ M[On(c)].status # "none"
    <3>1. CASE old.status = "none"
      <4>1. M[On(c)] = m BY <2>3, <2>7, <3>1
      <4>2. QED BY <2>3, <4>1
    <3>2. CASE old.status # "none"
      <4>1. old.immutable > 0 /\ old.immutable \in Nat BY <2>2, <3>2, MappingRead
      <4>2. \/ d = "immutable" /\ M[On(c)].immutable = Revision(c)
            \/ M[On(c)].immutable = old.immutable
        <5>1. CASE d = "immutable" BY <2>7, <5>1
        <5>2. CASE d # "immutable"
          <6>1. "immutable" \in Dimensions \ {d} BY <5>2 DEF Dimensions
          <6>2. M[On(c)]["immutable"] = old["immutable"] BY <2>7, <6>1
          <6>3. QED BY <6>2
        <5>3. QED BY <5>1, <5>2
      <4>3. QED BY <1>1, <2>3, <2>7, <3>2, <4>1, <4>2
    <3>3. QED BY <3>1, <3>2
  <2>9. M \in [Resources -> MappingRecords]
    <3>1. \A r \in Resources : M[r] \in MappingRecords BY <1>2, <2>5, <2>6, <2>7
    <3>2. QED BY <3>1 DEF Completed
  <2>10. QED BY <1>4, <2>1, <2>2, <2>5, <2>6, <2>7, <2>8, <2>9
<1>5. QED BY <1>3, <1>4

-----------------------------------------------------------------------------
(* Receipts and claims *)

\* What a command asks never changes, nor what it stands for.
LEMMA SameAsked ==
  ASSUME asked' = asked
  PROVE  /\ \A c : /\ Kind(c)' = Kind(c) /\ On(c)' = On(c) /\ Revision(c)' = Revision(c)
                   /\ Content(c)' = Content(c) /\ Dimension(c)' = Dimension(c)
                   /\ Operation(c)' = Operation(c) /\ Created(c)' = Created(c)
         /\ Operations' = Operations /\ ClaimRecords' = ClaimRecords
         /\ MappingRecords' = MappingRecords /\ Nexts' = Nexts /\ RunRecords' = RunRecords
         /\ Catalogued' = Catalogued
<1>1. \A c : /\ Kind(c)' = Kind(c) /\ On(c)' = On(c) /\ Revision(c)' = Revision(c)
             /\ Content(c)' = Content(c)
  BY DEF Kind, On, Revision, Content
<1>2. \A c : Dimension(c)' = Dimension(c) BY DEF Dimension, Kind
<1>3. \A c : Operation(c)' = Operation(c) BY DEF Operation, Dimension, Kind, On, Revision
<1>4. \A c : Created(c)' = Created(c) BY DEF Created, Kind, Revision, Content
<1>5. Operations' = Operations BY DEF Operations, Operation, Dimension, Kind, On, Revision
<1>6. ClaimRecords' = ClaimRecords BY DEF ClaimRecords
<1>7. MappingRecords' = MappingRecords BY DEF MappingRecords, Words, Content
<1>8. Nexts' = Nexts BY <1>7 DEF Nexts
<1>9. RunRecords' = RunRecords BY <1>8 DEF RunRecords
<1>10. Catalogued' = Catalogued BY <1>5 DEF Catalogued
<1>11. QED BY <1>1, <1>2, <1>3, <1>4, <1>5, <1>6, <1>7, <1>8, <1>9, <1>10

LEMMA SameAnswers == ASSUME answers' = answers PROVE \A c : Told(c)' = Told(c)
BY DEF Told

LEMMA AskedKept == ASSUME AskedInv, UNCHANGED <<asked, sent>> PROVE AskedInv'
BY DEF AskedInv, On, Kind, Content

\* What is read of a command's claim and receipt.
LEMMA RecordsRead ==
  ASSUME TypeInv, NEW c \in DOMAIN asked
  PROVE  /\ Operation(c) \in Operations /\ c # NoCommand
         /\ claim[Operation(c)] \in ClaimRecords
         /\ claim[Operation(c)].command \in DOMAIN asked \cup {NoCommand}
         /\ receipt[c] \in Open \cup Settled \cup {"none"}
         /\ DOMAIN receipt = DOMAIN asked /\ DOMAIN claim = Operations
<1>1. Operation(c) \in Operations BY DEF Operations
<1>2. c # NoCommand BY CommandAssumption DEF CommandAssumption, TypeInv, AskedInv
<1>3. QED BY <1>1, <1>2 DEF TypeInv, RecordTypes, ClaimRecords

\* A step that leaves the claims alone, and moves receipts as their expiry and
\* their copies do.
LEMMA ClaimsKept ==
  ASSUME TypeInv, StoreInv, UNCHANGED <<asked, claim>>, RunInv',
         \A c \in DOMAIN asked :
           /\ Attempted(c)' => Attempted(c) \/ Known(c)
           /\ \/ receipt'[c] = receipt[c] \/ receipt'[c] = "none"
              \/ Known(c) /\ receipt'[c] = Status(c)
  PROVE  StoreInv'
<1>1. ClaimInv' BY SameAsked DEF StoreInv, ClaimInv
<1>2. TakenInv'
  <2>1. ASSUME NEW c \in DOMAIN asked, Attempted(c)' PROVE Passed(c)
    <3>1. CASE Attempted(c) BY <3>1 DEF StoreInv, TakenInv
    <3>2. CASE ~Attempted(c)
      <4>1. claim[Operation(c)].command = c BY <2>1, <3>2 DEF Known, Attempted
      <4>2. Revision(c) \in Nat BY AskedRead DEF TypeInv
      <4>3. QED BY <4>1, <4>2 DEF Passed
    <3>3. QED BY <3>1, <3>2
  <2>2. \A c \in DOMAIN asked : Passed(c) => Passed(c)' BY SameAsked DEF Passed
  <2>3. QED BY <2>1, <2>2 DEF TakenInv
<1>3. ReceiptMatchesClaim'
  <2>1. ASSUME NEW c \in DOMAIN asked, NEW h, h = claim[Operation(c)],
               receipt'[c] \in Open \/ (receipt'[c] # "none" /\ h.command = c)
        PROVE  h = [command |-> c, status |-> receipt'[c]]
    <3>1. h \in ClaimRecords BY <2>1, RecordsRead
    <3>2. "none" \notin Open BY DEF Open
    <3>3. CASE receipt'[c] = receipt[c] BY <2>1, <3>3 DEF StoreInv, ReceiptMatchesClaim
    <3>4. CASE receipt[c] = "none" /\ Known(c) /\ receipt'[c] = Status(c)
      <4>1. h.command = c /\ receipt'[c] = h.status BY <2>1, <3>4 DEF Known, Status
      <4>2. QED BY <3>1, <4>1 DEF ClaimRecords
    <3>5. CASE receipt[c] # "none" /\ Known(c) /\ receipt'[c] = Status(c)
      BY <3>3, <3>5 DEF Status
    <3>6. QED BY <2>1, <3>2, <3>3, <3>4, <3>5
  <2>2. QED BY <2>1, SameAsked DEF ReceiptMatchesClaim
<1>4. QED BY <1>1, <1>2, <1>3 DEF StoreInv

\* A transition moves the receipt and the claim of an open command together.
LEMMA ClaimMoved ==
  ASSUME TypeInv, StoreInv, UNCHANGED asked, RunInv', NEW c \in DOMAIN asked,
         NEW t \in Open \cup Settled, StillOpen(c), SetStatus(c, t),
         \A d \in DOMAIN asked : Attempted(d)' => Attempted(d) \/ d = c
  PROVE  /\ StoreInv'
         /\ receipt'[c] = t /\ claim'[Operation(c)] = [command |-> c, status |-> t]
         /\ \A d \in DOMAIN asked \ {c} : receipt'[d] = receipt[d]
         /\ \A o \in Operations \ {Operation(c)} : claim'[o] = claim[o]
         /\ receipt' \in [DOMAIN asked -> Open \cup Settled \cup {"none"}]
         /\ claim' \in [Operations -> ClaimRecords]
<1>1. PICK o, x : o = Operation(c) /\ x = [claim[o] EXCEPT !.status = t] OBVIOUS
<1>2. /\ o \in Operations /\ claim[o].command = c /\ claim[o] \in ClaimRecords /\ c # NoCommand
      /\ DOMAIN receipt = DOMAIN asked /\ DOMAIN claim = Operations /\ receipt[c] \in Open
  BY <1>1, RecordsRead DEF StillOpen
<1>3. x \in ClaimRecords /\ x.command = c /\ x.status = t /\ x = [command |-> c, status |-> t]
  BY <1>1, <1>2 DEF ClaimRecords
<1>4. claim' = [claim EXCEPT ![o] = x] /\ receipt' = [receipt EXCEPT ![c] = t]
  BY <1>1 DEF SetStatus
<1>5. /\ claim'[o] = x /\ receipt'[c] = t
      /\ \A p \in Operations \ {o} : claim'[p] = claim[p]
      /\ \A d \in DOMAIN asked \ {c} : receipt'[d] = receipt[d]
  BY <1>2, <1>4
<1>6. /\ receipt' \in [DOMAIN asked -> Open \cup Settled \cup {"none"}]
      /\ claim' \in [Operations -> ClaimRecords]
  BY <1>2, <1>3, <1>4 DEF TypeInv, RecordTypes
<1>7. t # "none" BY DEF Open, Settled
<1>8. \A p \in Operations : claim'[p].command = claim[p].command
  BY <1>2, <1>3, <1>5
<1>9. ClaimInv'
  <2>1. \A p \in Operations : claim'[p].command = NoCommand <=> claim'[p].status = "none"
    BY <1>2, <1>3, <1>5, <1>7 DEF StoreInv, ClaimInv
  <2>2. QED BY <1>8, <2>1, SameAsked DEF StoreInv, ClaimInv
<1>10. TakenInv'
  <2>1. \A d \in DOMAIN asked : Passed(d) => Passed(d)'
    BY <1>8, SameAsked, RecordsRead DEF Passed
  <2>2. Attempted(c) BY <1>2 DEF Attempted, Open
  <2>3. \A d \in DOMAIN asked : Attempted(d)' => Attempted(d) BY <2>2
  <2>4. QED BY <2>1, <2>3 DEF StoreInv, TakenInv
<1>11. ReceiptMatchesClaim'
  <2>1. ASSUME NEW d \in DOMAIN asked, NEW h, h = claim'[Operation(d)],
               receipt'[d] \in Open \/ (receipt'[d] # "none" /\ h.command = d)
        PROVE  h = [command |-> d, status |-> receipt'[d]]
    <3>1. CASE d = c BY <1>1, <1>3, <1>5, <2>1, <3>1
    <3>2. CASE d # c
      <4>1. receipt'[d] = receipt[d] BY <1>5, <3>2
      <4>2. claim'[Operation(d)].command = claim[Operation(d)].command
        BY <1>8, RecordsRead
      <4>3. claim[Operation(d)] = [command |-> d, status |-> receipt[d]]
        BY <2>1, <4>1, <4>2 DEF StoreInv, ReceiptMatchesClaim
      <4>4. Operation(d) # o BY <1>2, <3>2, <4>3
      <4>5. QED BY <1>5, <2>1, <4>1, <4>3, <4>4, RecordsRead
    <3>3. QED BY <3>1, <3>2
  <2>2. QED BY <2>1, SameAsked DEF ReceiptMatchesClaim
<1>12. QED BY <1>1, <1>3, <1>5, <1>6, <1>9, <1>10, <1>11 DEF StoreInv

-----------------------------------------------------------------------------
(* The catalogue, when a step does not write it *)

LEMMA ProvidedStays ==
  ASSUME UNCHANGED asked, NEW r, Provided(r),
         \A x \in DOMAIN asked : effect[x] # "none" => effect'[x] # "none"
  PROVE  Provided(r)'
BY SameAsked DEF Provided

\* A plan goes on fitting while the catalogue advances, unless its command is
\* opened meanwhile or, open, loses what it found.
LEMMA ShapeKept ==
  ASSUME TypeInv, UNCHANGED asked, NEW c \in DOMAIN asked, NEW next \in Nexts,
         PlanShape(c, next), NEW old, old = mapping[On(c)], NEW now, now = mapping'[On(c)],
         \A d \in Dimensions : now[d] \in Nat /\ now[d] >= old[d],
         now.status = "none" => old.status = "none",
         StillOpen(c)' => StillOpen(c) /\ (Dimension(c) = "lifecycle" /\ old.status = "active"
                                            => now.status = "active")
  PROVE  PlanShape(c, next)'
<1>1. /\ On(c)' = On(c) /\ Dimension(c)' = Dimension(c) /\ Revision(c)' = Revision(c)
      /\ Kind(c)' = Kind(c) /\ Content(c)' = Content(c) /\ Created(c)' = Created(c)
      /\ MappingRecords' = MappingRecords
  BY SameAsked
<1>2. Revision(c) \in Nat /\ On(c) \in Resources BY AskedRead DEF TypeInv
<1>3. Dimension(c) \in Dimensions \cup {"mutation"} BY Dimensioned DEF TypeInv
<1>4. old \in MappingRecords BY <1>2 DEF TypeInv, RecordTypes
<1>5. \A d \in Dimensions : old[d] \in Nat BY <1>4 DEF MappingRecords, Dimensions
<1>6. CASE Dimension(c) = "mutation" BY <1>1, <1>6 DEF PlanShape
<1>7. CASE Dimension(c) # "mutation" /\ DOMAIN next = {}
  <2>1. old.status # "none" /\ old[Dimension(c)] >= Revision(c) BY <1>7 DEF PlanShape
  <2>2. now.status # "none" /\ now[Dimension(c)] >= Revision(c)
    BY <1>2, <1>3, <1>5, <1>7, <2>1
  <2>3. QED BY <1>1, <1>7, <2>2 DEF PlanShape
<1>8. CASE Dimension(c) # "mutation" /\ DOMAIN next # {}
  <2>1. WriteShape(c, next) BY <1>8 DEF PlanShape
  <2>2. PICK m : m = next[On(c)] OBVIOUS
  <2>3. m \in MappingRecords /\ \A d \in Dimensions \ {Dimension(c)} : m[d] <= old[d]
    BY <2>1, <2>2 DEF WriteShape
  <2>4. \A d \in Dimensions : m[d] \in Nat BY <2>3 DEF MappingRecords, Dimensions
  <2>5. \A d \in Dimensions \ {Dimension(c)} : m[d] <= now[d] BY <1>5, <2>3, <2>4
  <2>6. Kind(c) = "discount-lifecycle" => Dimension(c) = "lifecycle"
    BY Dimensioned DEF TypeInv
  <2>7. Kind(c) = "discount-lifecycle" /\ Content(c) = "active" /\ StillOpen(c)' =>
          now.status = "active"
    BY <2>1, <2>6 DEF WriteShape
  <2>8. WriteShape(c, next)'
    BY <1>1, <2>1, <2>2, <2>5, <2>7 DEF WriteShape, PortalConfiguration
  <2>9. QED BY <1>1, <1>8, <2>8 DEF PlanShape
<1>9. QED BY <1>6, <1>7, <1>8

LEMMA FitKept ==
  ASSUME TypeInv, UNCHANGED asked, NEW c \in DOMAIN asked, NEW next \in Nexts, NEW pc,
         PlanFits(c, pc, next), PlanShape(c, next) => PlanShape(c, next)',
         \A x \in DOMAIN asked : effect[x] # "none" => effect'[x] # "none"
  PROVE  PlanFits(c, pc, next)'
<1>1. On(c)' = On(c) /\ Dimension(c)' = Dimension(c) BY SameAsked
<1>2. Provided(On(c)) => Provided(On(c))' BY <1>1, SameAsked DEF Provided
<1>3. QED BY <1>1, <1>2 DEF PlanFits

\* A step that leaves the catalogue alone.
LEMMA CatalogueKept ==
  ASSUME TypeInv, CatalogueInv, UNCHANGED <<asked, mapping, code>>, LedgerInv',
         \A x \in DOMAIN asked : /\ effect[x] # "none" => effect'[x] # "none"
                                 /\ Accepted(x)' => Accepted(x),
         \A w \in Workers, c \in DOMAIN asked, pc \in Pcs, next \in Nexts :
           run'[w].command = c /\ run'[w].pc = pc /\ run'[w].next = next =>
             \/ PlanFits(c, pc, next)'
             \/ /\ PlanFits(c, pc, next)
                /\ pc \in {"call", "record"} => (StillOpen(c)' => StillOpen(c))
  PROVE  CatalogueInv'
<1>1. MappingInv'
  <2>1. ASSUME NEW r \in Resources
        PROVE  /\ mapping'[r].status = "none" => mapping'[r] = Unmapped
               /\ mapping'[r].status # "none" =>
                    mapping'[r].immutable > 0 /\ (r # Configuration => Provided(r)')
    BY ProvidedStays DEF CatalogueInv, MappingInv
  <2>2. QED BY <2>1 DEF MappingInv
<1>2. RecordedInv'
  <2>1. ASSUME NEW c \in DOMAIN asked, Accepted(c)', Dimension(c) # "mutation"
        PROVE  Recorded(c)'
    <3>1. mapping[On(c)][Dimension(c)] >= Revision(c) /\ Provided(On(c))
      BY <2>1 DEF CatalogueInv, RecordedInv, Recorded
    <3>2. On(c)' = On(c) /\ Dimension(c)' = Dimension(c) /\ Revision(c)' = Revision(c)
      BY SameAsked
    <3>3. Provided(On(c))' BY <3>1, <3>2, SameAsked DEF Provided
    <3>4. QED BY <3>1, <3>2, <3>3 DEF Recorded
  <2>2. QED BY <2>1, SameAsked DEF RecordedInv
<1>3. CodeExclusive' BY DEF CatalogueInv, CodeExclusive, Active
<1>4. PlanInv'
  <2>1. ASSUME NEW w \in Workers, NEW c \in DOMAIN asked, NEW pc \in Pcs, NEW next \in Nexts,
               run'[w].command = c, run'[w].pc = pc, run'[w].next = next
        PROVE  PlanFits(c, pc, next)'
    <3>1. SUFFICES ASSUME ~PlanFits(c, pc, next)' PROVE FALSE OBVIOUS
    <3>2. CASE pc \notin {"call", "record"} BY <3>1, <3>2 DEF PlanFits
    <3>3. CASE pc \in {"call", "record"}
      <4>1. PlanFits(c, pc, next) /\ (StillOpen(c)' => StillOpen(c)) BY <2>1, <3>1, <3>3
      <4>2. PICK old : old = mapping[On(c)] OBVIOUS
      <4>3. old = mapping'[On(c)] BY <4>2
      <4>4. \A d \in Dimensions : old[d] \in Nat /\ old[d] >= old[d]
        BY <4>2, MappingRead DEF CatalogueInv, Dimensions
      <4>5. PlanShape(c, next) => PlanShape(c, next)' BY <4>1, <4>2, <4>3, <4>4, ShapeKept
      <4>6. QED BY <3>1, <4>1, <4>5, FitKept
    <3>4. QED BY <3>2, <3>3
  <2>2. QED BY <2>1, SameAsked DEF PlanInv
<1>5. QED BY <1>1, <1>2, <1>3, <1>4 DEF CatalogueInv

-----------------------------------------------------------------------------
(* The steps *)

LEMMA RunRead ==
  ASSUME TypeInv, StoreInv, NEW w \in Workers, run[w].pc # "idle", NEW c, c = run[w].command
  PROVE  /\ run[w] \in RunRecords /\ run[w].pc \in Pcs /\ run[w].next \in Nexts
         /\ c \in DOMAIN asked /\ receipt[c] \in Open \cup Settled /\ Attempted(c)
<1>1. run[w] \in RunRecords BY DEF TypeInv, RecordTypes
<1>2. c \in DOMAIN asked /\ receipt[c] # "none" BY DEF StoreInv, RunInv
<1>3. QED BY <1>1, <1>2 DEF RunRecords, TypeInv, RecordTypes, Attempted

LEMMA IdleIs == Idle \in RunRecords /\ Idle.pc = "idle" /\ Idle.command = NoCommand
BY NothingIs DEF Idle, RunRecords, Pcs

\* A command that can be claimed has left no trace, and no invocation runs it.
LEMMA ClaimableIsNew ==
  ASSUME TypeInv, StoreInv, NEW c \in DOMAIN asked, Claimable(c)
  PROVE  /\ receipt[c] = "none" /\ effect[c] = "none" /\ Told(c) = {} /\ c \notin late
         /\ \A w \in Workers : run[w].pc # "idle" => run[w].command # c
         /\ \A h \in DOMAIN asked : claim[Operation(c)].command = h =>
              Revision(h) < Revision(c) /\ claim[Operation(c)].status = "accepted" /\ h # c
<1>1. receipt[c] = "none" BY DEF Claimable
<1>2. \A h \in DOMAIN asked : claim[Operation(c)].command = h =>
        Revision(h) < Revision(c) /\ claim[Operation(c)].status = "accepted"
  BY RecordsRead DEF Claimable
<1>3. \A h \in DOMAIN asked : Revision(h) \in Nat BY AskedRead DEF TypeInv
<1>4. ~Passed(c) BY <1>2, <1>3 DEF Passed
<1>5. ~Attempted(c) BY <1>4 DEF StoreInv, TakenInv
<1>6. \A w \in Workers : run[w].pc # "idle" => run[w].command # c BY <1>5, RunRead
<1>7. QED BY <1>1, <1>2, <1>3, <1>5, <1>6 DEF Attempted

LEMMA StartStep ==
  ASSUME CommandsInv, NEW w \in Workers, NEW c \in sent, Start(w, c)
  PROVE  CommandsInv'
<1>1. TypeInv /\ StoreInv /\ KeyInv /\ AnswersInv /\ CatalogueInv BY DEF CommandsInv
<1>2. c \in DOMAIN asked BY <1>1 DEF TypeInv, AskedInv
<1>3. PICK o, x, b : /\ o = Operation(c) /\ x = [command |-> c, status |-> "pending"]
                     /\ b = [pc |-> "perform", command |-> c, next |-> Nothing]
  OBVIOUS
<1>4. /\ UNCHANGED <<asked, sent, late, mapping, code, source, effect, answers>>
      /\ receipt' = [receipt EXCEPT ![c] = "pending"] /\ claim' = [claim EXCEPT ![o] = x]
      /\ run' = [run EXCEPT ![w] = b] /\ Claimable(c)
  BY <1>3 DEF Start, Begin
<1>5. /\ receipt[c] = "none" /\ effect[c] = "none" /\ Told(c) = {} /\ c \notin late
      /\ \A v \in Workers : run[v].pc # "idle" => run[v].command # c
      /\ \A h \in DOMAIN asked : claim[o].command = h =>
           Revision(h) < Revision(c) /\ claim[o].status = "accepted" /\ h # c
  BY <1>1, <1>2, <1>3, <1>4, ClaimableIsNew
<1>6. /\ o \in Operations /\ c # NoCommand /\ DOMAIN receipt = DOMAIN asked
      /\ DOMAIN claim = Operations
  BY <1>1, <1>2, <1>3, RecordsRead
<1>7. DOMAIN run = Workers /\ run \in [Workers -> RunRecords]
  BY <1>1 DEF TypeInv, RecordTypes
<1>8. x \in ClaimRecords /\ x.command = c /\ x.status = "pending"
  BY <1>2, <1>3 DEF ClaimRecords, Open
<1>9. b \in RunRecords /\ b.pc = "perform" /\ b.command = c
  BY <1>2, <1>3, NothingIs DEF RunRecords, Pcs
<1>10. /\ receipt'[c] = "pending" /\ claim'[o] = x /\ run'[w] = b
       /\ \A d \in DOMAIN asked \ {c} : receipt'[d] = receipt[d]
       /\ \A p \in Operations \ {o} : claim'[p] = claim[p]
       /\ \A v \in Workers \ {w} : run'[v] = run[v]
  BY <1>2, <1>4, <1>6, <1>7
<1>11. TypeInv'
  <2>1. /\ receipt' \in [DOMAIN asked -> Open \cup Settled \cup {"none"}]
        /\ claim' \in [Operations -> ClaimRecords] /\ run' \in [Workers -> RunRecords]
    BY <1>1, <1>4, <1>8, <1>9 DEF TypeInv, RecordTypes, Open
  <2>2. AskedInv' BY <1>1, <1>4, AskedKept DEF TypeInv
  <2>3. QED BY <1>1, <1>4, <2>1, <2>2, SameAsked DEF TypeInv, RecordTypes
<1>12. StoreInv'
  <2>1. ClaimInv'
    <3>1. \A p \in Operations : /\ claim'[p].command = NoCommand <=> claim'[p].status = "none"
                                /\ \A d \in DOMAIN asked : claim'[p].command = d => Operation(d) = p
      BY <1>1, <1>3, <1>6, <1>8, <1>10 DEF StoreInv, ClaimInv
    <3>2. QED BY <1>4, <3>1, SameAsked DEF ClaimInv
  <2>2. RunInv'
    <3>1. ASSUME NEW v \in Workers, run'[v].pc # "idle"
          PROVE  run'[v].command \in DOMAIN asked /\ receipt'[run'[v].command] # "none"
      <4>1. CASE v = w BY <1>2, <1>9, <1>10, <4>1
      <4>2. CASE v # w
        <5>1. PICK d : d = run[v].command OBVIOUS
        <5>2. d \in DOMAIN asked /\ receipt[d] # "none" /\ d # c
          BY <1>1, <1>5, <1>10, <3>1, <4>2, <5>1 DEF StoreInv, RunInv
        <5>3. QED BY <1>10, <4>2, <5>1, <5>2
      <4>3. QED BY <4>1, <4>2
    <3>2. QED BY <1>4, <3>1 DEF RunInv
  <2>3. TakenInv'
    <3>1. ASSUME NEW d \in DOMAIN asked, Attempted(d)' PROVE Passed(d)'
      <4>1. Revision(c) \in Nat /\ Revision(d) \in Nat BY <1>1, <1>2, AskedRead DEF TypeInv
      <4>2. CASE d = c
        <5>1. claim'[Operation(d)].command = c BY <1>3, <1>8, <1>10, <4>2
        <5>2. QED BY <1>2, <1>4, <4>1, <4>2, <5>1, SameAsked DEF Passed
      <4>3. CASE d # c
        <5>1. Attempted(d) BY <1>4, <1>10, <3>1, <4>3, SameAnswers DEF Attempted
        <5>2. PICK h \in DOMAIN asked :
                claim[Operation(d)].command = h /\ Revision(h) >= Revision(d)
          BY <1>1, <5>1 DEF StoreInv, TakenInv, Passed
        <5>3. Revision(h) \in Nat BY <1>1, AskedRead DEF TypeInv
        <5>4. CASE Operation(d) = o
          <6>1. Revision(c) >= Revision(d) BY <1>5, <4>1, <5>2, <5>3, <5>4
          <6>2. QED BY <1>2, <1>4, <1>8, <1>10, <5>4, <6>1, SameAsked DEF Passed
        <5>5. CASE Operation(d) # o
          <6>1. claim'[Operation(d)] = claim[Operation(d)] BY <1>1, <1>10, <5>5, RecordsRead
          <6>2. QED BY <1>4, <5>2, <6>1, SameAsked DEF Passed
        <5>6. QED BY <5>4, <5>5
      <4>4. QED BY <4>2, <4>3
    <3>2. QED BY <1>4, <3>1 DEF TakenInv
  <2>4. ReceiptMatchesClaim'
    <3>1. ASSUME NEW d \in DOMAIN asked, NEW h, h = claim'[Operation(d)],
                 receipt'[d] \in Open \/ (receipt'[d] # "none" /\ h.command = d)
          PROVE  h = [command |-> d, status |-> receipt'[d]]
      <4>1. CASE d = c BY <1>3, <1>10, <3>1, <4>1
      <4>2. CASE d # c
        <5>1. CASE Operation(d) = o
          <6>1. receipt[d] \in Open BY <1>8, <1>10, <3>1, <4>2, <5>1
          <6>2. claim[o] = [command |-> d, status |-> receipt[d]]
            BY <1>1, <5>1, <6>1 DEF StoreInv, ReceiptMatchesClaim
          <6>3. QED BY <1>5, <6>1, <6>2 DEF Open
        <5>2. CASE Operation(d) # o
          <6>1. claim'[Operation(d)] = claim[Operation(d)] BY <1>1, <1>10, <5>2, RecordsRead
          <6>2. QED BY <1>1, <1>10, <3>1, <4>2, <6>1 DEF StoreInv, ReceiptMatchesClaim
        <5>3. QED BY <5>1, <5>2
      <4>3. QED BY <4>1, <4>2
    <3>2. QED BY <1>4, <3>1, SameAsked DEF ReceiptMatchesClaim
  <2>5. QED BY <2>1, <2>2, <2>3, <2>4 DEF StoreInv
<1>13. KeyInv' BY <1>1, <1>4, <1>5, <1>9, <1>10 DEF KeyInv, ProviderOnce
<1>14. AnswersInv'
  <2>1. ASSUME NEW d \in DOMAIN asked, Kind(d) # "customer-portal", NEW y \in Told(d)
        PROVE  /\ receipt'[d] # "none" => receipt'[d] = y
               /\ claim'[Operation(d)].command = d => claim'[Operation(d)].status = y
               /\ \A z \in Told(d) : y = z
    <3>1. d # c BY <1>5
    <3>2. claim'[Operation(d)].command = d => claim'[Operation(d)] = claim[Operation(d)]
      BY <1>1, <1>8, <1>10, <3>1, RecordsRead
    <3>3. QED BY <1>1, <1>10, <2>1, <3>1, <3>2 DEF AnswersInv
  <2>2. QED BY <1>4, <2>1, SameAsked, SameAnswers DEF AnswersInv
<1>15. CatalogueInv'
  <2>1. LedgerInv'
    <3>1. ASSUME NEW p \in Catalogued
          PROVE  /\ claim'[p].status = "none" => mapping[p[1]][p[2]] = 0
                 /\ \A h \in DOMAIN asked : claim'[p].command = h =>
                      IF claim'[p].status = "accepted" THEN mapping[p[1]][p[2]] = Revision(h)
                      ELSE mapping[p[1]][p[2]] < Revision(h)
      <4>1. p \in Operations BY DEF Catalogued
      <4>2. CASE p # o BY <1>1, <1>10, <4>1, <4>2 DEF CatalogueInv, LedgerInv
      <4>3. CASE p = o
        <5>1. mapping[p[1]][p[2]] < Revision(c)
          <6>1. Revision(c) \in Nat \ {0} BY <1>1, <1>2, AskedRead DEF TypeInv
          <6>2. CASE claim[o].command = NoCommand
            <7>1. claim[o].status = "none" BY <1>1, <1>6, <6>2 DEF StoreInv, ClaimInv
            <7>2. QED BY <1>1, <4>3, <6>1, <7>1 DEF CatalogueInv, LedgerInv
          <6>3. CASE claim[o].command # NoCommand
            <7>1. claim[o].command \in DOMAIN asked BY <1>1, <1>2, <1>3, <6>3, RecordsRead
            <7>2. QED BY <1>1, <1>5, <4>3, <7>1 DEF CatalogueInv, LedgerInv
          <6>4. QED BY <6>2, <6>3
        <5>2. QED BY <1>8, <1>10, <4>3, <5>1
      <4>4. QED BY <4>2, <4>3
    <3>2. QED BY <1>4, <3>1, SameAsked DEF LedgerInv
  <2>2. ASSUME NEW d \in DOMAIN asked, Accepted(d)' PROVE Accepted(d)
    <3>1. PICK s : s = claim'[Operation(d)] OBVIOUS
    <3>2. \/ "accepted" \in answers[d] \/ receipt'[d] = "accepted"
          \/ s = [command |-> d, status |-> "accepted"]
      BY <1>4, <2>2, <3>1, SameAsked DEF Accepted
    <3>3. CASE d = c
      <4>1. s.status = "pending" BY <1>3, <1>8, <1>10, <3>1, <3>3
      <4>2. "accepted" \notin answers[c] BY <1>5 DEF Told, Settled
      <4>3. QED BY <1>5, <1>10, <3>2, <3>3, <4>1, <4>2
    <3>4. CASE d # c
      <4>1. s = [command |-> d, status |-> "accepted"] => s.command = d OBVIOUS
      <4>2. s.command = d => s = claim[Operation(d)]
        BY <1>1, <1>8, <1>10, <3>1, <3>4, RecordsRead
      <4>3. CASE s = [command |-> d, status |-> "accepted"] BY <4>1, <4>2, <4>3 DEF Accepted
      <4>4. CASE "accepted" \in answers[d] \/ receipt'[d] = "accepted"
        BY <1>10, <3>4, <4>4 DEF Accepted
      <4>5. QED BY <3>2, <4>3, <4>4
    <3>5. QED BY <3>3, <3>4
  <2>3. ASSUME NEW v \in Workers, NEW d \in DOMAIN asked, NEW pc \in Pcs, NEW next \in Nexts,
               run'[v].command = d, run'[v].pc = pc, run'[v].next = next
        PROVE  /\ PlanFits(d, pc, next)
               /\ pc \in {"call", "record"} => (StillOpen(d)' => StillOpen(d))
    <3>1. CASE v = w BY <1>9, <1>10, <2>3, <3>1 DEF PlanFits
    <3>2. CASE v # w
      <4>1. PlanFits(d, pc, next)
        BY <1>1, <1>10, <2>3, <3>2 DEF CatalogueInv, PlanInv
      <4>2. ASSUME pc \in {"call", "record"}, StillOpen(d)' PROVE StillOpen(d)
        <5>1. d # c BY <1>5, <1>10, <2>3, <3>2, <4>2
        <5>2. PICK s : s = claim'[Operation(d)] OBVIOUS
        <5>3. receipt'[d] \in Open /\ s.command = d /\ s.status \in Open
          BY <1>4, <4>2, <5>2, SameAsked DEF StillOpen
        <5>4. s = claim[Operation(d)] BY <1>1, <1>8, <1>10, <5>1, <5>2, <5>3, RecordsRead
        <5>5. QED BY <1>10, <5>1, <5>3, <5>4 DEF StillOpen
      <4>3. QED BY <4>1, <4>2
    <3>3. QED BY <3>1, <3>2
  <2>4. QED BY <1>1, <1>4, <2>1, <2>2, <2>3, CatalogueKept
<1>16. QED BY <1>11, <1>12, <1>13, <1>14, <1>15 DEF CommandsInv

LEMMA LedgerKept ==
  ASSUME LedgerInv, UNCHANGED <<asked, claim, mapping>> PROVE LedgerInv'
BY SameAsked DEF LedgerInv

\* A known command: what its records say of it is one thing.
LEMMA KnownStatus ==
  ASSUME TypeInv, StoreInv, NEW c \in DOMAIN asked, Known(c), NEW t, t = Status(c)
  PROVE  /\ t \in Open \cup Settled
         /\ claim[Operation(c)].command = c => claim[Operation(c)].status = t
         /\ receipt[c] # "none" => t = receipt[c]
         /\ receipt[c] = "none" => claim[Operation(c)].command = c
         /\ t = "accepted" => Accepted(c)
<1>1. PICK h : h = claim[Operation(c)] OBVIOUS
<1>2. /\ h \in ClaimRecords /\ receipt[c] \in Open \cup Settled \cup {"none"}
      /\ c # NoCommand /\ Operation(c) \in Operations
  BY <1>1, RecordsRead
<1>3. CASE receipt[c] # "none"
  <2>1. t = receipt[c] BY <1>3 DEF Status
  <2>2. h.command = c => h = [command |-> c, status |-> t]
    BY <1>1, <1>3, <2>1 DEF StoreInv, ReceiptMatchesClaim
  <2>3. t = "accepted" => Accepted(c) BY <2>1 DEF Accepted
  <2>4. h.command = c => h.status = t BY <2>2
  <2>5. QED BY <1>1, <1>2, <1>3, <2>1, <2>3, <2>4
<1>4. CASE receipt[c] = "none"
  <2>1. h.command = c /\ t = h.status BY <1>1, <1>4 DEF Known, Status
  <2>2. h.status # "none" BY <1>1, <1>2, <2>1 DEF StoreInv, ClaimInv
  <2>3. h = [command |-> c, status |-> t] BY <1>2, <2>1 DEF ClaimRecords
  <2>4. t = "accepted" => Accepted(c) BY <1>1, <2>3 DEF Accepted
  <2>5. QED BY <1>1, <1>2, <1>4, <2>1, <2>2, <2>4 DEF ClaimRecords
<1>5. QED BY <1>3, <1>4

LEMMA ReplayStep ==
  ASSUME CommandsInv, NEW c \in sent, Replay(c)
  PROVE  CommandsInv'
<1>1. TypeInv /\ StoreInv /\ KeyInv /\ AnswersInv /\ CatalogueInv BY DEF CommandsInv
<1>2. c \in DOMAIN asked BY <1>1 DEF TypeInv, AskedInv
<1>3. PICK t : t = Status(c) OBVIOUS
<1>4. /\ UNCHANGED <<asked, sent, claim, late, run, mapping, code, source, effect>>
      /\ receipt' = [receipt EXCEPT ![c] = t] /\ Known(c) /\ t \in Settled
  BY <1>3 DEF Replay
<1>5. PICK a \in Settled : /\ answers' = [answers EXCEPT ![c] = @ \cup {a}]
                           /\ Kind(c) # "customer-portal" => a = t
                           /\ a = "accepted" => t = "accepted"
  BY <1>3, <1>4 DEF Replay, Give, Settled
<1>6. /\ claim[Operation(c)].command = c => claim[Operation(c)].status = t
      /\ receipt[c] # "none" => t = receipt[c]
      /\ receipt[c] = "none" => claim[Operation(c)].command = c
      /\ t = "accepted" => Accepted(c)
  BY <1>1, <1>2, <1>3, <1>4, KnownStatus
<1>7. t # "none" /\ t \notin Open BY <1>4 DEF Settled, Open
<1>8. DOMAIN receipt = DOMAIN asked /\ DOMAIN answers = DOMAIN asked
  BY <1>1 DEF TypeInv, RecordTypes
<1>9. /\ receipt'[c] = t /\ answers'[c] = answers[c] \cup {a}
      /\ \A d \in DOMAIN asked \ {c} : receipt'[d] = receipt[d] /\ answers'[d] = answers[d]
  BY <1>2, <1>4, <1>5, <1>8
<1>10. TypeInv'
  <2>1. /\ receipt' \in [DOMAIN asked -> Open \cup Settled \cup {"none"}]
        /\ answers' \in [DOMAIN asked -> SUBSET Answers]
    BY <1>1, <1>4, <1>5 DEF TypeInv, RecordTypes, Answers
  <2>2. AskedInv' BY <1>1, <1>4, AskedKept DEF TypeInv
  <2>3. QED BY <1>1, <1>4, <2>1, <2>2, SameAsked DEF TypeInv, RecordTypes
<1>11. StoreInv'
  <2>1. RunInv' BY <1>1, <1>4, <1>7, <1>9 DEF StoreInv, RunInv
  <2>2. \A d \in DOMAIN asked : Attempted(d)' => Attempted(d) \/ Known(d)
    BY <1>4, <1>9 DEF Attempted, Told
  <2>3. \A d \in DOMAIN asked : \/ receipt'[d] = receipt[d] \/ receipt'[d] = "none"
                                \/ Known(d) /\ receipt'[d] = Status(d)
    BY <1>3, <1>4, <1>9
  <2>4. QED BY <1>1, <1>4, <2>1, <2>2, <2>3, ClaimsKept
<1>12. KeyInv' BY <1>1, <1>4 DEF KeyInv, ProviderOnce
<1>13. AnswersInv'
  <2>1. ASSUME NEW d \in DOMAIN asked, Kind(d) # "customer-portal", NEW y \in Told(d)'
        PROVE  /\ receipt'[d] # "none" => receipt'[d] = y
               /\ claim[Operation(d)].command = d => claim[Operation(d)].status = y
               /\ \A z \in Told(d)' : y = z
    <3>1. CASE d # c BY <1>1, <1>9, <2>1, <3>1 DEF AnswersInv, Told
    <3>2. CASE d = c
      <4>1. \A z \in Told(c) : z = t
        BY <1>1, <1>2, <1>6, <2>1, <3>2 DEF AnswersInv
      <4>2. \A z \in Told(c)' : z = t BY <1>5, <1>9, <2>1, <3>2, <4>1 DEF Told
      <4>3. QED BY <1>6, <1>9, <2>1, <3>2, <4>2
    <3>3. QED BY <3>1, <3>2
  <2>2. QED BY <1>4, <2>1, SameAsked, SameAnswers DEF AnswersInv
<1>14. CatalogueInv'
  <2>1. LedgerInv' BY <1>1, <1>4, LedgerKept DEF CatalogueInv
  <2>2. ASSUME NEW d \in DOMAIN asked, Accepted(d)' PROVE Accepted(d)
    <3>1. \/ "accepted" \in answers'[d] \/ receipt'[d] = "accepted"
          \/ claim[Operation(d)] = [command |-> d, status |-> "accepted"]
      BY <1>4, <2>2, SameAsked DEF Accepted
    <3>2. CASE d # c BY <1>9, <3>1, <3>2 DEF Accepted
    <3>3. CASE d = c BY <1>5, <1>6, <1>9, <3>1, <3>3 DEF Accepted
    <3>4. QED BY <3>2, <3>3
  <2>3. ASSUME NEW d \in DOMAIN asked, StillOpen(d)' PROVE StillOpen(d)
    BY <1>4, <1>7, <1>9, <2>3, SameAsked DEF StillOpen
  <2>4. ASSUME NEW v \in Workers, NEW d \in DOMAIN asked, NEW pc \in Pcs, NEW next \in Nexts,
               run'[v].command = d, run'[v].pc = pc, run'[v].next = next
        PROVE  /\ PlanFits(d, pc, next)
               /\ pc \in {"call", "record"} => (StillOpen(d)' => StillOpen(d))
    BY <1>1, <1>4, <2>3, <2>4 DEF CatalogueInv, PlanInv
  <2>5. QED BY <1>1, <1>4, <2>1, <2>2, <2>4, CatalogueKept
<1>15. QED BY <1>10, <1>11, <1>12, <1>13, <1>14 DEF CommandsInv

LEMMA ResumeStep ==
  ASSUME CommandsInv, NEW w \in Workers, NEW c \in sent, Resume(w, c)
  PROVE  CommandsInv'
<1>1. TypeInv /\ StoreInv /\ KeyInv /\ AnswersInv /\ CatalogueInv BY DEF CommandsInv
<1>2. c \in DOMAIN asked BY <1>1 DEF TypeInv, AskedInv
<1>3. PICK t : t = Status(c) OBVIOUS
<1>4. /\ UNCHANGED <<asked, sent, claim, late, mapping, code, source, effect, answers>>
      /\ receipt' = [receipt EXCEPT ![c] = t] /\ Known(c) /\ t \in Open
  BY <1>3 DEF Resume
<1>5. PICK b : /\ run' = [run EXCEPT ![w] = b] /\ b.command = c /\ b \in RunRecords
               /\ b.pc \in {"review", "perform"}
               /\ b.pc = "perform" => c \notin late
  <2>1. PICK x \in {"review", "perform"} : Begin(w, c, x) /\ (x = "perform" => c \notin late)
    BY DEF Resume, Resumable
  <2>2. PICK b : b = [pc |-> x, command |-> c, next |-> Nothing] OBVIOUS
  <2>3. b \in RunRecords /\ b.command = c /\ b.pc = x
    BY <1>2, <2>2, NothingIs DEF RunRecords, Pcs
  <2>4. run' = [run EXCEPT ![w] = b] BY <2>1, <2>2 DEF Begin
  <2>5. QED BY <2>1, <2>3, <2>4
<1>6. /\ claim[Operation(c)].command = c => claim[Operation(c)].status = t
      /\ receipt[c] # "none" => t = receipt[c]
      /\ receipt[c] = "none" => claim[Operation(c)].command = c
  BY <1>1, <1>2, <1>3, <1>4, KnownStatus
<1>7. t # "none" /\ t # "accepted" BY <1>4 DEF Settled, Open
<1>8. DOMAIN receipt = DOMAIN asked /\ DOMAIN run = Workers
  BY <1>1 DEF TypeInv, RecordTypes
<1>9. /\ receipt'[c] = t /\ run'[w] = b
      /\ \A d \in DOMAIN asked \ {c} : receipt'[d] = receipt[d]
      /\ \A v \in Workers \ {w} : run'[v] = run[v]
  BY <1>2, <1>4, <1>5, <1>8
<1>10. TypeInv'
  <2>1. /\ receipt' \in [DOMAIN asked -> Open \cup Settled \cup {"none"}]
        /\ run' \in [Workers -> RunRecords]
    BY <1>1, <1>4, <1>5 DEF TypeInv, RecordTypes
  <2>2. AskedInv' BY <1>1, <1>4, AskedKept DEF TypeInv
  <2>3. QED BY <1>1, <1>4, <2>1, <2>2, SameAsked DEF TypeInv, RecordTypes
<1>11. StoreInv'
  <2>1. RunInv'
    <3>1. ASSUME NEW v \in Workers, run'[v].pc # "idle"
          PROVE  run'[v].command \in DOMAIN asked /\ receipt'[run'[v].command] # "none"
      <4>1. CASE v = w BY <1>2, <1>5, <1>7, <1>9, <4>1
      <4>2. CASE v # w
        <5>1. PICK d : d = run[v].command OBVIOUS
        <5>2. d \in DOMAIN asked /\ receipt[d] # "none"
          BY <1>1, <1>9, <3>1, <4>2, <5>1 DEF StoreInv, RunInv
        <5>3. QED BY <1>7, <1>9, <4>2, <5>1, <5>2
      <4>3. QED BY <4>1, <4>2
    <3>2. QED BY <1>4, <3>1 DEF RunInv
  <2>2. \A d \in DOMAIN asked : Attempted(d)' => Attempted(d) \/ Known(d)
    BY <1>4, <1>9, SameAnswers DEF Attempted
  <2>3. \A d \in DOMAIN asked : \/ receipt'[d] = receipt[d] \/ receipt'[d] = "none"
                                \/ Known(d) /\ receipt'[d] = Status(d)
    BY <1>3, <1>4, <1>9
  <2>4. QED BY <1>1, <1>4, <2>1, <2>2, <2>3, ClaimsKept
<1>12. KeyInv' BY <1>1, <1>2, <1>4, <1>5, <1>9 DEF KeyInv, ProviderOnce
<1>13. AnswersInv'
  <2>1. ASSUME NEW d \in DOMAIN asked, Kind(d) # "customer-portal", NEW y \in Told(d)
        PROVE  /\ receipt'[d] # "none" => receipt'[d] = y
               /\ claim[Operation(d)].command = d => claim[Operation(d)].status = y
               /\ \A z \in Told(d) : y = z
    <3>1. CASE d # c BY <1>1, <1>9, <2>1, <3>1 DEF AnswersInv
    <3>2. CASE d = c BY <1>1, <1>6, <1>9, <2>1, <3>2 DEF AnswersInv
    <3>3. QED BY <3>1, <3>2
  <2>2. QED BY <1>4, <2>1, SameAsked, SameAnswers DEF AnswersInv
<1>14. CatalogueInv'
  <2>1. LedgerInv' BY <1>1, <1>4, LedgerKept DEF CatalogueInv
  <2>2. ASSUME NEW d \in DOMAIN asked, Accepted(d)' PROVE Accepted(d)
    <3>1. \/ "accepted" \in answers[d] \/ receipt'[d] = "accepted"
          \/ claim[Operation(d)] = [command |-> d, status |-> "accepted"]
      BY <1>4, <2>2, SameAsked DEF Accepted
    <3>2. CASE d # c BY <1>9, <3>1, <3>2 DEF Accepted
    <3>3. CASE d = c BY <1>7, <1>9, <3>1, <3>3 DEF Accepted
    <3>4. QED BY <3>2, <3>3
  <2>3. ASSUME NEW d \in DOMAIN asked, receipt[d] # "none", StillOpen(d)' PROVE StillOpen(d)
    BY <1>4, <1>6, <1>9, <2>3, SameAsked DEF StillOpen
  <2>4. ASSUME NEW v \in Workers, NEW d \in DOMAIN asked, NEW pc \in Pcs, NEW next \in Nexts,
               run'[v].command = d, run'[v].pc = pc, run'[v].next = next
        PROVE  /\ PlanFits(d, pc, next)
               /\ pc \in {"call", "record"} => (StillOpen(d)' => StillOpen(d))
    <3>1. CASE v = w BY <1>5, <1>9, <2>4, <3>1 DEF PlanFits
    <3>2. CASE v # w
      <4>1. PlanFits(d, pc, next) BY <1>1, <1>9, <2>4, <3>2 DEF CatalogueInv, PlanInv
      <4>2. pc \in {"call", "record"} => receipt[d] # "none"
        BY <1>1, <1>9, <2>4, <3>2 DEF StoreInv, RunInv
      <4>3. QED BY <2>3, <4>1, <4>2
    <3>3. QED BY <3>1, <3>2
  <2>5. QED BY <1>1, <1>4, <2>1, <2>2, <2>4, CatalogueKept
<1>15. QED BY <1>10, <1>11, <1>12, <1>13, <1>14 DEF CommandsInv

\* A step of one invocation that writes no record.
LEMMA InvocationMoved ==
  ASSUME CommandsInv, NEW w \in Workers, NEW b \in RunRecords,
         UNCHANGED <<asked, sent, receipt, claim, late, mapping, code, source, answers>>,
         run' = [run EXCEPT ![w] = b], run[w].pc # "idle",
         b.pc = "idle" \/ b.command = run[w].command,
         b.pc \in {"call", "record"} =>
           PlanFits(b.command, b.pc, b.next) \/ PlanFits(b.command, b.pc, b.next)',
         effect' \in [DOMAIN asked -> {"none", "done", "forgotten", "twice"}],
         \A d \in DOMAIN asked : /\ effect[d] # "none" => effect'[d] # "none"
                                 /\ effect'[d] # effect[d] => d = run[w].command,
         KeyInv'
  PROVE  CommandsInv'
<1>1. TypeInv /\ StoreInv /\ KeyInv /\ AnswersInv /\ CatalogueInv BY DEF CommandsInv
<1>2. PICK c : c = run[w].command OBVIOUS
<1>3. c \in DOMAIN asked /\ Attempted(c) /\ receipt[c] # "none"
  BY <1>1, <1>2, RunRead DEF Open, Settled
<1>4. run \in [Workers -> RunRecords] BY <1>1 DEF TypeInv, RecordTypes
<1>5. run'[w] = b /\ \A v \in Workers \ {w} : run'[v] = run[v] BY <1>4
<1>6. TypeInv'
  <2>1. run' \in [Workers -> RunRecords] BY <1>4
  <2>2. AskedInv' BY <1>1, AskedKept DEF TypeInv
  <2>3. QED BY <1>1, <2>1, <2>2, SameAsked DEF TypeInv, RecordTypes
<1>7. StoreInv'
  <2>1. RunInv' BY <1>1, <1>2, <1>3, <1>5 DEF StoreInv, RunInv
  <2>2. \A d \in DOMAIN asked : Attempted(d)' => Attempted(d)
    BY <1>2, <1>3, SameAnswers DEF Attempted
  <2>3. QED BY <1>1, <2>1, <2>2, ClaimsKept
<1>8. AnswersInv' BY <1>1, SameAsked, SameAnswers DEF AnswersInv
<1>9. CatalogueInv'
  <2>1. LedgerInv' BY <1>1, LedgerKept DEF CatalogueInv
  <2>2. \A d \in DOMAIN asked : Accepted(d)' => Accepted(d) BY SameAsked DEF Accepted
  <2>3. \A d \in DOMAIN asked : StillOpen(d)' => StillOpen(d) BY SameAsked DEF StillOpen
  <2>4. ASSUME NEW v \in Workers, NEW d \in DOMAIN asked, NEW pc \in Pcs, NEW next \in Nexts,
               run'[v].command = d, run'[v].pc = pc, run'[v].next = next
        PROVE  PlanFits(d, pc, next) \/ PlanFits(d, pc, next)'
    <3>1. CASE v = w
      <4>1. CASE pc \in {"call", "record"} BY <1>5, <2>4, <3>1, <4>1
      <4>2. CASE pc \notin {"call", "record"} BY <4>2 DEF PlanFits
      <4>3. QED BY <4>1, <4>2
    <3>2. CASE v # w BY <1>1, <1>5, <2>4, <3>2 DEF CatalogueInv, PlanInv
    <3>3. QED BY <3>1, <3>2
  <2>5. QED BY <1>1, <2>1, <2>2, <2>3, <2>4, CatalogueKept
<1>10. QED BY <1>1, <1>6, <1>7, <1>8, <1>9 DEF CommandsInv

\* Step(w, plan) moves an invocation as the plan says.
LEMMA StepMoves ==
  ASSUME NEW w \in Workers, run \in [Workers -> RunRecords], NEW plan, Step(w, plan),
         plan.pc \in Pcs, plan.next \in Nexts
  PROVE  \E b \in RunRecords : /\ run' = [run EXCEPT ![w] = b] /\ b.command = run[w].command
                               /\ b.pc = plan.pc /\ b.next = plan.next
<1>1. PICK r, p, n : r = run[w] /\ p = plan.pc /\ n = plan.next OBVIOUS
<1>2. PICK b : b = [r EXCEPT !.pc = p, !.next = n] OBVIOUS
<1>3. b \in RunRecords /\ b.command = r.command /\ b.pc = p /\ b.next = n
  BY <1>1, <1>2 DEF RunRecords
<1>4. run' = [run EXCEPT ![w] = b] BY <1>1, <1>2 DEF Step
<1>5. QED BY <1>1, <1>3, <1>4

LEMMA PerformStep ==
  ASSUME CommandsInv, NEW w \in Workers, Perform(w)
  PROVE  CommandsInv'
<1>1. TypeInv /\ StoreInv /\ KeyInv /\ AnswersInv /\ CatalogueInv BY DEF CommandsInv
<1>2. run[w].pc = "perform" BY DEF Perform
<1>3. PICK c : c = run[w].command OBVIOUS
<1>4. c \in DOMAIN asked BY <1>1, <1>2, <1>3, RunRead
<1>5. PICK plan \in Plans(c) \cup {Unsure} : Step(w, plan) BY <1>3 DEF Perform
<1>6. PlanOK(c, plan) BY <1>1, <1>4, PlansOK DEF CatalogueInv
<1>7. run \in [Workers -> RunRecords] BY <1>1 DEF TypeInv, RecordTypes
<1>8. plan.pc \in Pcs /\ plan.next \in Nexts /\ plan.pc # "perform"
      /\ PlanFits(c, plan.pc, plan.next)
  BY <1>6 DEF PlanOK, Pcs
<1>9. PICK b \in RunRecords : /\ run' = [run EXCEPT ![w] = b] /\ b.command = run[w].command
                              /\ b.pc = plan.pc /\ b.next = plan.next
  BY <1>5, <1>7, <1>8, StepMoves
<1>10. UNCHANGED <<asked, sent, receipt, claim, late, mapping, code, source, effect, answers>>
  BY DEF Perform
<1>11. KeyInv'
  <2>1. effect[c] # "forgotten" BY <1>1, <1>2, <1>3 DEF KeyInv
  <2>2. QED BY <1>1, <1>3, <1>7, <1>9, <1>10, <2>1 DEF KeyInv, ProviderOnce
<1>12. effect' \in [DOMAIN asked -> {"none", "done", "forgotten", "twice"}]
  BY <1>1, <1>10 DEF TypeInv, RecordTypes
<1>13. PlanFits(b.command, b.pc, b.next) BY <1>3, <1>8, <1>9
<1>14. QED BY <1>2, <1>9, <1>10, <1>11, <1>12, <1>13, InvocationMoved

LEMMA CallStripeStep ==
  ASSUME CommandsInv, NEW w \in Workers, CallStripe(w)
  PROVE  CommandsInv'
<1>1. TypeInv /\ StoreInv /\ KeyInv /\ AnswersInv /\ CatalogueInv BY DEF CommandsInv
<1>2. run[w].pc = "call" BY DEF CallStripe
<1>3. PICK c, next : c = run[w].command /\ next = run[w].next OBVIOUS
<1>4. c \in DOMAIN asked /\ next \in Nexts BY <1>1, <1>2, <1>3, RunRead
<1>5. effect \in [DOMAIN asked -> {"none", "done", "forgotten", "twice"}]
      /\ run \in [Workers -> RunRecords]
  BY <1>1 DEF TypeInv, RecordTypes
<1>6. effect[c] \in {"none", "done"}
  <2>1. effect[c] # "forgotten" /\ effect[c] # "twice"
    BY <1>1, <1>2, <1>3, <1>4 DEF KeyInv, ProviderOnce
  <2>2. QED BY <1>4, <1>5, <2>1
<1>7. UNCHANGED <<asked, sent, receipt, claim, late, mapping, code, source, answers>>
      /\ effect' = [effect EXCEPT ![c] = "done"]
  <2>1. effect' = [effect EXCEPT ![c] = IF effect[c] = "none" THEN "done" ELSE
                     IF effect[c] = "forgotten" THEN "twice" ELSE effect[c]]
    BY <1>3 DEF CallStripe
  <2>2. QED BY <1>6, <2>1 DEF CallStripe
<1>8. effect'[c] = "done" /\ \A d \in DOMAIN asked \ {c} : effect'[d] = effect[d]
  BY <1>4, <1>5, <1>7
<1>9. PlanShape(c, next)
  <2>1. PlanFits(c, "call", next)
    BY <1>1, <1>2, <1>3, <1>4 DEF CatalogueInv, PlanInv, Pcs
  <2>2. QED BY <2>1 DEF PlanFits
<1>10. PICK plan \in {Store(next), Unsure, Review} : Step(w, plan)
  BY <1>3 DEF CallStripe
<1>11. plan.pc \in Pcs \ {"perform", "call"} /\ plan.next \in Nexts
       /\ (plan.pc = "record" => plan.next = next)
  BY <1>4, NothingIs DEF Store, Unsure, Review, Plan, Pcs
<1>12. PICK b \in RunRecords : /\ run' = [run EXCEPT ![w] = b] /\ b.command = run[w].command
                               /\ b.pc = plan.pc /\ b.next = plan.next
  BY <1>5, <1>10, <1>11, StepMoves
<1>13. KeyInv'
  <2>1. b.pc \notin {"perform", "call"} BY <1>11, <1>12
  <2>2. QED BY <1>1, <1>5, <1>7, <1>8, <1>12, <2>1 DEF KeyInv, ProviderOnce
<1>14. effect' \in [DOMAIN asked -> {"none", "done", "forgotten", "twice"}] BY <1>5, <1>7
<1>15. b.pc \in {"call", "record"} => PlanFits(b.command, b.pc, b.next)'
  <2>1. SUFFICES ASSUME b.pc = "record" PROVE PlanFits(c, "record", next)'
    BY <1>3, <1>11, <1>12
  <2>2. StillOpen(c)' => StillOpen(c) BY <1>7, SameAsked DEF StillOpen
  <2>3. PICK old : old = mapping[On(c)] OBVIOUS
  <2>4. old = mapping'[On(c)] BY <1>7, <2>3
  <2>5. \A d \in Dimensions : old[d] \in Nat /\ old[d] >= old[d]
    BY <1>1, <1>4, <2>3, MappingRead DEF CatalogueInv, Dimensions
  <2>6. PlanShape(c, next)' BY <1>1, <1>4, <1>7, <1>9, <2>2, <2>3, <2>4, <2>5, ShapeKept
  <2>7. On(c)' = On(c) BY <1>7, SameAsked
  <2>8. ASSUME Dimension(c) # "mutation" PROVE Provided(On(c))'
    <3>1. CASE Dimension(c) = "immutable" BY <1>4, <1>7, <1>8, <2>7, <3>1, SameAsked DEF Provided
    <3>2. CASE Dimension(c) # "immutable"
      <4>1. Kind(c) \notin Creators \cup {"customer-portal"}
        BY <1>1, <1>4, <3>2, Dimensioned DEF TypeInv, Creators
      <4>2. old.status # "none"
        BY <1>9, <2>3, <2>8, <4>1 DEF PlanShape, WriteShape
      <4>3. PICK r : r = On(c) OBVIOUS
      <4>4. Provided(r) BY <1>1, <1>4, <2>3, <4>2, <4>3, MappingRead DEF CatalogueInv
      <4>5. Provided(r)' BY <1>7, <1>8, <4>4, ProvidedStays
      <4>6. QED BY <2>7, <4>3, <4>5 DEF Provided
    <3>3. QED BY <3>1, <3>2
  <2>9. Dimension(c)' = Dimension(c) BY <1>7, SameAsked
  <2>10. QED BY <2>6, <2>8, <2>9 DEF PlanFits
<1>16. \A d \in DOMAIN asked : /\ effect[d] # "none" => effect'[d] # "none"
                               /\ effect'[d] # effect[d] => d = run[w].command
  BY <1>3, <1>8
<1>17. QED BY <1>2, <1>7, <1>12, <1>13, <1>14, <1>15, <1>16, InvocationMoved

LEMMA CrashStep ==
  ASSUME CommandsInv, NEW w \in Workers, Crash(w)
  PROVE  CommandsInv'
<1>1. TypeInv /\ StoreInv /\ KeyInv /\ AnswersInv /\ CatalogueInv BY DEF CommandsInv
<1>2. PICK b : b = Idle OBVIOUS
<1>3. b \in RunRecords /\ b.pc = "idle" BY <1>2, IdleIs
<1>4. /\ UNCHANGED <<asked, sent, receipt, claim, late, mapping, code, source, effect, answers>>
      /\ run' = [run EXCEPT ![w] = b] /\ run[w].pc # "idle"
  BY <1>2 DEF Crash, End
<1>5. run \in [Workers -> RunRecords]
      /\ effect \in [DOMAIN asked -> {"none", "done", "forgotten", "twice"}]
  BY <1>1 DEF TypeInv, RecordTypes
<1>6. KeyInv' BY <1>1, <1>3, <1>4, <1>5 DEF KeyInv, ProviderOnce
<1>7. QED BY <1>3, <1>4, <1>5, <1>6, InvocationMoved

\* Time passes: receipts expire, and Stripe forgets keys.
LEMMA ClockStep ==
  ASSUME CommandsInv, NEW c \in sent, Clock(c)
  PROVE  CommandsInv'
<1>1. TypeInv /\ StoreInv /\ KeyInv /\ AnswersInv /\ CatalogueInv BY DEF CommandsInv
<1>2. c \in DOMAIN asked BY <1>1 DEF TypeInv, AskedInv
<1>3. /\ effect \in [DOMAIN asked -> {"none", "done", "forgotten", "twice"}]
      /\ receipt \in [DOMAIN asked -> Open \cup Settled \cup {"none"}]
      /\ late \subseteq DOMAIN asked
  BY <1>1 DEF TypeInv, RecordTypes
<1>4. /\ UNCHANGED <<asked, sent, claim, run, mapping, code, source, answers>>
      /\ receipt[c] # "none"
  BY DEF Clock, Age, Forget, Expire, Open
<1>5. PICK e, t : /\ effect' = [effect EXCEPT ![c] = e] /\ receipt' = [receipt EXCEPT ![c] = t]
                  /\ \/ e = effect[c]
                     \/ effect[c] = "done" /\ e = "forgotten" /\ ~Performing(c)
                  /\ t = receipt[c] \/ (t = "none" /\ ~Performing(c))
                  /\ late' = late \cup {c} /\ (e = "forgotten" => c \in late')
  <2>1. CASE Age(c) BY <1>2, <1>3, <2>1 DEF Age
  <2>2. CASE Forget(c)
    <3>1. late \cup {c} = late BY <2>2 DEF Forget
    <3>2. QED BY <1>2, <1>3, <2>2, <3>1 DEF Forget
  <2>3. CASE Expire(c) BY <1>2, <1>3, <2>3 DEF Expire
  <2>4. QED BY <2>1, <2>2, <2>3 DEF Clock
<1>6. /\ effect'[c] = e /\ receipt'[c] = t
      /\ \A d \in DOMAIN asked \ {c} : effect'[d] = effect[d] /\ receipt'[d] = receipt[d]
  BY <1>2, <1>3, <1>5
<1>7. \A w \in Workers : run[w].command = c => e = effect[c] /\ t = receipt[c]
  BY <1>5 DEF Performing
<1>8. TypeInv'
  <2>1. /\ effect' \in [DOMAIN asked -> {"none", "done", "forgotten", "twice"}]
        /\ receipt' \in [DOMAIN asked -> Open \cup Settled \cup {"none"}]
        /\ late' \subseteq DOMAIN asked
    BY <1>2, <1>3, <1>5
  <2>2. AskedInv' BY <1>1, <1>4, AskedKept DEF TypeInv
  <2>3. QED BY <1>1, <1>4, <2>1, <2>2, SameAsked DEF TypeInv, RecordTypes
<1>9. StoreInv'
  <2>1. RunInv' BY <1>1, <1>4, <1>6, <1>7 DEF StoreInv, RunInv
  <2>2. \A d \in DOMAIN asked : Attempted(d)' => Attempted(d)
    BY <1>4, <1>5, <1>6, SameAnswers DEF Attempted
  <2>3. \A d \in DOMAIN asked : receipt'[d] = receipt[d] \/ receipt'[d] = "none"
    BY <1>5, <1>6
  <2>4. QED BY <1>1, <1>4, <2>1, <2>2, <2>3, ClaimsKept
<1>10. KeyInv'
  <2>1. \A d \in DOMAIN asked : effect'[d] # "twice" BY <1>1, <1>2, <1>5, <1>6 DEF KeyInv, ProviderOnce
  <2>2. \A d \in DOMAIN asked : effect'[d] = "forgotten" => d \in late'
    BY <1>1, <1>5, <1>6 DEF KeyInv
  <2>3. ASSUME NEW w \in Workers, run[w].pc \in {"perform", "call"}
        PROVE  effect'[run[w].command] # "forgotten"
    <3>1. run[w].command \in DOMAIN asked /\ effect[run[w].command] # "forgotten"
      BY <1>1, <2>3 DEF KeyInv, StoreInv, RunInv
    <3>2. QED BY <1>6, <1>7, <3>1
  <2>4. QED BY <1>4, <2>1, <2>2, <2>3 DEF KeyInv, ProviderOnce
<1>11. AnswersInv'
  <2>1. ASSUME NEW d \in DOMAIN asked, Kind(d) # "customer-portal", NEW y \in Told(d)
        PROVE  /\ receipt'[d] # "none" => receipt'[d] = y
               /\ claim[Operation(d)].command = d => claim[Operation(d)].status = y
               /\ \A z \in Told(d) : y = z
    BY <1>1, <1>5, <1>6, <2>1 DEF AnswersInv
  <2>2. QED BY <1>4, <2>1, SameAsked, SameAnswers DEF AnswersInv
<1>12. CatalogueInv'
  <2>1. LedgerInv' BY <1>1, <1>4, LedgerKept DEF CatalogueInv
  <2>2. \A d \in DOMAIN asked : receipt'[d] # "none" => receipt'[d] = receipt[d]
    BY <1>5, <1>6
  <2>3. ASSUME NEW d \in DOMAIN asked
        PROVE  /\ effect[d] # "none" => effect'[d] # "none"
               /\ Accepted(d)' => Accepted(d)
               /\ StillOpen(d)' => StillOpen(d)
    <3>1. effect[d] # "none" => effect'[d] # "none" BY <1>5, <1>6
    <3>2. Accepted(d)' => Accepted(d) BY <1>4, <2>2, SameAsked DEF Accepted
    <3>3. StillOpen(d)' => StillOpen(d) BY <1>4, <2>2, SameAsked DEF StillOpen, Open
    <3>4. QED BY <3>1, <3>2, <3>3
  <2>4. \A w \in Workers, d \in DOMAIN asked, pc \in Pcs, next \in Nexts :
          run'[w].command = d /\ run'[w].pc = pc /\ run'[w].next = next => PlanFits(d, pc, next)
    BY <1>1, <1>4 DEF CatalogueInv, PlanInv
  <2>5. QED BY <1>1, <1>4, <2>1, <2>3, <2>4, CatalogueKept
<1>13. QED BY <1>8, <1>9, <1>10, <1>11, <1>12 DEF CommandsInv

LEMMA ProjectStep ==
  ASSUME CommandsInv, NEW a \in Checkouts, Project(a)
  PROVE  CommandsInv'
<1>1. TypeInv /\ StoreInv /\ KeyInv /\ AnswersInv /\ CatalogueInv BY DEF CommandsInv
<1>2. /\ UNCHANGED <<asked, sent, receipt, claim, late, run, mapping, code, effect, answers>>
      /\ source' = [source EXCEPT ![a] = @ + 1] /\ source[a] < MaxSource
  BY DEF Project
<1>3. TypeInv'
  <2>1. source \in [Checkouts -> 0..MaxSource] /\ MaxSource \in Nat
    BY <1>1, CommandAssumption DEF TypeInv, RecordTypes, CommandAssumption
  <2>2. source' \in [Checkouts -> 0..MaxSource] BY <1>2, <2>1
  <2>3. AskedInv' BY <1>1, <1>2, AskedKept DEF TypeInv
  <2>4. QED BY <1>1, <1>2, <2>2, <2>3, SameAsked DEF TypeInv, RecordTypes
<1>4. StoreInv'
  <2>1. RunInv' BY <1>1, <1>2 DEF StoreInv, RunInv
  <2>2. \A d \in DOMAIN asked : Attempted(d)' => Attempted(d)
    BY <1>2, SameAnswers DEF Attempted
  <2>3. QED BY <1>1, <1>2, <2>1, <2>2, ClaimsKept
<1>5. KeyInv' BY <1>1, <1>2 DEF KeyInv, ProviderOnce
<1>6. AnswersInv' BY <1>1, <1>2, SameAsked, SameAnswers DEF AnswersInv
<1>7. CatalogueInv'
  <2>1. LedgerInv' BY <1>1, <1>2, LedgerKept DEF CatalogueInv
  <2>2. \A d \in DOMAIN asked : /\ effect[d] # "none" => effect'[d] # "none"
                                /\ Accepted(d)' => Accepted(d)
                                /\ StillOpen(d)' => StillOpen(d)
    BY <1>2, SameAsked DEF Accepted, StillOpen
  <2>3. \A w \in Workers, d \in DOMAIN asked, pc \in Pcs, next \in Nexts :
          run'[w].command = d /\ run'[w].pc = pc /\ run'[w].next = next => PlanFits(d, pc, next)
    BY <1>1, <1>2 DEF CatalogueInv, PlanInv
  <2>4. QED BY <1>1, <1>2, <2>1, <2>2, <2>3, CatalogueKept
<1>8. QED BY <1>3, <1>4, <1>5, <1>6, <1>7 DEF CommandsInv

\* An invocation that ends.
LEMMA Ended ==
  ASSUME TypeInv, StoreInv, KeyInv, NEW w \in Workers, End(w),
         UNCHANGED <<asked, effect, late>>,
         \A d \in DOMAIN asked : receipt[d] # "none" => receipt'[d] # "none"
  PROVE  /\ run' \in [Workers -> RunRecords] /\ RunInv' /\ KeyInv'
         /\ run'[w].pc = "idle" /\ \A v \in Workers \ {w} : run'[v] = run[v]
<1>1. PICK b : b = Idle OBVIOUS
<1>2. b \in RunRecords /\ b.pc = "idle" BY <1>1, IdleIs
<1>3. run' = [run EXCEPT ![w] = b] BY <1>1 DEF End
<1>4. run \in [Workers -> RunRecords] BY DEF TypeInv, RecordTypes
<1>5. run' \in [Workers -> RunRecords] /\ run'[w] = b
      /\ \A v \in Workers \ {w} : run'[v] = run[v]
  BY <1>2, <1>3, <1>4
<1>6. RunInv' BY <1>2, <1>5 DEF StoreInv, RunInv
<1>7. KeyInv' BY <1>2, <1>5 DEF KeyInv, ProviderOnce
<1>8. QED BY <1>2, <1>5, <1>6, <1>7

\* The answer of a command whose records a transition settles, or leaves unknown.
LEMMA AnswersMoved ==
  ASSUME TypeInv, AnswersInv, UNCHANGED asked, NEW c \in DOMAIN asked, StillOpen(c),
         NEW t \in Open \cup Settled, receipt'[c] = t,
         claim'[Operation(c)] = [command |-> c, status |-> t],
         \A d \in DOMAIN asked \ {c} : receipt'[d] = receipt[d],
         \A o \in Operations \ {Operation(c)} : claim'[o] = claim[o],
         answers' = IF t = "unknown" THEN answers ELSE [answers EXCEPT ![c] = @ \cup {t}]
  PROVE  AnswersInv'
<1>1. answers \in [DOMAIN asked -> SUBSET Answers] BY DEF TypeInv, RecordTypes
<1>2. /\ \A d \in DOMAIN asked \ {c} : Told(d)' = Told(d)
      /\ \A y \in Told(c)' : y \in Told(c) \/ (y = t /\ t # "unknown")
  BY <1>1 DEF Told
<1>3. receipt[c] \in Open BY DEF StillOpen
<1>4. Kind(c) # "customer-portal" => Told(c) = {}
  BY <1>3 DEF AnswersInv, Open, Told, Settled
<1>5. ASSUME NEW d \in DOMAIN asked, Kind(d) # "customer-portal", NEW y \in Told(d)'
      PROVE  /\ receipt'[d] # "none" => receipt'[d] = y
             /\ claim'[Operation(d)].command = d => claim'[Operation(d)].status = y
             /\ \A z \in Told(d)' : y = z
  <2>1. CASE d = c BY <1>2, <1>4, <1>5, <2>1
  <2>2. CASE d # c
    <3>1. claim'[Operation(d)].command = d => claim'[Operation(d)] = claim[Operation(d)]
      BY <2>2, RecordsRead
    <3>2. QED BY <1>2, <1>5, <2>2, <3>1 DEF AnswersInv
  <2>3. QED BY <2>1, <2>2
<1>6. QED BY <1>5, SameAsked DEF AnswersInv

\* An answer that says what the receipt does, or that the command conflicts.
LEMMA AnswersRepeated ==
  ASSUME TypeInv, StoreInv, AnswersInv, UNCHANGED <<asked, receipt, claim>>,
         NEW c \in DOMAIN asked,
         NEW a \in {receipt[c], "conflict"}, receipt[c] # "none", a \in Answers,
         answers' = answers \/ answers' = [answers EXCEPT ![c] = @ \cup {a}]
  PROVE  /\ AnswersInv' /\ answers' \in [DOMAIN asked -> SUBSET Answers]
         /\ \A d \in DOMAIN asked : /\ Accepted(d)' => Accepted(d)
                                    /\ StillOpen(d)' => StillOpen(d)
                                    /\ Attempted(d) \/ Told(d)' = Told(d)
<1>1. answers \in [DOMAIN asked -> SUBSET Answers] BY DEF TypeInv, RecordTypes
<1>2. /\ answers' \in [DOMAIN asked -> SUBSET Answers]
      /\ \A d \in DOMAIN asked \ {c} : answers'[d] = answers[d]
      /\ \A y \in answers'[c] : y \in answers[c] \/ y = a
  BY <1>1
<1>3. \A d \in DOMAIN asked : d # c => Told(d)' = Told(d) BY <1>2 DEF Told
<1>4. \A y \in Told(c)' : y \in Told(c) \/ y = receipt[c] BY <1>2 DEF Told, Settled
<1>5. Known(c) BY DEF Known
<1>6. ASSUME NEW d \in DOMAIN asked, Kind(d) # "customer-portal", NEW y \in Told(d)'
      PROVE  /\ receipt[d] # "none" => receipt[d] = y
             /\ claim[Operation(d)].command = d => claim[Operation(d)].status = y
             /\ \A z \in Told(d)' : y = z
  <2>1. CASE d # c BY <1>3, <1>6, <2>1 DEF AnswersInv
  <2>2. CASE d = c
    <3>1. \A z \in Told(c)' : z = receipt[c] BY <1>4, <1>6, <2>2 DEF AnswersInv
    <3>2. claim[Operation(c)].command = c => claim[Operation(c)].status = receipt[c]
      BY <1>5, KnownStatus DEF Status
    <3>3. QED BY <1>6, <2>2, <3>1, <3>2
  <2>3. QED BY <2>1, <2>2
<1>7. AnswersInv' BY <1>6, SameAsked DEF AnswersInv
<1>8. \A d \in DOMAIN asked : Accepted(d)' => Accepted(d)
  BY <1>2, SameAsked DEF Accepted
<1>9. \A d \in DOMAIN asked : StillOpen(d)' => StillOpen(d) BY SameAsked DEF StillOpen
<1>10. \A d \in DOMAIN asked : Attempted(d) \/ Told(d)' = Told(d)
  BY <1>3 DEF Attempted
<1>11. QED BY <1>2, <1>7, <1>8, <1>9, <1>10

\* A transaction that finds the command settled, or fails, ends the invocation.
LEMMA SettledStep ==
  ASSUME CommandsInv, NEW w \in Workers, run[w].pc # "idle", End(w),
         UNCHANGED <<asked, sent, receipt, claim, late, mapping, code, source, effect>>,
         NEW c, c = run[w].command, NEW a \in {receipt[c], "conflict"},
         answers' = answers \/ (a \in Answers /\ answers' = [answers EXCEPT ![c] = @ \cup {a}])
  PROVE  CommandsInv'
<1>1. TypeInv /\ StoreInv /\ KeyInv /\ AnswersInv /\ CatalogueInv BY DEF CommandsInv
<1>2. c \in DOMAIN asked BY <1>1, RunRead
<1>3. /\ run' \in [Workers -> RunRecords] /\ RunInv' /\ KeyInv'
      /\ run'[w].pc = "idle" /\ \A v \in Workers \ {w} : run'[v] = run[v]
  BY <1>1, Ended
<1>4. /\ AnswersInv' /\ answers' \in [DOMAIN asked -> SUBSET Answers]
      /\ \A d \in DOMAIN asked : /\ Accepted(d)' => Accepted(d)
                                 /\ StillOpen(d)' => StillOpen(d)
                                 /\ Attempted(d) \/ Told(d)' = Told(d)
  <2>1. receipt[c] # "none" BY <1>1, <1>2, RunRead DEF Open, Settled
  <2>2. CASE a \in Answers BY <1>1, <1>2, <2>1, <2>2, AnswersRepeated
  <2>3. CASE answers' = answers
    <3>1. "conflict" \in Answers BY DEF Answers
    <3>2. QED BY <1>1, <1>2, <2>1, <2>3, <3>1, AnswersRepeated
  <2>4. QED BY <2>2, <2>3
<1>5. TypeInv'
  <2>1. AskedInv' BY <1>1, AskedKept DEF TypeInv
  <2>2. QED BY <1>1, <1>3, <1>4, <2>1, SameAsked DEF TypeInv, RecordTypes
<1>6. StoreInv'
  <2>1. \A d \in DOMAIN asked : Attempted(d)' => Attempted(d) BY <1>4 DEF Attempted
  <2>2. QED BY <1>1, <1>3, <2>1, ClaimsKept
<1>7. CatalogueInv'
  <2>1. LedgerInv' BY <1>1, LedgerKept DEF CatalogueInv
  <2>2. ASSUME NEW v \in Workers, NEW d \in DOMAIN asked, NEW pc \in Pcs, NEW next \in Nexts,
               run'[v].command = d, run'[v].pc = pc, run'[v].next = next
        PROVE  PlanFits(d, pc, next)
    <3>1. CASE v = w BY <1>3, <2>2, <3>1 DEF PlanFits
    <3>2. CASE v # w BY <1>1, <1>3, <2>2, <3>2 DEF CatalogueInv, PlanInv
    <3>3. QED BY <3>1, <3>2
  <2>3. QED BY <1>1, <1>4, <2>1, <2>2, CatalogueKept
<1>8. QED BY <1>3, <1>4, <1>5, <1>6, <1>7 DEF CommandsInv

LEMMA TransitionStep ==
  ASSUME CommandsInv, NEW w \in Workers, Transition(w)
  PROVE  CommandsInv'
<1>1. TypeInv /\ StoreInv /\ KeyInv /\ AnswersInv /\ CatalogueInv BY DEF CommandsInv
<1>2. run[w].pc \in {"refuse", "review", "unsure"} BY DEF Transition, Target
<1>3. PICK c, t : c = run[w].command /\ t = Target[run[w].pc] OBVIOUS
<1>4. c \in DOMAIN asked /\ Attempted(c) BY <1>1, <1>2, <1>3, RunRead
<1>5. t \in {"rejected", "needs_review", "unknown"} BY <1>2, <1>3 DEF Target
<1>6. UNCHANGED <<asked, sent, late, mapping, code, source, effect>> /\ End(w)
  BY DEF Transition
<1>7. CASE ~StillOpen(c)
  <2>1. UNCHANGED <<receipt, claim>> BY <1>3, <1>7 DEF Transition
  <2>2. \/ answers' = answers
        \/ receipt[c] = t /\ t # "unknown" /\ answers' = [answers EXCEPT ![c] = @ \cup {t}]
    BY <1>3, <1>7 DEF Transition, Give
  <2>3. PICK a : a = receipt[c] OBVIOUS
  <2>4. answers' = answers \/ (a \in Answers /\ answers' = [answers EXCEPT ![c] = @ \cup {a}])
    BY <1>5, <2>2, <2>3 DEF Answers, Settled
  <2>5. QED BY <1>2, <1>3, <1>6, <2>1, <2>3, <2>4, SettledStep
<1>8. CASE StillOpen(c)
  <2>1. SetStatus(c, t) BY <1>3, <1>8 DEF Transition
  <2>2. answers' = IF t = "unknown" THEN answers ELSE [answers EXCEPT ![c] = @ \cup {t}]
    BY <1>3, <1>8 DEF Transition, Give
  <2>3. t \in Open \cup Settled /\ t # "none" /\ t # "accepted" BY <1>5 DEF Open, Settled
  <2>4. /\ \A d \in DOMAIN asked \ {c} : answers'[d] = answers[d]
        /\ answers' \in [DOMAIN asked -> SUBSET Answers]
        /\ "accepted" \in answers'[c] => "accepted" \in answers[c]
    BY <1>1, <1>5, <2>2 DEF TypeInv, RecordTypes, Answers, Settled
  <2>5. DOMAIN receipt = DOMAIN asked BY <1>1, <1>4, RecordsRead
  <2>6. \A d \in DOMAIN asked : receipt[d] # "none" => receipt'[d] # "none"
    BY <2>1, <2>3, <2>5 DEF SetStatus
  <2>7. /\ run' \in [Workers -> RunRecords] /\ RunInv' /\ KeyInv'
        /\ run'[w].pc = "idle" /\ \A v \in Workers \ {w} : run'[v] = run[v]
    BY <1>1, <1>6, <2>6, Ended
  <2>8. \A d \in DOMAIN asked : Attempted(d)' => Attempted(d) \/ d = c
    BY <1>6, <2>1, <2>4, <2>5 DEF Attempted, Told, SetStatus
  <2>9. /\ StoreInv'
        /\ receipt'[c] = t /\ claim'[Operation(c)] = [command |-> c, status |-> t]
        /\ \A d \in DOMAIN asked \ {c} : receipt'[d] = receipt[d]
        /\ \A o \in Operations \ {Operation(c)} : claim'[o] = claim[o]
        /\ receipt' \in [DOMAIN asked -> Open \cup Settled \cup {"none"}]
        /\ claim' \in [Operations -> ClaimRecords]
    BY <1>1, <1>4, <1>6, <1>8, <2>1, <2>3, <2>7, <2>8, ClaimMoved
  <2>10. TypeInv'
    <3>1. AskedInv' BY <1>1, <1>6, AskedKept DEF TypeInv
    <3>2. QED BY <1>1, <1>6, <2>4, <2>7, <2>9, <3>1, SameAsked DEF TypeInv, RecordTypes
  <2>11. AnswersInv' BY <1>1, <1>4, <1>6, <1>8, <2>2, <2>3, <2>9, AnswersMoved
  <2>12. PICK o, x : o = Operation(c) /\ x = claim'[o] OBVIOUS
  <2>13. /\ x.command = c /\ x.status = t /\ claim[o].command = c /\ claim[o].status \in Open
         /\ receipt[c] \in Open
    BY <1>8, <2>9, <2>12 DEF StillOpen
  <2>14. LedgerInv'
    <3>1. ASSUME NEW p \in Catalogued
          PROVE  /\ claim'[p].status = "none" => mapping[p[1]][p[2]] = 0
                 /\ \A h \in DOMAIN asked : claim'[p].command = h =>
                      IF claim'[p].status = "accepted" THEN mapping[p[1]][p[2]] = Revision(h)
                      ELSE mapping[p[1]][p[2]] < Revision(h)
      <4>1. p \in Operations BY DEF Catalogued
      <4>2. CASE p # o BY <1>1, <2>9, <2>12, <4>1, <4>2 DEF CatalogueInv, LedgerInv
      <4>3. CASE p = o
        <5>1. claim[p].command = c /\ claim[p].status # "accepted"
          BY <2>13, <4>3 DEF Open
        <5>2. mapping[p[1]][p[2]] < Revision(c)
          BY <1>1, <1>4, <5>1 DEF CatalogueInv, LedgerInv
        <5>3. QED BY <2>3, <2>12, <2>13, <4>3, <5>2
      <4>4. QED BY <4>2, <4>3
    <3>2. QED BY <1>6, <3>1, SameAsked DEF LedgerInv
  <2>15. ASSUME NEW d \in DOMAIN asked
         PROVE  (Accepted(d)' => Accepted(d)) /\ (StillOpen(d)' => StillOpen(d))
    <3>1. PICK s : s = claim'[Operation(d)] OBVIOUS
    <3>2. CASE d = c
      <4>1. s.status = t /\ receipt'[d] = t BY <2>9, <2>12, <2>13, <3>1, <3>2
      <4>2. Accepted(d)' => Accepted(d)
        <5>1. SUFFICES ASSUME Accepted(d)' PROVE "accepted" \in answers[d] BY DEF Accepted
        <5>2. \/ "accepted" \in answers'[d] \/ receipt'[d] = "accepted" \/ s.status = "accepted"
          BY <1>6, <3>1, <5>1, SameAsked DEF Accepted
        <5>3. QED BY <2>3, <2>4, <3>2, <4>1, <5>2
      <4>3. QED BY <1>8, <3>2, <4>2
    <3>3. CASE d # c
      <4>1. s.command = d => s = claim[Operation(d)]
        BY <1>1, <2>9, <2>12, <2>13, <3>1, <3>3, RecordsRead
      <4>2. receipt'[d] = receipt[d] /\ answers'[d] = answers[d] BY <2>4, <2>9, <3>3
      <4>3. Accepted(d)' => Accepted(d)
        <5>1. s = [command |-> d, status |-> "accepted"] => s.command = d OBVIOUS
        <5>2. Accepted(d)' => \/ "accepted" \in answers[d] \/ receipt[d] = "accepted"
                              \/ s = [command |-> d, status |-> "accepted"]
          BY <1>6, <3>1, <4>2, SameAsked DEF Accepted
        <5>3. QED BY <4>1, <5>1, <5>2 DEF Accepted
      <4>4. StillOpen(d)' => StillOpen(d)
        <5>1. StillOpen(d)' => receipt[d] \in Open /\ s.command = d /\ s.status \in Open
          BY <1>6, <3>1, <4>2, SameAsked DEF StillOpen
        <5>2. QED BY <4>1, <5>1 DEF StillOpen
      <4>5. QED BY <4>3, <4>4
    <3>4. QED BY <3>2, <3>3
  <2>16. CatalogueInv'
    <3>1. ASSUME NEW v \in Workers, NEW d \in DOMAIN asked, NEW pc \in Pcs, NEW next \in Nexts,
                 run'[v].command = d, run'[v].pc = pc, run'[v].next = next
          PROVE  PlanFits(d, pc, next)
      <4>1. CASE v = w BY <2>7, <3>1, <4>1 DEF PlanFits
      <4>2. CASE v # w BY <1>1, <2>7, <3>1, <4>2 DEF CatalogueInv, PlanInv
      <4>3. QED BY <4>1, <4>2
    <3>2. QED BY <1>1, <1>6, <2>14, <2>15, <3>1, CatalogueKept
  <2>17. QED BY <2>7, <2>9, <2>10, <2>11, <2>16 DEF CommandsInv
<1>9. QED BY <1>7, <1>8

\* A step that writes the catalogue, without lowering a dimension or losing a
\* mapping, keeps what it need not change.
LEMMA CatalogueAdvanced ==
  ASSUME TypeInv, CatalogueInv, UNCHANGED <<asked, effect>>,
         mapping' \in [Resources -> MappingRecords],
         \A r \in Resources, d \in Dimensions : mapping'[r][d] >= mapping[r][d],
         \A r \in Resources : mapping'[r].status = "none" => mapping[r].status = "none",
         \A w \in Workers, c \in DOMAIN asked, pc \in {"call", "record"}, next \in Nexts :
           run'[w].command = c /\ run'[w].pc = pc /\ run'[w].next = next =>
             /\ PlanFits(c, pc, next)
             /\ StillOpen(c)' =>
                  StillOpen(c) /\ (Dimension(c) = "lifecycle" /\ mapping[On(c)].status = "active"
                                   => mapping'[On(c)].status = "active")
  PROVE  /\ PlanInv'
         /\ \A c \in DOMAIN asked : Recorded(c) /\ Dimension(c) # "mutation" => Recorded(c)'
<1>1. \A r \in Resources, d \in Dimensions : mapping[r][d] \in Nat /\ mapping'[r][d] \in Nat
  <2>1. \A r \in Resources : mapping[r] \in MappingRecords /\ mapping'[r] \in MappingRecords
    BY DEF TypeInv, RecordTypes
  <2>2. QED BY <2>1 DEF MappingRecords, Dimensions
<1>2. \A c \in DOMAIN asked : /\ On(c)' = On(c) /\ Dimension(c)' = Dimension(c)
                              /\ Revision(c)' = Revision(c) /\ On(c) \in Resources
                              /\ Revision(c) \in Nat
                              /\ Dimension(c) \in Dimensions \cup {"mutation"}
  BY SameAsked, AskedRead, Dimensioned DEF TypeInv
<1>3. PlanInv'
  <2>1. ASSUME NEW w \in Workers, NEW c \in DOMAIN asked, NEW pc \in Pcs, NEW next \in Nexts,
               run'[w].command = c, run'[w].pc = pc, run'[w].next = next
        PROVE  PlanFits(c, pc, next)'
    <3>1. CASE pc \notin {"call", "record"} BY <3>1 DEF PlanFits
    <3>2. CASE pc \in {"call", "record"}
      <4>1. PICK old, now : old = mapping[On(c)] /\ now = mapping'[On(c)] OBVIOUS
      <4>2. /\ PlanFits(c, pc, next)
            /\ StillOpen(c)' =>
                 StillOpen(c) /\ (Dimension(c) = "lifecycle" /\ old.status = "active"
                                  => now.status = "active")
        BY <2>1, <3>2, <4>1
      <4>3. \A d \in Dimensions : now[d] \in Nat /\ now[d] >= old[d] BY <1>1, <1>2, <4>1
      <4>4. now.status = "none" => old.status = "none" BY <1>2, <4>1
      <4>5. PlanShape(c, next) => PlanShape(c, next)'
        BY <4>1, <4>2, <4>3, <4>4, ShapeKept
      <4>6. QED BY <4>2, <4>5, FitKept
    <3>3. QED BY <3>1, <3>2
  <2>2. QED BY <2>1, SameAsked DEF PlanInv
<1>4. ASSUME NEW c \in DOMAIN asked, Recorded(c), Dimension(c) # "mutation" PROVE Recorded(c)'
  <2>1. PICK r, d, n : r = On(c) /\ d = Dimension(c) /\ n = Revision(c) OBVIOUS
  <2>2. mapping[r][d] >= n /\ Provided(r) BY <1>4, <2>1 DEF Recorded
  <2>3. r \in Resources /\ d \in Dimensions /\ n \in Nat BY <1>2, <1>4, <2>1
  <2>4. mapping'[r][d] >= n BY <1>1, <2>2, <2>3
  <2>5. Provided(r)' BY <2>2, ProvidedStays
  <2>6. QED BY <1>2, <2>1, <2>4, <2>5 DEF Recorded
<1>5. QED BY <1>3, <1>4

LEMMA BindCheckoutStep ==
  ASSUME CommandsInv, NEW a \in Checkouts, BindCheckout(a)
  PROVE  CommandsInv'
<1>1. TypeInv /\ StoreInv /\ KeyInv /\ AnswersInv /\ CatalogueInv BY DEF CommandsInv
<1>2. PICK m, x : m = mapping[a] /\ x = [m EXCEPT !.linked = TRUE] OBVIOUS
<1>3. /\ UNCHANGED <<asked, sent, receipt, claim, late, run, code, source, effect, answers>>
      /\ mapping' = [mapping EXCEPT ![a] = x] /\ m.status # "none"
  BY <1>2 DEF BindCheckout
<1>4. mapping \in [Resources -> MappingRecords] /\ a \in Resources
  BY <1>1 DEF TypeInv, RecordTypes, Resources
<1>5. m \in MappingRecords BY <1>2, <1>4
<1>6. /\ x \in MappingRecords /\ x.status = m.status /\ x.immutable = m.immutable
      /\ x.presentation = m.presentation /\ x.lifecycle = m.lifecycle
  BY <1>2, <1>5 DEF MappingRecords
<1>7. /\ mapping' \in [Resources -> MappingRecords] /\ mapping'[a] = x
      /\ \A r \in Resources \ {a} : mapping'[r] = mapping[r]
  BY <1>3, <1>4, <1>6
<1>8. \A r \in Resources :
        /\ mapping'[r].status = mapping[r].status
        /\ \A d \in Dimensions : mapping'[r][d] = mapping[r][d] /\ mapping[r][d] \in Nat
  <2>1. \A d \in Dimensions : x[d] = m[d] BY <1>6 DEF Dimensions
  <2>2. \A r \in Resources, d \in Dimensions : mapping[r][d] \in Nat
    BY <1>4 DEF MappingRecords, Dimensions
  <2>3. QED BY <1>2, <1>6, <1>7, <2>1, <2>2
<1>9. TypeInv'
  <2>1. AskedInv' BY <1>1, <1>3, AskedKept DEF TypeInv
  <2>2. QED BY <1>1, <1>3, <1>7, <2>1, SameAsked DEF TypeInv, RecordTypes
<1>10. StoreInv'
  <2>1. RunInv' BY <1>1, <1>3 DEF StoreInv, RunInv
  <2>2. \A d \in DOMAIN asked : Attempted(d)' => Attempted(d)
    BY <1>3, SameAnswers DEF Attempted
  <2>3. QED BY <1>1, <1>3, <2>1, <2>2, ClaimsKept
<1>11. KeyInv' BY <1>1, <1>3 DEF KeyInv, ProviderOnce
<1>12. AnswersInv' BY <1>1, <1>3, SameAsked, SameAnswers DEF AnswersInv
<1>13. PlanInv' /\ \A c \in DOMAIN asked : Recorded(c) /\ Dimension(c) # "mutation" => Recorded(c)'
  <2>1. \A w \in Workers, c \in DOMAIN asked, pc \in {"call", "record"}, next \in Nexts :
          run'[w].command = c /\ run'[w].pc = pc /\ run'[w].next = next =>
            /\ PlanFits(c, pc, next)
            /\ StillOpen(c)' =>
                 StillOpen(c) /\ (Dimension(c) = "lifecycle" /\ mapping[On(c)].status = "active"
                                  => mapping'[On(c)].status = "active")
    <3>1. \A c \in DOMAIN asked : StillOpen(c)' => StillOpen(c)
      BY <1>3, SameAsked DEF StillOpen
    <3>2. \A c \in DOMAIN asked : On(c) \in Resources BY <1>1, AskedRead DEF TypeInv
    <3>3. \A w \in Workers, c \in DOMAIN asked, pc \in {"call", "record"}, next \in Nexts :
            run[w].command = c /\ run[w].pc = pc /\ run[w].next = next => PlanFits(c, pc, next)
      BY <1>1 DEF CatalogueInv, PlanInv, Pcs
    <3>4. QED BY <1>3, <1>8, <3>1, <3>2, <3>3
  <2>2. \A r \in Resources, d \in Dimensions : mapping'[r][d] >= mapping[r][d] BY <1>8
  <2>3. \A r \in Resources : mapping'[r].status = "none" => mapping[r].status = "none" BY <1>8
  <2>4. QED BY <1>1, <1>3, <1>7, <2>1, <2>2, <2>3, CatalogueAdvanced
<1>14. CatalogueInv'
  <2>1. MappingInv'
    <3>1. ASSUME NEW r \in Resources
          PROVE  /\ mapping'[r].status = "none" => mapping'[r] = Unmapped
                 /\ mapping'[r].status # "none" =>
                      mapping'[r].immutable > 0 /\ (r # Configuration => Provided(r)')
      <4>1. r # Configuration /\ Provided(r) => Provided(r)' BY <1>3, ProvidedStays
      <4>2. CASE r # a BY <1>1, <1>7, <4>1, <4>2 DEF CatalogueInv, MappingInv
      <4>3. CASE r = a
        <5>1. m.immutable > 0 /\ (r # Configuration => Provided(r))
          BY <1>1, <1>2, <1>3, <1>4, <4>3 DEF CatalogueInv, MappingInv
        <5>2. QED BY <1>3, <1>6, <1>7, <4>1, <4>3, <5>1
      <4>4. QED BY <4>2, <4>3
    <3>2. QED BY <3>1 DEF MappingInv
  <2>2. LedgerInv'
    <3>1. \A o \in Catalogued : mapping'[o[1]][o[2]] = mapping[o[1]][o[2]]
      <4>1. ASSUME NEW o \in Catalogued PROVE o[1] \in Resources /\ o[2] \in Dimensions
        <5>1. PICK c \in DOMAIN asked : o = Operation(c) BY <4>1 DEF Catalogued, Operations
        <5>2. o[1] = On(c) /\ o[2] = Dimension(c) BY <5>1 DEF Operation
        <5>3. o[2] # "mutation" BY DEF Catalogued
        <5>4. QED BY <1>1, <5>2, <5>3, AskedRead, Dimensioned DEF TypeInv
      <4>2. QED BY <1>8, <4>1
    <3>2. QED BY <1>1, <1>3, <3>1, SameAsked DEF CatalogueInv, LedgerInv
  <2>3. RecordedInv'
    <3>1. \A c \in DOMAIN asked : Accepted(c)' => Accepted(c) BY <1>3, SameAsked DEF Accepted
    <3>2. QED BY <1>1, <1>3, <1>13, <3>1, SameAsked DEF CatalogueInv, RecordedInv
  <2>4. CodeExclusive'
    <3>1. Discounts \subseteq Resources BY DEF Resources
    <3>2. QED BY <1>1, <1>3, <1>8, <3>1 DEF CatalogueInv, CodeExclusive, Active
  <2>5. QED BY <1>13, <2>1, <2>2, <2>3, <2>4 DEF CatalogueInv
<1>15. QED BY <1>9, <1>10, <1>11, <1>12, <1>14 DEF CommandsInv

\* An operation of the catalogue is one dimension of one resource.
LEMMA CataloguedIs ==
  ASSUME AskedInv, NEW c \in DOMAIN asked, Dimension(c) # "mutation",
         NEW o \in Catalogued
  PROVE  /\ Operation(c) \in Catalogued /\ Operation(c)[1] = On(c)
         /\ Operation(c)[2] = Dimension(c)
         /\ o \in Operations /\ o[1] \in Resources \ {Configuration} /\ o[2] \in Dimensions
         /\ o[1] = On(c) /\ o[2] = Dimension(c) => o = Operation(c)
<1>1. /\ Operation(c) = <<On(c), Dimension(c), 0>> /\ Operation(c) \in Operations
  BY DEF Operation, Operations
<1>2. Operation(c)[1] = On(c) /\ Operation(c)[2] = Dimension(c) BY <1>1
<1>3. o \in Operations /\ o[2] # "mutation" BY DEF Catalogued
<1>4. PICK d \in DOMAIN asked : o = Operation(d) BY <1>3 DEF Operations
<1>5. o[1] = On(d) /\ o[2] = Dimension(d) BY <1>4 DEF Operation
<1>6. o = <<On(d), Dimension(d), 0>> BY <1>3, <1>4, <1>5 DEF Operation
<1>7. o[1] \in Resources \ {Configuration} /\ o[2] \in Dimensions
  BY <1>3, <1>5, AskedRead, Dimensioned
<1>8. QED BY <1>1, <1>2, <1>3, <1>5, <1>6, <1>7 DEF Catalogued

\* What a completion writes for a catalogued command: one resource, its dimension.
LEMMA CompletionAdvances ==
  ASSUME TypeInv, MappingInv, NEW c \in DOMAIN asked, NEW next \in Nexts, PlanShape(c, next),
         Completable(c, next), NEW M, M = Completed(c, next)
  PROVE  /\ \A r \in Resources, d \in Dimensions : M[r][d] >= mapping[r][d]
         /\ \A r \in Resources : M[r].status = "none" => mapping[r].status = "none"
         /\ \A r \in Resources \ {Configuration}, d \in Dimensions :
              M[r][d] = mapping[r][d] \/ (r = On(c) /\ d = Dimension(c))
<1>1. /\ M \in [Resources -> MappingRecords]
      /\ \A r \in Resources \ {On(c), Configuration} : M[r] = mapping[r]
      /\ M[Configuration] # mapping[Configuration] =>
           mapping[Configuration].status = "none" /\ M[Configuration] = PortalConfiguration
      /\ DOMAIN next = {} => M = mapping
      /\ DOMAIN next # {} =>
           /\ Dimension(c) \in Dimensions
           /\ M[On(c)][Dimension(c)] = Revision(c)
           /\ Revision(c) > mapping[On(c)][Dimension(c)]
           /\ \A x \in Dimensions \ {Dimension(c)} : M[On(c)][x] = mapping[On(c)][x]
           /\ M[On(c)].status # "none"
  BY CompletionWrites
<1>2. \A r \in Resources, d \in Dimensions : mapping[r][d] \in Nat /\ M[r][d] \in Nat
  <2>1. \A r \in Resources : mapping[r] \in MappingRecords /\ M[r] \in MappingRecords
    BY <1>1 DEF TypeInv, RecordTypes
  <2>2. QED BY <2>1 DEF MappingRecords, Dimensions
<1>3. On(c) \in Resources /\ On(c) # Configuration /\ Configuration \in Resources
      /\ Revision(c) \in Nat
  BY AskedRead DEF TypeInv, Resources
<1>4. /\ \A d \in Dimensions : M[On(c)][d] >= mapping[On(c)][d]
      /\ \A d \in Dimensions : M[On(c)][d] = mapping[On(c)][d] \/ d = Dimension(c)
      /\ M[On(c)].status = "none" => mapping[On(c)].status = "none"
  <2>1. CASE DOMAIN next = {} BY <1>1, <1>2, <1>3, <2>1
  <2>2. CASE DOMAIN next # {} BY <1>1, <1>2, <1>3, <2>2
  <2>3. QED BY <2>1, <2>2
<1>5. /\ \A d \in Dimensions : M[Configuration][d] >= mapping[Configuration][d]
      /\ M[Configuration].status = "none" => mapping[Configuration].status = "none"
  <2>1. CASE M[Configuration] = mapping[Configuration] BY <1>2, <1>3, <2>1
  <2>2. CASE M[Configuration] # mapping[Configuration]
    <3>1. mapping[Configuration].status = "none" BY <1>1, <2>2
    <3>2. mapping[Configuration] = Unmapped BY <1>3, <3>1 DEF MappingInv
    <3>3. \A d \in Dimensions : mapping[Configuration][d] = 0
      BY <3>2 DEF Unmapped, Dimensions
    <3>4. QED BY <1>2, <1>3, <3>1, <3>3
  <2>3. QED BY <2>1, <2>2
<1>6. \A r \in Resources \ {On(c), Configuration}, d \in Dimensions :
        M[r][d] = mapping[r][d] /\ M[r].status = mapping[r].status
  BY <1>1
<1>7. \A r \in Resources, d \in Dimensions : M[r][d] >= mapping[r][d]
  <2>1. ASSUME NEW r \in Resources, NEW d \in Dimensions PROVE M[r][d] >= mapping[r][d]
    <3>1. CASE r = On(c) BY <1>4, <3>1
    <3>2. CASE r = Configuration BY <1>5, <3>2
    <3>3. CASE r \notin {On(c), Configuration} BY <1>2, <1>6, <3>3
    <3>4. QED BY <3>1, <3>2, <3>3
  <2>2. QED BY <2>1
<1>8. \A r \in Resources : M[r].status = "none" => mapping[r].status = "none"
  BY <1>1, <1>4, <1>5
<1>9. \A r \in Resources \ {Configuration}, d \in Dimensions :
        M[r][d] = mapping[r][d] \/ (r = On(c) /\ d = Dimension(c))
  BY <1>4, <1>6
<1>10. QED BY <1>7, <1>8, <1>9

\* The codes of the discounts on sale, after a completion.
LEMMA CompletionCodes ==
  ASSUME TypeInv, MappingInv, CodeExclusive, NEW c \in DOMAIN asked, NEW next \in Nexts,
         PlanShape(c, next), Completable(c, next), NEW M, M = Completed(c, next),
         NEW K, K = [k \in Codes |-> IF k = Takes(c, next) THEN On(c)
                                     ELSE IF k \in Releases(c, next) THEN NoCode ELSE code[k]]
  PROVE  /\ K \in [Codes -> Discounts \cup {NoCode}]
         /\ \A d \in Discounts : M[d].status = "active" /\ Code[d] # NoCode => K[Code[d]] = d
<1>1. PICK taken, freed : taken = Takes(c, next) /\ freed = Releases(c, next) OBVIOUS
<1>2. /\ Code \in [Discounts -> Codes \cup {NoCode}] /\ NoCode \notin Codes \cup Discounts
  BY CommandAssumption DEF CommandAssumption
<1>3. code \in [Codes -> Discounts \cup {NoCode}] BY DEF TypeInv, RecordTypes
<1>4. taken # NoCode =>
        /\ On(c) \in Discounts /\ taken = Code[On(c)] /\ code[taken] \in {NoCode, On(c)}
        /\ freed = {}
  BY <1>1 DEF Takes, Completable, Releases
<1>5. \A k \in freed : code[k] = On(c) BY <1>1 DEF Completable
<1>6. K \in [Codes -> Discounts \cup {NoCode}] BY <1>1, <1>2, <1>3, <1>4
<1>7. \A k \in Codes : K[k] = IF k = taken THEN On(c) ELSE IF k \in freed THEN NoCode ELSE code[k]
  BY <1>1
<1>8. ASSUME NEW d \in Discounts, M[d].status = "active", Code[d] # NoCode
      PROVE  K[Code[d]] = d
  <2>1. Code[d] \in Codes /\ d # NoCode /\ d \in Resources BY <1>2, <1>8 DEF Resources
  <2>2. d # Configuration BY ScenarioAssumption DEF ScenarioAssumption
  <2>3. CASE d # On(c) \/ DOMAIN next = {}
    <3>1. M[d] = mapping[d] BY <2>1, <2>2, <2>3, CompletionWrites
    <3>2. code[Code[d]] = d BY <1>8, <3>1 DEF CodeExclusive, Active
    <3>3. Code[d] # taken \/ d = On(c)
      BY <1>2, <1>4, <2>1, <3>2
    <3>4. CASE d = On(c)
      <4>1. DOMAIN next = {} BY <2>3, <3>4
      <4>2. taken = NoCode /\ freed = {} BY <1>1, <4>1 DEF Takes, Releases
      <4>3. QED BY <1>2, <1>7, <2>1, <3>2, <4>2
    <3>5. CASE d # On(c) BY <1>5, <1>7, <2>1, <3>2, <3>3, <3>5
    <3>6. QED BY <3>4, <3>5
  <2>4. CASE d = On(c) /\ DOMAIN next # {}
    <3>1. PICK m, old : m = next[On(c)] /\ old = mapping[On(c)] OBVIOUS
    <3>2. /\ WriteShape(c, next)
          /\ old.status = "none" => M[On(c)] = Created(c)
          /\ old.status # "none" =>
               M[On(c)].status = IF Dimension(c) = "lifecycle" THEN m.status ELSE old.status
      BY <2>4, <3>1, CompletionWrites
    <3>3. /\ DOMAIN next \subseteq {On(c), Configuration}
          /\ old.status = "none" => Kind(c) \in Creators \cup {"customer-portal"}
          /\ Kind(c) = "discount-presentation" => m.status = "active"
          /\ Kind(c) = "discount-lifecycle" => m.status = Content(c)
      BY <3>1, <3>2 DEF WriteShape
    <3>4. Kind(c) \in {"discount", "discount-presentation", "discount-lifecycle"}
      <4>1. Kind(c) \in Kinds /\ On(c) \in Subjects(Kind(c)) BY AskedRead DEF TypeInv
      <4>2. QED BY <2>4, <4>1, SubjectsApart
    <3>5. CASE Kind(c) = "discount" \/ (Kind(c) = "discount-lifecycle" /\ Content(c) = "active")
      <4>1. taken = Code[d] BY <1>1, <2>4, <3>5 DEF Takes
      <4>2. QED BY <1>7, <2>1, <2>4, <4>1
    <3>6. CASE Kind(c) = "discount-lifecycle" /\ Content(c) # "active"
      <4>1. old.status # "none" BY <3>3, <3>6 DEF Creators
      <4>2. Dimension(c) = "lifecycle" BY <3>6, Dimensioned DEF TypeInv
      <4>3. M[On(c)].status = Content(c) BY <3>2, <3>3, <3>6, <4>1, <4>2
      <4>4. QED BY <1>8, <2>4, <3>6, <4>3
    <3>7. CASE Kind(c) = "discount-presentation"
      <4>1. old.status # "none" BY <3>3, <3>7 DEF Creators
      <4>2. Dimension(c) = "presentation" BY <3>7, Dimensioned DEF TypeInv
      <4>3. old.status = "active" BY <1>8, <2>4, <3>2, <4>1, <4>2
      <4>4. code[Code[d]] = d BY <1>8, <2>4, <3>1, <4>3 DEF CodeExclusive, Active
      <4>5. taken = NoCode BY <1>1, <3>7 DEF Takes
      <4>6. freed = {}
        <5>1. \A x \in Discounts \cap DOMAIN next : next[x].status = "active"
          <6>1. Configuration \notin Discounts
            BY ScenarioAssumption DEF ScenarioAssumption
          <6>2. QED BY <3>1, <3>3, <3>7, <6>1
        <5>2. QED BY <1>1, <5>1 DEF Releases
      <4>7. QED BY <1>2, <1>7, <2>1, <4>4, <4>5, <4>6
    <3>8. QED BY <3>4, <3>5, <3>6, <3>7
  <2>5. QED BY <2>3, <2>4
<1>9. QED BY <1>6, <1>8

LEMMA CompletedStep ==
  ASSUME CommandsInv, NEW w \in Workers, run[w].pc = "record",
         NEW c, c = run[w].command, NEW next, next = run[w].next, Completable(c, next),
         SetStatus(c, "accepted"), mapping' = Completed(c, next),
         code' = [k \in Codes |-> IF k = Takes(c, next) THEN On(c)
                                  ELSE IF k \in Releases(c, next) THEN NoCode ELSE code[k]],
         Give(c, "accepted"), End(w), UNCHANGED <<asked, sent, late, source, effect>>
  PROVE  CommandsInv'
<1>1. TypeInv /\ StoreInv /\ KeyInv /\ AnswersInv /\ CatalogueInv BY DEF CommandsInv
<1>2. MappingInv /\ LedgerInv /\ RecordedInv /\ PlanInv /\ CodeExclusive
  BY <1>1 DEF CatalogueInv
<1>3. c \in DOMAIN asked /\ next \in Nexts /\ Attempted(c) BY <1>1, RunRead
<1>4. PlanShape(c, next) /\ (Dimension(c) # "mutation" => Provided(On(c)))
  <2>1. PlanFits(c, "record", next) BY <1>2, <1>3 DEF PlanInv, Pcs
  <2>2. QED BY <2>1 DEF PlanFits
<1>5. PICK o, M : o = Operation(c) /\ M = mapping' OBVIOUS
<1>6. StillOpen(c) BY DEF Completable
<1>7. "accepted" \in Open \cup Settled /\ "accepted" # "none" /\ "accepted" # "unknown"
      /\ "accepted" \notin Open
  BY DEF Open, Settled
<1>8. /\ c # NoCommand /\ o \in Operations /\ DOMAIN receipt = DOMAIN asked
      /\ On(c) \in Resources /\ On(c) # Configuration /\ Revision(c) \in Nat
      /\ Dimension(c) \in Dimensions \cup {"mutation"}
  BY <1>1, <1>3, <1>5, RecordsRead, AskedRead, Dimensioned DEF TypeInv
\* the records
<1>9. answers' = [answers EXCEPT ![c] = @ \cup {"accepted"}] BY DEF Give
<1>10. /\ answers' \in [DOMAIN asked -> SUBSET Answers]
       /\ \A d \in DOMAIN asked \ {c} : answers'[d] = answers[d]
  BY <1>1, <1>3, <1>9 DEF TypeInv, RecordTypes, Answers, Settled
<1>11. \A d \in DOMAIN asked : receipt[d] # "none" => receipt'[d] # "none"
  BY <1>7, <1>8 DEF SetStatus
<1>12. /\ run' \in [Workers -> RunRecords] /\ RunInv' /\ KeyInv'
       /\ run'[w].pc = "idle" /\ \A v \in Workers \ {w} : run'[v] = run[v]
  BY <1>1, <1>11, Ended
<1>13. \A d \in DOMAIN asked : Attempted(d)' => Attempted(d) \/ d = c
  BY <1>8, <1>10 DEF Attempted, Told, SetStatus
<1>14. /\ StoreInv'
       /\ receipt'[c] = "accepted" /\ claim'[o] = [command |-> c, status |-> "accepted"]
       /\ \A d \in DOMAIN asked \ {c} : receipt'[d] = receipt[d]
       /\ \A p \in Operations \ {o} : claim'[p] = claim[p]
       /\ receipt' \in [DOMAIN asked -> Open \cup Settled \cup {"none"}]
       /\ claim' \in [Operations -> ClaimRecords]
  BY <1>1, <1>3, <1>5, <1>6, <1>7, <1>12, <1>13, ClaimMoved
<1>15. AnswersInv' BY <1>1, <1>3, <1>5, <1>6, <1>7, <1>9, <1>14, AnswersMoved
\* the catalogue
<1>16. /\ M \in [Resources -> MappingRecords]
       /\ \A r \in Resources \ {On(c), Configuration} : M[r] = mapping[r]
       /\ M[Configuration] # mapping[Configuration] =>
            mapping[Configuration].status = "none" /\ M[Configuration] = PortalConfiguration
       /\ DOMAIN next = {} => M = mapping
       /\ DOMAIN next # {} =>
            /\ Dimension(c) \in Dimensions
            /\ M[On(c)][Dimension(c)] = Revision(c)
            /\ M[On(c)].status # "none" /\ M[On(c)].immutable > 0
            /\ mapping[On(c)].status # "none" =>
                 M[On(c)].status = IF Dimension(c) = "lifecycle"
                                   THEN next[On(c)].status ELSE mapping[On(c)].status
  <2>1. M = Completed(c, next) BY <1>5
  <2>2. TypeInv /\ MappingInv /\ PlanShape(c, next) /\ Completable(c, next)
    BY <1>1, <1>2, <1>4
  <2>3. QED BY ONLY <1>3, <2>1, <2>2, CompletionWrites
<1>17. /\ \A r \in Resources, d \in Dimensions : M[r][d] >= mapping[r][d]
       /\ \A r \in Resources : M[r].status = "none" => mapping[r].status = "none"
       /\ \A r \in Resources \ {Configuration}, d \in Dimensions :
            M[r][d] = mapping[r][d] \/ (r = On(c) /\ d = Dimension(c))
  BY <1>1, <1>2, <1>3, <1>4, <1>5, CompletionAdvances
<1>18. /\ code' \in [Codes -> Discounts \cup {NoCode}]
       /\ \A d \in Discounts : M[d].status = "active" /\ Code[d] # NoCode => code'[Code[d]] = d
  BY <1>1, <1>2, <1>3, <1>4, <1>5, CompletionCodes
<1>19. TypeInv'
  <2>1. AskedInv' BY <1>1, AskedKept DEF TypeInv
  <2>2. mapping' \in [Resources -> MappingRecords] BY <1>5, <1>16
  <2>3. QED BY <1>1, <1>10, <1>12, <1>14, <1>18, <2>1, <2>2, SameAsked DEF TypeInv, RecordTypes
<1>20. MappingInv'
  <2>1. ASSUME NEW r \in Resources
        PROVE  /\ M[r].status = "none" => M[r] = Unmapped
               /\ M[r].status # "none" => M[r].immutable > 0 /\ (r # Configuration => Provided(r)')
    <3>1. Provided(r) => Provided(r)' BY ProvidedStays
    <3>2. CASE M[r] = mapping[r] BY <1>2, <3>1, <3>2 DEF MappingInv
    <3>3. CASE M[r] # mapping[r] /\ r = Configuration
      <4>1. M[r] = PortalConfiguration BY <1>16, <3>3
      <4>2. M[r].status = "active" /\ M[r].immutable = 1
        BY <1>1, <1>3, <4>1, CreatedRecord DEF TypeInv
      <4>3. QED BY <3>3, <4>2
    <3>4. CASE M[r] # mapping[r] /\ r = On(c)
      <4>1. DOMAIN next # {} BY <1>16, <3>4
      <4>2. Dimension(c) # "mutation" BY <1>4, <4>1 DEF PlanShape
      <4>3. QED BY <1>4, <1>16, <3>1, <3>4, <4>1, <4>2
    <3>5. QED BY <1>16, <3>2, <3>3, <3>4
  <2>2. QED BY <1>5, <2>1 DEF MappingInv
<1>21. LedgerInv'
  <2>1. ASSUME NEW p \in Catalogued
        PROVE  /\ claim'[p].status = "none" => M[p[1]][p[2]] = 0
               /\ \A h \in DOMAIN asked : claim'[p].command = h =>
                    IF claim'[p].status = "accepted" THEN M[p[1]][p[2]] = Revision(h)
                    ELSE M[p[1]][p[2]] < Revision(h)
    <3>1. p \in Operations /\ p[2] # "mutation" BY DEF Catalogued
    <3>2. CASE p = o
      <4>1. p[2] = Dimension(c) /\ p[1] = On(c) BY <1>5, <3>2 DEF Operation
      <4>2. Dimension(c) # "mutation" BY <3>1, <4>1
      <4>3. claim[o].command = c /\ claim[o].status # "accepted"
        BY <1>5, <1>6, <1>7 DEF StillOpen
      <4>4. mapping[p[1]][p[2]] < Revision(c)
        BY <1>2, <1>3, <3>2, <4>3 DEF LedgerInv
      <4>5. M[p[1]][p[2]] = Revision(c)
        <5>1. CASE DOMAIN next # {} BY <1>16, <4>1, <5>1
        <5>2. CASE DOMAIN next = {}
          <6>1. mapping[On(c)][Dimension(c)] >= Revision(c) BY <1>4, <4>2, <5>2 DEF PlanShape
          <6>2. mapping[On(c)][Dimension(c)] \in Nat
            <7>1. mapping[On(c)] \in MappingRecords BY <1>1, <1>8 DEF TypeInv, RecordTypes
            <7>2. QED BY <1>8, <4>2, <7>1 DEF MappingRecords, Dimensions
          <6>3. QED BY <1>8, <4>1, <4>4, <6>1, <6>2
        <5>3. QED BY <5>1, <5>2
      <4>6. QED BY <1>14, <3>2, <4>5
    <3>3. CASE p # o
      <4>1. claim'[p] = claim[p] BY <1>14, <3>1, <3>3
      <4>2. p[1] \in Resources \ {Configuration} /\ p[2] \in Dimensions
        <5>1. PICK d \in DOMAIN asked : p = Operation(d) BY <3>1 DEF Operations
        <5>2. Dimension(d) # "mutation" BY <3>1, <5>1 DEF Operation
        <5>3. QED BY <1>1, <5>2, CataloguedIs DEF TypeInv
      <4>3. ~(p[1] = On(c) /\ p[2] = Dimension(c))
        BY <1>1, <1>3, <1>5, <3>1, <3>3, CataloguedIs DEF TypeInv
      <4>4. M[p[1]][p[2]] = mapping[p[1]][p[2]] BY <1>17, <4>2, <4>3
      <4>5. QED BY <1>2, <4>1, <4>4 DEF LedgerInv
    <3>4. QED BY <3>2, <3>3
  <2>2. QED BY <1>5, <2>1, SameAsked DEF LedgerInv
<1>22. \A d \in DOMAIN asked \ {c} : (Accepted(d)' => Accepted(d)) /\ (StillOpen(d)' => StillOpen(d))
  <2>1. ASSUME NEW d \in DOMAIN asked \ {c}
        PROVE  (Accepted(d)' => Accepted(d)) /\ (StillOpen(d)' => StillOpen(d))
    <3>1. PICK s : s = claim'[Operation(d)] OBVIOUS
    <3>2. s.command = d => s = claim[Operation(d)] BY <1>1, <1>14, <3>1, RecordsRead
    <3>3. receipt'[d] = receipt[d] /\ answers'[d] = answers[d] BY <1>10, <1>14
    <3>4. s = [command |-> d, status |-> "accepted"] => s.command = d OBVIOUS
    <3>5. Accepted(d)' => \/ "accepted" \in answers[d] \/ receipt[d] = "accepted"
                          \/ s = [command |-> d, status |-> "accepted"]
      BY <3>1, <3>3, SameAsked DEF Accepted
    <3>6. StillOpen(d)' => receipt[d] \in Open /\ s.command = d /\ s.status \in Open
      BY <3>1, <3>3, SameAsked DEF StillOpen
    <3>7. Accepted(d)' => Accepted(d) BY <3>2, <3>4, <3>5 DEF Accepted
    <3>8. StillOpen(d)' => StillOpen(d) BY <3>2, <3>6 DEF StillOpen
    <3>9. QED BY <3>7, <3>8
  <2>2. QED BY <2>1
<1>23. PlanInv' /\ \A d \in DOMAIN asked : Recorded(d) /\ Dimension(d) # "mutation" => Recorded(d)'
  <2>1. ASSUME NEW v \in Workers, NEW d \in DOMAIN asked, NEW pc \in {"call", "record"},
               NEW n \in Nexts, run'[v].command = d, run'[v].pc = pc, run'[v].next = n
        PROVE  /\ PlanFits(d, pc, n)
               /\ StillOpen(d)' =>
                    StillOpen(d) /\ (Dimension(d) = "lifecycle" /\ mapping[On(d)].status = "active"
                                     => mapping'[On(d)].status = "active")
    <3>1. v # w BY <1>12, <2>1
    <3>2. PlanFits(d, pc, n) BY <1>2, <1>12, <2>1, <3>1 DEF PlanInv, Pcs
    <3>3. ASSUME StillOpen(d)' PROVE d # c /\ Operation(d) # o
      <4>1. PICK s : s = claim'[Operation(d)] OBVIOUS
      <4>2. s.command = d /\ s.status \in Open BY <3>3, <4>1, SameAsked DEF StillOpen
      <4>3. Operation(d) = o => s.command = c /\ s.status = "accepted" BY <1>14, <4>1
      <4>4. Operation(d) # o BY <1>7, <4>2, <4>3
      <4>5. QED BY <1>5, <4>4
    <3>4. ASSUME StillOpen(d)', Dimension(d) = "lifecycle", mapping[On(d)].status = "active"
          PROVE  M[On(d)].status = "active"
      <4>1. On(d) \in Resources /\ On(d) # Configuration BY <1>1, AskedRead DEF TypeInv
      <4>2. CASE On(d) # On(c) BY <1>16, <3>4, <4>1, <4>2
      <4>3. CASE On(d) = On(c)
        <5>1. Dimension(c) # "lifecycle"
          <6>1. SUFFICES ASSUME Dimension(c) = "lifecycle" PROVE Operation(d) = o BY <3>3, <3>4
          <6>2. QED BY <1>5, <3>4, <4>3, <6>1 DEF Operation
        <5>2. QED BY <1>16, <3>4, <4>3, <5>1
      <4>4. QED BY <4>2, <4>3
    <3>5. QED BY <1>5, <1>22, <3>2, <3>3, <3>4
  <2>2. \A r \in Resources, d \in Dimensions : mapping'[r][d] >= mapping[r][d] BY <1>5, <1>17
  <2>3. \A r \in Resources : mapping'[r].status = "none" => mapping[r].status = "none"
    BY <1>5, <1>17
  <2>4. mapping' \in [Resources -> MappingRecords] BY <1>5, <1>16
  <2>5. QED BY <1>1, <2>1, <2>2, <2>3, <2>4, CatalogueAdvanced
<1>24. RecordedInv'
  <2>1. ASSUME NEW d \in DOMAIN asked, Accepted(d)', Dimension(d) # "mutation"
        PROVE  Recorded(d)'
    <3>1. CASE d # c BY <1>2, <1>22, <1>23, <2>1, <3>1 DEF RecordedInv
    <3>2. CASE d = c
      <4>1. Provided(On(c))' BY <1>4, <2>1, <3>2, SameAsked DEF Provided
      <4>2. M[On(c)][Dimension(c)] >= Revision(c)
        <5>1. CASE DOMAIN next # {} BY <1>8, <1>16, <5>1
        <5>2. CASE DOMAIN next = {} BY <1>4, <1>16, <2>1, <3>2, <5>2 DEF PlanShape
        <5>3. QED BY <5>1, <5>2
      <4>3. On(c)' = On(c) /\ Dimension(c)' = Dimension(c) /\ Revision(c)' = Revision(c)
        BY SameAsked
      <4>4. QED BY <1>5, <3>2, <4>1, <4>2, <4>3 DEF Recorded
    <3>3. QED BY <3>1, <3>2
  <2>2. QED BY <2>1, SameAsked DEF RecordedInv
<1>25. CodeExclusive' BY <1>5, <1>18 DEF CodeExclusive, Active
<1>26. CatalogueInv' BY <1>20, <1>21, <1>23, <1>24, <1>25 DEF CatalogueInv
<1>27. QED BY <1>12, <1>14, <1>15, <1>19, <1>26 DEF CommandsInv

LEMMA CompleteStep ==
  ASSUME CommandsInv, NEW w \in Workers, Complete(w)
  PROVE  CommandsInv'
<1>1. PICK c, next : c = run[w].command /\ next = run[w].next OBVIOUS
<1>2. run[w].pc = "record" /\ End(w) /\ UNCHANGED <<asked, sent, late, source, effect>>
  BY DEF Complete
<1>3. CASE Completable(c, next)
  <2>1. /\ SetStatus(c, "accepted") /\ Give(c, "accepted") /\ mapping' = Completed(c, next)
        /\ code' = [k \in Codes |-> IF k = Takes(c, next) THEN On(c)
                                    ELSE IF k \in Releases(c, next) THEN NoCode ELSE code[k]]
    BY <1>1, <1>3 DEF Complete, Completed
  <2>2. QED BY <1>1, <1>2, <1>3, <2>1, CompletedStep
<1>4. CASE ~Completable(c, next)
  <2>1. /\ UNCHANGED <<receipt, claim, mapping, code>>
        /\ \/ receipt[c] = "accepted" /\ Give(c, "accepted")
           \/ Give(c, "conflict")
    BY <1>1, <1>4 DEF Complete
  <2>2. PICK a : /\ a \in {receipt[c], "conflict"} /\ a \in Answers
                 /\ answers' = [answers EXCEPT ![c] = @ \cup {a}]
    BY <2>1 DEF Give, Answers, Settled
  <2>3. QED BY <1>1, <1>2, <2>1, <2>2, SettledStep
<1>5. QED BY <1>3, <1>4

-----------------------------------------------------------------------------
(* The first state *)

LEMMA InitCommands == Init => CommandsInv
<1>1. SUFFICES ASSUME Init PROVE CommandsInv OBVIOUS
<1>2. PICK s \in Scenarios :
        /\ asked = s.asked /\ sent = s.sent
        /\ receipt = [c \in DOMAIN asked |-> IF c \in s.done THEN "accepted" ELSE "none"]
        /\ claim = [o \in Operations |->
             IF \E c \in s.done : Operation(c) = o
             THEN [command |-> CHOOSE c \in s.done : Operation(c) = o, status |-> "accepted"]
             ELSE Unclaimed]
        /\ late = {}
        /\ run = [w \in Workers |-> Idle]
        /\ mapping = [r \in Resources |->
             IF \E c \in s.done : On(c) = r
             THEN Created(CHOOSE c \in s.done : On(c) = r) ELSE Unmapped]
        /\ code = [k \in Codes |->
             IF \E c \in s.done : On(c) \in Discounts /\ Code[On(c)] = k
             THEN On(CHOOSE c \in s.done : On(c) \in Discounts /\ Code[On(c)] = k)
             ELSE NoCode]
        /\ source = [a \in Checkouts |-> 0]
        /\ effect = [c \in DOMAIN asked |-> IF c \in s.done THEN "done" ELSE "none"]
        /\ answers = [c \in DOMAIN asked |-> IF c \in s.done THEN {"accepted"} ELSE {}]
  BY <1>1 DEF Init
<1>3. PICK D : D = s.done OBVIOUS
<1>4. /\ D \subseteq DOMAIN asked /\ sent \subseteq DOMAIN asked /\ DOMAIN asked \subseteq Commands
      /\ asked \in [DOMAIN asked -> Shape]
  BY <1>2, <1>3, CommandAssumption DEF CommandAssumption
<1>5. AskedInv
  <2>1. DOMAIN asked = s.sent \cup s.done BY <1>2, CommandAssumption DEF CommandAssumption
  <2>2. \A c \in DOMAIN asked : /\ On(c) \in Subjects(Kind(c))
                                /\ Kind(c) = "discount-lifecycle" => Content(c) \in Lifecycles
    BY <1>2, <2>1, ScenarioAssumption DEF ScenarioAssumption, On, Kind, Content
  <2>3. QED BY <1>4, <2>2 DEF AskedInv
<1>6. /\ \A c \in D : Kind(c) \in Creators
      /\ \A c, d \in D : On(c) = On(d) => c = d
      /\ \A c, d \in D : /\ Kind(c) = "discount" /\ Kind(d) = "discount"
                         /\ Code[On(c)] = Code[On(d)] /\ Code[On(c)] # NoCode
                         => c = d
  BY <1>2, <1>3, ScenarioAssumption DEF ScenarioAssumption, On, Kind
<1>7. /\ NoCommand \notin Commands /\ MaxSource \in Nat
      /\ Code \in [Discounts -> Codes \cup {NoCode}] /\ NoCode \notin Codes \cup Discounts
  BY CommandAssumption DEF CommandAssumption
<1>8. \A c \in D : /\ Dimension(c) = "immutable" /\ Operation(c) \in Operations
                   /\ On(c) \in Resources \ {Configuration} /\ Revision(c) \in Nat \ {0}
                   /\ Operation(c) = <<On(c), "immutable", 0>>
  BY <1>4, <1>5, <1>6, Dimensioned, AskedRead DEF Creators, Operation
<1>9. \A c, d \in D : Operation(c) = Operation(d) => c = d
  <2>1. \A c, d \in D : Operation(c) = Operation(d) => On(c) = On(d) BY <1>8
  <2>2. QED BY <1>6, <2>1
<1>10. /\ \A c \in D : /\ claim[Operation(c)] = [command |-> c, status |-> "accepted"]
                       /\ claim[Operation(c)].command = c
                       /\ claim[Operation(c)].status = "accepted"
       /\ \A o \in Operations : (\A c \in D : Operation(c) # o) => claim[o] = Unclaimed
  <2>1. ASSUME NEW c \in D PROVE claim[Operation(c)] = [command |-> c, status |-> "accepted"]
    <3>1. (CHOOSE d \in s.done : Operation(d) = Operation(c)) = c BY <1>3, <1>9
    <3>2. QED BY <1>2, <1>3, <1>8, <3>1
  <2>2. ASSUME NEW c \in D
        PROVE  claim[Operation(c)].command = c /\ claim[Operation(c)].status = "accepted"
    <3>1. PICK h : h = claim[Operation(c)] OBVIOUS
    <3>2. h = [command |-> c, status |-> "accepted"] BY <2>1, <3>1
    <3>3. h.command = c /\ h.status = "accepted" BY <3>2
    <3>4. QED BY <3>1, <3>3
  <2>3. QED BY <1>2, <1>3, <2>1, <2>2
<1>11. /\ \A c \in D : mapping[On(c)] = Created(c)
       /\ \A r \in Resources : (\A c \in D : On(c) # r) => mapping[r] = Unmapped
  <2>1. ASSUME NEW c \in D PROVE mapping[On(c)] = Created(c)
    <3>1. (CHOOSE d \in s.done : On(d) = On(c)) = c BY <1>3, <1>6
    <3>2. QED BY <1>2, <1>3, <1>8, <3>1
  <2>2. QED BY <1>2, <1>3, <2>1
<1>12. \A c \in D : On(c) \in Discounts => Kind(c) = "discount"
  <2>1. ASSUME NEW c \in D, On(c) \in Discounts PROVE Kind(c) = "discount"
    <3>1. Kind(c) \in Kinds /\ On(c) \in Subjects(Kind(c)) BY <1>4, <1>5, AskedRead
    <3>2. Kind(c) \in {"discount", "discount-presentation", "discount-lifecycle"}
      BY <2>1, <3>1, SubjectsApart
    <3>3. QED BY <1>6, <3>2 DEF Creators
  <2>2. QED BY <2>1
<1>13. /\ code \in [Codes -> Discounts \cup {NoCode}]
       /\ \A c \in D : On(c) \in Discounts /\ Code[On(c)] # NoCode => code[Code[On(c)]] = On(c)
  <2>1. ASSUME NEW k \in Codes PROVE code[k] \in Discounts \cup {NoCode}
    <3>1. CASE \E c \in s.done : On(c) \in Discounts /\ Code[On(c)] = k
      <4>1. PICK e : e = CHOOSE c \in s.done : On(c) \in Discounts /\ Code[On(c)] = k OBVIOUS
      <4>2. On(e) \in Discounts BY <3>1, <4>1
      <4>3. QED BY <1>2, <3>1, <4>1, <4>2
    <3>2. CASE ~\E c \in s.done : On(c) \in Discounts /\ Code[On(c)] = k BY <1>2, <3>2
    <3>3. QED BY <3>1, <3>2
  <2>2. ASSUME NEW c \in D, On(c) \in Discounts, Code[On(c)] # NoCode
        PROVE  code[Code[On(c)]] = On(c)
    <3>1. PICK k : k = Code[On(c)] OBVIOUS
    <3>2. k \in Codes BY <1>7, <2>2, <3>1
    <3>3. PICK e : e = CHOOSE d \in s.done : On(d) \in Discounts /\ Code[On(d)] = k OBVIOUS
    <3>4. e \in D /\ On(e) \in Discounts /\ Code[On(e)] = k BY <1>3, <2>2, <3>1, <3>3
    <3>5. e = c BY <1>6, <1>12, <2>2, <3>1, <3>4
    <3>6. QED BY <1>2, <1>3, <2>2, <3>1, <3>2, <3>3, <3>5
  <2>3. QED BY <1>2, <2>1, <2>2
<1>14. /\ \A c \in DOMAIN asked : receipt[c] = IF c \in D THEN "accepted" ELSE "none"
       /\ \A c \in DOMAIN asked : effect[c] = IF c \in D THEN "done" ELSE "none"
       /\ \A c \in DOMAIN asked : answers[c] = IF c \in D THEN {"accepted"} ELSE {}
       /\ \A w \in Workers : run[w].pc = "idle" /\ run[w] \in RunRecords
       /\ late = {}
  BY <1>2, <1>3, IdleIs
<1>15. \A o \in Operations : \/ claim[o] = Unclaimed /\ \A c \in D : Operation(c) # o
                             \/ \E c \in D : o = Operation(c)
  BY <1>10
<1>16. Unclaimed.command = NoCommand /\ Unclaimed.status = "none" /\ Unclaimed \in ClaimRecords
  BY DEF Unclaimed, ClaimRecords
<1>17. \A c \in D : [command |-> c, status |-> "accepted"] \in ClaimRecords
  BY <1>4 DEF ClaimRecords, Settled
<1>18. Unmapped \in MappingRecords /\ Unmapped.status = "none" /\ Unmapped.immutable = 0
       /\ Unmapped.presentation = 0 /\ Unmapped.lifecycle = 0
  BY DEF Unmapped, MappingRecords, Statuses, Words
<1>19. \A c \in D : /\ Created(c) \in MappingRecords /\ Created(c).immutable = Revision(c)
                    /\ Created(c).presentation = 0 /\ Created(c).lifecycle = 0
                    /\ Created(c).status # "none"
  BY <1>4, <1>5, CreatedRecord
<1>20. TypeInv
  <2>1. claim \in [Operations -> ClaimRecords]
    <3>1. \A o \in Operations : claim[o] \in ClaimRecords
      <4>1. \A c \in D : claim[Operation(c)] \in ClaimRecords BY <1>10, <1>17
      <4>2. QED BY <1>15, <1>16, <4>1
    <3>2. QED BY <1>2, <3>1
  <2>2. mapping \in [Resources -> MappingRecords]
    <3>1. \A r \in Resources : mapping[r] \in MappingRecords BY <1>11, <1>18, <1>19
    <3>2. QED BY <1>2, <3>1
  <2>3. receipt \in [DOMAIN asked -> Open \cup Settled \cup {"none"}]
    BY <1>2 DEF Settled
  <2>4. run \in [Workers -> RunRecords] BY <1>2, IdleIs
  <2>5. source \in [Checkouts -> 0..MaxSource] BY <1>2, <1>7
  <2>6. effect \in [DOMAIN asked -> {"none", "done", "forgotten", "twice"}] BY <1>2
  <2>7. answers \in [DOMAIN asked -> SUBSET Answers] BY <1>2 DEF Answers, Settled
  <2>8. QED BY <1>5, <1>13, <1>14, <2>1, <2>2, <2>3, <2>4, <2>5, <2>6, <2>7
        DEF TypeInv, RecordTypes
<1>21. StoreInv
  <2>1. ClaimInv
    <3>1. ASSUME NEW o \in Operations
          PROVE  /\ claim[o].command = NoCommand <=> claim[o].status = "none"
                 /\ \A c \in DOMAIN asked : claim[o].command = c => Operation(c) = o
      <4>1. CASE claim[o] = Unclaimed BY <1>4, <1>7, <1>16, <4>1
      <4>2. CASE \E c \in D : o = Operation(c)
        <5>1. PICK c \in D : o = Operation(c) BY <4>2
        <5>2. claim[o].command = c /\ claim[o].status = "accepted" BY <1>10, <5>1
        <5>3. QED BY <1>4, <1>7, <5>1, <5>2
      <4>3. QED BY <1>15, <4>1, <4>2
    <3>2. QED BY <3>1 DEF ClaimInv
  <2>2. RunInv BY <1>14 DEF RunInv
  <2>3. TakenInv
    <3>1. ASSUME NEW c \in DOMAIN asked, Attempted(c) PROVE Passed(c)
      <4>1. c \in D BY <1>14, <3>1 DEF Attempted, Told
      <4>2. claim[Operation(c)].command = c /\ Revision(c) \in Nat BY <1>8, <1>10, <4>1
      <4>3. QED BY <4>2 DEF Passed
    <3>2. QED BY <3>1 DEF TakenInv
  <2>4. ReceiptMatchesClaim
    <3>1. ASSUME NEW c \in DOMAIN asked, receipt[c] # "none"
          PROVE  claim[Operation(c)] = [command |-> c, status |-> receipt[c]]
      BY <1>10, <1>14, <3>1
    <3>2. QED BY <3>1 DEF ReceiptMatchesClaim, Open
  <2>5. QED BY <2>1, <2>2, <2>3, <2>4 DEF StoreInv
<1>22. KeyInv BY <1>14 DEF KeyInv, ProviderOnce
<1>23. AnswersInv
  <2>1. ASSUME NEW c \in DOMAIN asked, NEW x \in Told(c)
        PROVE  /\ receipt[c] # "none" => receipt[c] = x
               /\ claim[Operation(c)].command = c => claim[Operation(c)].status = x
               /\ \A y \in Told(c) : x = y
    <3>1. /\ c \in D /\ receipt[c] = "accepted"
          /\ \A y \in Told(c) : y = "accepted"
      BY <1>14, <2>1 DEF Told
    <3>2. claim[Operation(c)].status = "accepted" BY <1>10, <3>1
    <3>3. QED BY <2>1, <3>1, <3>2
  <2>2. QED BY <2>1 DEF AnswersInv
<1>24. CatalogueInv
  <2>1. MappingInv
    <3>1. ASSUME NEW r \in Resources
          PROVE  /\ mapping[r].status = "none" => mapping[r] = Unmapped
                 /\ mapping[r].status # "none" =>
                      mapping[r].immutable > 0 /\ (r # Configuration => Provided(r))
      <4>1. CASE \E c \in D : On(c) = r
        <5>1. PICK c \in D : On(c) = r BY <4>1
        <5>2. Provided(r) BY <1>4, <1>8, <1>14, <5>1 DEF Provided
        <5>3. mapping[r].status # "none" /\ mapping[r].immutable > 0
          BY <1>8, <1>11, <1>19, <5>1
        <5>4. QED BY <5>2, <5>3
      <4>2. CASE \A c \in D : On(c) # r BY <1>11, <1>18, <4>2
      <4>3. QED BY <4>1, <4>2
    <3>2. QED BY <3>1 DEF MappingInv
  <2>2. LedgerInv
    <3>1. ASSUME NEW o \in Catalogued
          PROVE  /\ claim[o].status = "none" => mapping[o[1]][o[2]] = 0
                 /\ \A h \in DOMAIN asked : claim[o].command = h =>
                      IF claim[o].status = "accepted" THEN mapping[o[1]][o[2]] = Revision(h)
                      ELSE mapping[o[1]][o[2]] < Revision(h)
      <4>1. o \in Operations /\ o[2] # "mutation" BY DEF Catalogued
      <4>2. PICK d \in DOMAIN asked : o = Operation(d) BY <4>1 DEF Operations
      <4>3. o[1] = On(d) /\ o[2] = Dimension(d) BY <4>2 DEF Operation
      <4>4. o = <<On(d), Dimension(d), 0>> BY <4>1, <4>2, <4>3 DEF Operation
      <4>5. On(d) \in Resources /\ Dimension(d) \in Dimensions
        BY <1>5, <4>1, <4>3, AskedRead, Dimensioned
      <4>6. CASE \E c \in D : o = Operation(c)
        <5>1. PICK c \in D : o = Operation(c) BY <4>6
        <5>2. claim[o].command = c /\ claim[o].status = "accepted" BY <1>10, <5>1
        <5>3. o[1] = On(c) /\ o[2] = "immutable" BY <1>8, <5>1
        <5>4. mapping[o[1]][o[2]] = Revision(c) BY <1>11, <1>19, <5>3
        <5>5. QED BY <5>2, <5>4
      <4>7. CASE claim[o] = Unclaimed /\ \A c \in D : Operation(c) # o
        <5>1. mapping[On(d)][Dimension(d)] = 0
          <6>1. CASE \E c \in D : On(c) = On(d)
            <7>1. PICK c \in D : On(c) = On(d) BY <6>1
            <7>2. Dimension(d) # "immutable" BY <1>8, <4>4, <4>7, <7>1
            <7>3. mapping[On(d)] = Created(c) BY <1>11, <7>1
            <7>4. QED BY <1>19, <4>5, <7>2, <7>3 DEF Dimensions
          <6>2. CASE \A c \in D : On(c) # On(d)
            BY <1>11, <1>18, <4>5, <6>2 DEF Dimensions
          <6>3. QED BY <6>1, <6>2
        <5>2. \A h \in DOMAIN asked : claim[o].command # h BY <1>4, <1>7, <1>16, <4>7
        <5>3. QED BY <4>3, <5>1, <5>2
      <4>8. QED BY <1>15, <4>1, <4>6, <4>7
    <3>2. QED BY <3>1 DEF LedgerInv
  <2>3. RecordedInv
    <3>1. ASSUME NEW c \in DOMAIN asked, Accepted(c) PROVE Recorded(c)
      <4>1. c \in D
        <5>1. SUFFICES ASSUME c \notin D PROVE FALSE OBVIOUS
        <5>2. claim[Operation(c)] = [command |-> c, status |-> "accepted"]
          BY <1>14, <3>1, <5>1 DEF Accepted
        <5>3. claim[Operation(c)].command = c BY <5>2
        <5>4. Operation(c) \in Operations BY DEF Operations
        <5>5. \A d \in D : Operation(d) # Operation(c) BY <1>10, <5>1, <5>3
        <5>6. claim[Operation(c)] = Unclaimed BY <1>10, <5>4, <5>5
        <5>7. QED BY <1>4, <1>7, <1>16, <5>3, <5>6
      <4>2. mapping[On(c)][Dimension(c)] >= Revision(c) BY <1>8, <1>11, <1>19, <4>1
      <4>3. Provided(On(c)) BY <1>8, <1>14, <4>1 DEF Provided
      <4>4. QED BY <4>2, <4>3 DEF Recorded
    <3>2. QED BY <3>1 DEF RecordedInv
  <2>4. PlanInv BY <1>14 DEF PlanInv, PlanFits
  <2>5. CodeExclusive
    <3>1. ASSUME NEW d \in Discounts, Active(d), Code[d] # NoCode PROVE code[Code[d]] = d
      <4>1. d \in Resources BY DEF Resources
      <4>2. PICK c \in D : On(c) = d BY <1>11, <1>18, <3>1, <4>1 DEF Active
      <4>3. QED BY <1>13, <3>1, <4>2
    <3>2. QED BY <3>1 DEF CodeExclusive
  <2>6. QED BY <2>1, <2>2, <2>3, <2>4, <2>5 DEF CatalogueInv
<1>25. QED BY <1>20, <1>21, <1>22, <1>23, <1>24 DEF CommandsInv

-----------------------------------------------------------------------------
(* Theorems *)

LEMMA NextCommands ==
  ASSUME CommandsInv, [Next]_commandVars PROVE CommandsInv'
<1>1. CASE Next
  <2>1. ASSUME NEW w \in Workers, Invocation(w) PROVE CommandsInv'
    <3>1. CASE \E c \in sent : Start(w, c) BY <3>1, StartStep
    <3>2. CASE \E c \in sent : Resume(w, c) BY <3>2, ResumeStep
    <3>3. CASE Perform(w) BY <3>3, PerformStep
    <3>4. CASE CallStripe(w) BY <3>4, CallStripeStep
    <3>5. CASE Transition(w) BY <3>5, TransitionStep
    <3>6. CASE Complete(w) BY <3>6, CompleteStep
    <3>7. CASE Crash(w) BY <3>7, CrashStep
    <3>8. QED BY <2>1, <3>1, <3>2, <3>3, <3>4, <3>5, <3>6, <3>7 DEF Invocation
  <2>2. ASSUME NEW c \in sent, Replay(c) \/ Clock(c) PROVE CommandsInv'
    BY <2>2, ReplayStep, ClockStep
  <2>3. ASSUME NEW a \in Checkouts, BindCheckout(a) \/ Project(a) PROVE CommandsInv'
    BY <2>3, BindCheckoutStep, ProjectStep
  <2>4. QED BY <1>1, <2>1, <2>2, <2>3 DEF Next
<1>2. CASE UNCHANGED commandVars
  <2>1. /\ UNCHANGED <<asked, sent, receipt, claim, late, run, mapping, code, source, effect,
                       answers>>
        /\ TypeInv /\ StoreInv /\ KeyInv /\ AnswersInv /\ CatalogueInv
    BY <1>2 DEF commandVars, CommandsInv
  <2>2. TypeInv'
    <3>1. AskedInv' BY <2>1, AskedKept DEF TypeInv
    <3>2. QED BY <2>1, <3>1, SameAsked DEF TypeInv, RecordTypes
  <2>3. StoreInv'
    <3>1. RunInv' BY <2>1 DEF StoreInv, RunInv
    <3>2. \A d \in DOMAIN asked : Attempted(d)' => Attempted(d)
      BY <2>1, SameAnswers DEF Attempted
    <3>3. QED BY <2>1, <3>1, <3>2, ClaimsKept
  <2>4. KeyInv' BY <2>1 DEF KeyInv, ProviderOnce
  <2>5. AnswersInv' BY <2>1, SameAsked, SameAnswers DEF AnswersInv
  <2>6. CatalogueInv'
    <3>1. LedgerInv' BY <2>1, LedgerKept DEF CatalogueInv
    <3>2. \A d \in DOMAIN asked : (Accepted(d)' => Accepted(d)) /\ (StillOpen(d)' => StillOpen(d))
      BY <2>1, SameAsked DEF Accepted, StillOpen
    <3>3. \A w \in Workers, d \in DOMAIN asked, pc \in Pcs, next \in Nexts :
            run'[w].command = d /\ run'[w].pc = pc /\ run'[w].next = next => PlanFits(d, pc, next)
      BY <2>1 DEF CatalogueInv, PlanInv
    <3>4. QED BY <2>1, <3>1, <3>2, <3>3, CatalogueKept
  <2>7. QED BY <2>2, <2>3, <2>4, <2>5, <2>6 DEF CommandsInv
<1>3. QED BY <1>1, <1>2

\* Receipts, claims, invocations, answers and the catalogue go on fitting together, whatever
\* the commands, their interleavings and their crashes: the inductive invariant of
\* SaasStripeCommandService and StripeCommandStore.
THEOREM CommandsInductive == Spec => []CommandsInv
BY InitCommands, NextCommands, PTL DEF Spec

\* Type correctness of all that the store, the invocations and Stripe hold.
THEOREM CommandTypesHold == Spec => []CommandTypeOK
<1>1. CommandsInv => CommandTypeOK
  <2>1. SUFFICES ASSUME CommandsInv PROVE CommandTypeOK OBVIOUS
  <2>2. TypeInv /\ MappingInv BY <2>1 DEF CommandsInv, CatalogueInv
  <2>3. ASSUME NEW w \in Workers
        PROVE  /\ run[w].pc \in {"idle", "perform", "call", "record"} \cup DOMAIN Target
               /\ run[w].command \in DOMAIN asked \cup {NoCommand}
               /\ DOMAIN run[w].next \subseteq Resources
    <3>1. PICK r : r = run[w] OBVIOUS
    <3>2. r \in RunRecords BY <2>2, <3>1 DEF TypeInv, RecordTypes
    <3>3. DOMAIN r.next \subseteq Resources BY <3>2 DEF RunRecords, Nexts
    <3>4. DOMAIN Target = {"refuse", "review", "unsure"} BY DEF Target
    <3>5. r.pc \in Pcs /\ r.command \in DOMAIN asked \cup {NoCommand} BY <3>2 DEF RunRecords
    <3>6. QED BY <3>1, <3>3, <3>4, <3>5 DEF Pcs
  <2>4. \A r \in Resources : mapping[r].status # "none" => mapping[r].immutable > 0
    BY <2>2 DEF MappingInv
  <2>5. QED BY <2>2, <2>3, <2>4
        DEF CommandTypeOK, TypeInv, AskedInv, RecordTypes, ClaimRecords
<1>2. QED BY <1>1, CommandsInductive, PTL

\* A receipt that is open, or of the command its operation is at, tells the
\* status of the operation's claim: the two transactional writes of every
\* transition never come apart.
THEOREM ReceiptsMatchClaims == Spec => []ReceiptMatchesClaim
<1>1. CommandsInv => ReceiptMatchesClaim BY DEF CommandsInv, StoreInv
<1>2. QED BY <1>1, CommandsInductive, PTL

\* However often execute runs a command, Stripe never does what it asks twice.
THEOREM StripeActsOnce == Spec => []ProviderOnce
<1>1. CommandsInv => ProviderOnce BY DEF CommandsInv, KeyInv
<1>2. QED BY <1>1, CommandsInductive, PTL

\* No two callers of one command, other than a portal session, are told that it was
\* settled in different ways: accepted, in review, or conflicting because rejected.
\* Another 409, of an overlapping invocation, settles nothing and is not covered.
THEOREM CallersAgree == Spec => []AnswersAgree
<1>1. CommandsInv => AnswersAgree
  <2>1. SUFFICES ASSUME CommandsInv, NEW c \in DOMAIN asked, Kind(c) # "customer-portal"
                 PROVE  Cardinality(Told(c)) <= 1
    BY DEF AnswersAgree
  <2>2. \A x, y \in Told(c) : x = y BY <2>1 DEF CommandsInv, AnswersInv
  <2>3. CASE Told(c) = {} BY <2>3, FS_EmptySet
  <2>4. CASE Told(c) # {}
    <3>1. PICK x : x \in Told(c) BY <2>4
    <3>2. Told(c) = {x} BY <2>2, <3>1
    <3>3. Cardinality({x}) = 1 BY FS_Singleton
    <3>4. QED BY <3>2, <3>3
  <2>5. QED BY <2>3, <2>4
<1>2. QED BY <1>1, CommandsInductive, PTL

\* What a caller was told is accepted is in the catalogue at the command's
\* revision or a later one, and a command that creates it had its effect at Stripe.
THEOREM AcceptedStaysRecorded == Spec => []AcceptedIsRecorded
<1>1. CommandsInv => AcceptedIsRecorded
  <2>1. SUFFICES ASSUME CommandsInv, NEW c \in DOMAIN asked,
                        "accepted" \in answers[c], Dimension(c) # "mutation"
                 PROVE  /\ mapping[On(c)][Dimension(c)] >= Revision(c)
                        /\ \E x \in DOMAIN asked :
                             On(x) = On(c) /\ Dimension(x) = "immutable" /\ effect[x] # "none"
    BY DEF AcceptedIsRecorded
  <2>2. Recorded(c) BY <2>1 DEF CommandsInv, CatalogueInv, RecordedInv, Accepted
  <2>3. QED BY <2>2 DEF Recorded, Provided
<1>2. QED BY <1>1, CommandsInductive, PTL

\* A discount on sale holds the claim on its customer's code, so no two share one.
THEOREM CodesStayExclusive == Spec => []CodeExclusive
<1>1. CommandsInv => CodeExclusive BY DEF CommandsInv, CatalogueInv
<1>2. QED BY <1>1, CommandsInductive, PTL

\* What a transition of an open command does to the claims.
LEMMA StatusSet ==
  ASSUME TypeInv, NEW c \in DOMAIN asked, NEW t, StillOpen(c), SetStatus(c, t),
         NEW o, o = Operation(c)
  PROVE  /\ claim'[o].command = c /\ claim'[o].status = t
         /\ \A p \in Operations \ {o} : claim'[p] = claim[p]
<1>1. PICK x : x = [claim[o] EXCEPT !.status = t] OBVIOUS
<1>2. o \in Operations /\ claim[o] \in ClaimRecords /\ claim[o].command = c
      /\ DOMAIN claim = Operations
  BY RecordsRead DEF StillOpen
<1>3. x.command = c /\ x.status = t BY <1>1, <1>2 DEF ClaimRecords
<1>4. claim' = [claim EXCEPT ![o] = x] BY <1>1 DEF SetStatus
<1>5. QED BY <1>2, <1>3, <1>4

\* A resource no longer sold is never sold again, though invocations write
\* mappings they read before complete's transaction checks them.
THEOREM RetirementsLast == Spec => NeverRevived
<1>1. ASSUME CommandsInv, [Next]_commandVars, NEW r \in Resources,
             mapping[r].status \notin {"none", "active"}, mapping'[r].status = "active"
      PROVE  FALSE
  <2>1. TypeInv /\ StoreInv /\ MappingInv /\ PlanInv BY <1>1 DEF CommandsInv, CatalogueInv
  <2>2. mapping' # mapping BY <1>1
  <2>3. CASE \E a \in Checkouts : BindCheckout(a)
    <3>1. PICK a \in Checkouts : BindCheckout(a) BY <2>3
    <3>2. PICK m, x : m = mapping[a] /\ x = [m EXCEPT !.linked = TRUE] OBVIOUS
    <3>3. mapping \in [Resources -> MappingRecords] /\ a \in Resources
      BY <2>1 DEF TypeInv, RecordTypes, Resources
    <3>4. x.status = m.status BY <3>2, <3>3 DEF MappingRecords
    <3>5. mapping' = [mapping EXCEPT ![a] = x] BY <3>1, <3>2 DEF BindCheckout
    <3>6. QED BY <1>1, <3>2, <3>3, <3>4, <3>5
  <2>4. CASE \E w \in Workers : Complete(w)
    <3>1. PICK w \in Workers : Complete(w) BY <2>4
    <3>2. PICK c, next, M : c = run[w].command /\ next = run[w].next /\ M = mapping' OBVIOUS
    <3>3. run[w].pc = "record" BY <3>1 DEF Complete
    <3>4. c \in DOMAIN asked /\ next \in Nexts BY <2>1, <3>2, <3>3, RunRead
    <3>5. PlanShape(c, next)
      <4>1. PlanFits(c, "record", next) BY <2>1, <3>2, <3>3, <3>4 DEF PlanInv, Pcs
      <4>2. QED BY <4>1 DEF PlanFits
    <3>6. Completable(c, next) /\ M = Completed(c, next)
      BY <2>2, <3>1, <3>2 DEF Complete, Completed
    <3>7. /\ \A x \in Resources \ {On(c), Configuration} : M[x] = mapping[x]
          /\ M[Configuration] # mapping[Configuration] => mapping[Configuration].status = "none"
          /\ DOMAIN next = {} => M = mapping
          /\ DOMAIN next # {} =>
               /\ WriteShape(c, next)
               /\ mapping[On(c)].status # "none" =>
                    M[On(c)].status = IF Dimension(c) = "lifecycle"
                                      THEN next[On(c)].status ELSE mapping[On(c)].status
      BY ONLY <2>1, <3>4, <3>5, <3>6, CompletionWrites
    <3>8. r = On(c) /\ DOMAIN next # {} /\ Dimension(c) = "lifecycle"
          /\ next[On(c)].status = "active"
      BY <1>1, <3>2, <3>7
    <3>9. Kind(c) \in {"deactivate", "discount-lifecycle"}
      <4>1. Kind(c) \in Kinds BY <2>1, <3>4, AskedRead DEF TypeInv
      <4>2. QED BY <3>8, <4>1 DEF Dimension, Kinds
    <3>10. StillOpen(c) BY <3>6 DEF Completable
    <3>11. mapping[On(c)].status = "active" BY <3>7, <3>8, <3>9, <3>10 DEF WriteShape
    <3>12. QED BY <1>1, <3>8, <3>11
  <2>5. \/ \E a \in Checkouts : BindCheckout(a)
        \/ \E w \in Workers : Complete(w)
    BY <1>1, <2>2 DEF Next, Invocation, Clock, Start, Resume, Perform, CallStripe, Transition,
                      Crash, Replay, Age, Forget, Expire, Project, commandVars
  <2>6. QED BY <2>3, <2>4, <2>5
<1>2. CommandsInv /\ [Next]_commandVars =>
        [\A r \in Resources :
           mapping[r].status \notin {"none", "active"} => mapping'[r].status # "active"]_commandVars
  BY <1>1
<1>3. QED BY <1>2, CommandsInductive, PTL DEF Spec, NeverRevived

-----------------------------------------------------------------------------
(* Each operation implements the ledger of CommandLedger *)

LEMMA OutcomeIs ==
  ASSUME NEW o
  PROVE  /\ claim[o].status \in {"none", "accepted"} => Outcome(o) = "granted"
         /\ claim[o].status \in Open => Outcome(o) = "open"
         /\ claim[o].status \in {"rejected", "needs_review"} => Outcome(o) = "refused"
<1>1. PICK x : x = claim[o].status OBVIOUS
<1>2. Outcome(o) = CASE x \in {"none", "accepted"} -> "granted"
                     [] x \in Open -> "open"
                     [] OTHER -> "refused"
  BY <1>1 DEF Outcome
<1>3. x \in {"none", "accepted"} => x \notin Open BY DEF Open
<1>4. x \in {"rejected", "needs_review"} => x \notin Open /\ x \notin {"none", "accepted"}
  BY DEF Open
<1>5. x \in {"none", "accepted"} => Outcome(o) = "granted" BY <1>2, <1>3, Zenon
<1>6. x \in Open => Outcome(o) = "open" BY <1>2, <1>3, Zenon
<1>7. x \in {"rejected", "needs_review"} => Outcome(o) = "refused" BY <1>2, <1>4, Zenon
<1>8. QED BY <1>1, <1>5, <1>6, <1>7

LEMMA OutcomeNext ==
  ASSUME NEW o
  PROVE  /\ claim'[o].status \in {"none", "accepted"} => Outcome(o)' = "granted"
         /\ claim'[o].status \in Open => Outcome(o)' = "open"
         /\ claim'[o].status \in {"rejected", "needs_review"} => Outcome(o)' = "refused"
<1>1. PICK x : x = claim'[o].status OBVIOUS
<1>2. Outcome(o)' = CASE x \in {"none", "accepted"} -> "granted"
                      [] x \in Open -> "open"
                      [] OTHER -> "refused"
  BY <1>1 DEF Outcome, Open
<1>3. x \in {"none", "accepted"} => x \notin Open BY DEF Open
<1>4. x \in {"rejected", "needs_review"} => x \notin Open /\ x \notin {"none", "accepted"}
  BY DEF Open
<1>5. x \in {"none", "accepted"} => Outcome(o)' = "granted" BY <1>2, <1>3, Zenon
<1>6. x \in Open => Outcome(o)' = "open" BY <1>2, <1>3, Zenon
<1>7. x \in {"rejected", "needs_review"} => Outcome(o)' = "refused" BY <1>2, <1>4, Zenon
<1>8. QED BY <1>1, <1>5, <1>6, <1>7

LEMMA TakenIs ==
  ASSUME AskedInv, NEW o, NEW c \in DOMAIN asked
  PROVE  /\ claim[o].command = c => Taken(o) = Revision(c)
         /\ claim[o].command = NoCommand => Taken(o) = 0
         /\ asked' = asked /\ claim'[o].command = c => Taken(o)' = Revision(c)
         /\ Revision(c) \in Revisions
<1>1. c # NoCommand BY CommandAssumption DEF CommandAssumption, AskedInv
<1>2. Revision(c) \in Revisions BY DEF AskedInv, Shape, Revision
<1>3. asked' = asked => Revision(c)' = Revision(c) BY SameAsked
<1>4. asked' = asked /\ claim'[o].command = c => Taken(o)' = Revision(c)
  BY <1>1 DEF Taken, Revision
<1>5. QED BY <1>1, <1>2, <1>4 DEF Taken

LEMMA LedgerStutters ==
  ASSUME UNCHANGED asked, NEW o, Shown(o)' = Shown(o), claim'[o].command = claim[o].command,
         \/ claim'[o].status = claim[o].status
         \/ claim[o].status \in Open /\ claim'[o].status \in Open
  PROVE  UNCHANGED (Ledger(o)!ledger)
<1>1. Taken(o)' = Taken(o) BY DEF Taken, Revision
<1>2. Outcome(o)' = Outcome(o)
  <2>1. CASE claim'[o].status = claim[o].status BY <2>1 DEF Outcome, Open
  <2>2. CASE claim[o].status \in Open /\ claim'[o].status \in Open
    BY <2>2, OutcomeIs, OutcomeNext
  <2>3. QED BY <2>1, <2>2
<1>3. QED BY <1>1, <1>2 DEF Ledger!ledger

LEMMA LedgerBegins ==
  ASSUME Init, NEW o \in Catalogued PROVE Ledger(o)!Init
<1>1. CommandsInv BY InitCommands
<1>2. AskedInv /\ TypeInv /\ ClaimInv /\ LedgerInv
  BY <1>1 DEF CommandsInv, TypeInv, StoreInv, CatalogueInv
<1>3. o \in Operations BY DEF Catalogued
<1>4. claim[o] \in ClaimRecords BY <1>2, <1>3 DEF TypeInv, RecordTypes
<1>5. claim[o].status \in {"none", "accepted"}
  <2>1. PICK s \in Scenarios :
          claim = [p \in Operations |->
            IF \E c \in s.done : Operation(c) = p
            THEN [command |-> CHOOSE c \in s.done : Operation(c) = p, status |-> "accepted"]
            ELSE Unclaimed]
    BY DEF Init
  <2>2. PICK D : \A p \in Operations :
          claim[p] = IF \E c \in D : Operation(c) = p
                     THEN [command |-> CHOOSE c \in D : Operation(c) = p, status |-> "accepted"]
                     ELSE Unclaimed
    BY <2>1
  <2>3. PICK h, n : h = claim[o] /\ n = CHOOSE c \in D : Operation(c) = o OBVIOUS
  <2>4. h = [command |-> n, status |-> "accepted"] \/ h = Unclaimed BY <1>3, <2>2, <2>3
  <2>5. h.status = "accepted" \/ h.status = "none" BY <2>4 DEF Unclaimed
  <2>6. QED BY <2>3, <2>5
<1>6. Outcome(o) = "granted" BY <1>5, OutcomeIs
<1>7. Taken(o) \in Revisions \cup {0} /\ Shown(o) = Taken(o)
  <2>1. CASE claim[o].status = "none"
    <3>1. claim[o].command = NoCommand BY <1>2, <1>3, <2>1 DEF ClaimInv
    <3>2. Taken(o) = 0 BY <3>1 DEF Taken
    <3>3. Shown(o) = 0 BY <1>2, <2>1 DEF LedgerInv, Shown
    <3>4. QED BY <3>2, <3>3
  <2>2. CASE claim[o].status = "accepted"
    <3>1. claim[o].command # NoCommand BY <1>2, <1>3, <2>2 DEF ClaimInv
    <3>2. PICK h \in DOMAIN asked : claim[o].command = h BY <1>4, <3>1 DEF ClaimRecords
    <3>3. Taken(o) = Revision(h) /\ Revision(h) \in Revisions BY <1>2, <3>2, TakenIs
    <3>4. Shown(o) = Revision(h) BY <1>2, <2>2, <3>2 DEF LedgerInv, Shown
    <3>5. QED BY <3>3, <3>4
  <2>3. QED BY <1>5, <2>1, <2>2
<1>8. QED BY <1>6, <1>7 DEF Ledger!Init

LEMMA LedgerMoves ==
  ASSUME CommandsInv, [Next]_commandVars, NEW o \in Catalogued
  PROVE  UNCHANGED (Ledger(o)!ledger) \/ Ledger(o)!Next
<1>1. /\ AskedInv /\ TypeInv /\ StoreInv /\ ClaimInv /\ LedgerInv /\ MappingInv /\ PlanInv
      /\ RecordedInv
  BY DEF CommandsInv, TypeInv, StoreInv, CatalogueInv
<1>2. o \in Operations /\ o[2] # "mutation" BY DEF Catalogued
<1>3. claim \in [Operations -> ClaimRecords] BY <1>1 DEF TypeInv, RecordTypes
<1>4. CASE UNCHANGED <<asked, claim, mapping>> BY <1>4, LedgerStutters DEF Shown
<1>5. CASE \E w \in Workers, c \in sent : Start(w, c)
  <2>1. PICK w \in Workers, c \in sent : Start(w, c) BY <1>5
  <2>2. c \in DOMAIN asked BY <1>1 DEF AskedInv
  <2>3. PICK p, x : p = Operation(c) /\ x = [command |-> c, status |-> "pending"] OBVIOUS
  <2>4. claim' = [claim EXCEPT ![p] = x] /\ UNCHANGED <<asked, mapping>> /\ Claimable(c)
    BY <2>1, <2>3 DEF Start
  <2>5. Shown(o)' = Shown(o) BY <2>4 DEF Shown
  <2>6. CASE o # p
    <3>1. claim'[o] = claim[o] BY <1>2, <1>3, <2>4, <2>6
    <3>2. QED BY <2>4, <2>5, <3>1, LedgerStutters
  <2>7. CASE o = p
    <3>1. x.command = c /\ x.status = "pending" BY <2>3
    <3>2. claim'[o].command = c /\ claim'[o].status = "pending"
      BY <1>2, <1>3, <2>4, <2>7, <3>1
    <3>3. Outcome(o)' = "open" BY <3>2, OutcomeNext DEF Open
    <3>4. Taken(o)' = Revision(c) /\ Revision(c) \in Revisions
      BY <1>1, <2>2, <2>4, <3>2, TakenIs
    <3>5. Outcome(o) = "granted" /\ Taken(o) < Revision(c)
      <4>1. Revision(c) \in Nat \ {0} BY <1>1, <2>2, AskedRead
      <4>2. CASE claim[o].command = NoCommand
        <5>1. claim[o].status = "none" BY <1>1, <1>2, <4>2 DEF ClaimInv
        <5>2. Taken(o) = 0 BY <4>2 DEF Taken
        <5>3. QED BY <4>1, <5>1, <5>2, OutcomeIs
      <4>3. CASE claim[o].command # NoCommand
        <5>1. PICK h \in DOMAIN asked : claim[o].command = h
          BY <1>2, <1>3, <4>3 DEF ClaimRecords
        <5>2. Revision(h) < Revision(c) /\ claim[o].status = "accepted"
          BY <1>1, <2>2, <2>3, <2>4, <2>7, <5>1, ClaimableIsNew
        <5>3. Taken(o) = Revision(h) BY <1>1, <5>1, TakenIs
        <5>4. QED BY <5>2, <5>3, OutcomeIs
      <4>4. QED BY <4>2, <4>3
    <3>6. Taken(o)' \in {r \in Revisions : r > Taken(o)}
      <4>1. Taken(o) \in Int
        <5>1. CASE claim[o].command = NoCommand BY <5>1 DEF Taken
        <5>2. CASE claim[o].command # NoCommand
          <6>1. PICK h \in DOMAIN asked : claim[o].command = h
            BY <1>2, <1>3, <5>2 DEF ClaimRecords
          <6>2. QED BY <1>1, <6>1, TakenIs, AskedRead
        <5>3. QED BY <5>1, <5>2
      <4>2. Revision(c) \in Nat BY <1>1, <2>2, AskedRead
      <4>3. QED BY <3>4, <3>5, <4>1, <4>2
    <3>7. Ledger(o)!Take BY <2>5, <3>3, <3>5, <3>6 DEF Ledger!Take
    <3>8. QED BY <3>7 DEF Ledger!Next
  <2>8. QED BY <2>6, <2>7
<1>6. CASE \E w \in Workers : Transition(w)
  <2>1. PICK w \in Workers : Transition(w) BY <1>6
  <2>2. PICK c, t : c = run[w].command /\ t = Target[run[w].pc] OBVIOUS
  <2>3. run[w].pc \in {"refuse", "review", "unsure"} BY <2>1 DEF Transition, Target
  <2>4. t \in {"rejected", "needs_review", "unknown"} BY <2>2, <2>3 DEF Target
  <2>5. c \in DOMAIN asked BY <1>1, <2>2, <2>3, RunRead
  <2>6. UNCHANGED <<asked, mapping>> BY <2>1 DEF Transition
  <2>7. Shown(o)' = Shown(o) BY <2>6 DEF Shown
  <2>8. CASE ~StillOpen(c)
    <3>1. UNCHANGED claim BY <2>1, <2>2, <2>8 DEF Transition
    <3>2. QED BY <1>4, <2>6, <3>1
  <2>9. CASE StillOpen(c)
    <3>1. SetStatus(c, t) BY <2>1, <2>2, <2>9 DEF Transition
    <3>2. PICK p : p = Operation(c) OBVIOUS
    <3>3. /\ claim'[p].command = c /\ claim'[p].status = t
          /\ \A q \in Operations \ {p} : claim'[q] = claim[q]
      BY <1>1, <2>5, <2>9, <3>1, <3>2, StatusSet
    <3>4. claim[p].command = c /\ claim[p].status \in Open BY <2>9, <3>2 DEF StillOpen
    <3>5. CASE o # p
      <4>1. claim'[o] = claim[o] BY <1>2, <3>3, <3>5
      <4>2. QED BY <2>6, <2>7, <4>1, LedgerStutters
    <3>6. CASE o = p /\ t = "unknown"
      BY <2>6, <2>7, <3>3, <3>4, <3>6, LedgerStutters DEF Open
    <3>7. CASE o = p /\ t # "unknown"
      <4>1. Outcome(o) = "open" BY <3>4, <3>7, OutcomeIs
      <4>2. Outcome(o)' = "refused" BY <2>4, <3>3, <3>7, OutcomeNext
      <4>3. Taken(o)' = Taken(o) BY <1>1, <2>5, <2>6, <3>3, <3>4, <3>7, TakenIs
      <4>4. Ledger(o)!Refuse BY <2>7, <4>1, <4>2, <4>3 DEF Ledger!Refuse
      <4>5. QED BY <4>4 DEF Ledger!Next
    <3>8. QED BY <3>5, <3>6, <3>7
  <2>10. QED BY <2>8, <2>9
<1>7. CASE \E a \in Checkouts : BindCheckout(a)
  <2>1. PICK a \in Checkouts : BindCheckout(a) BY <1>7
  <2>2. PICK m, x : m = mapping[a] /\ x = [m EXCEPT !.linked = TRUE] OBVIOUS
  <2>3. mapping \in [Resources -> MappingRecords] /\ a \in Resources
    BY <1>1 DEF TypeInv, RecordTypes, Resources
  <2>4. mapping' = [mapping EXCEPT ![a] = x] /\ UNCHANGED <<asked, claim>>
    BY <2>1, <2>2 DEF BindCheckout
  <2>5. \A d \in Dimensions : x[d] = m[d]
    <3>1. m \in MappingRecords BY <2>2, <2>3
    <3>2. x.immutable = m.immutable /\ x.presentation = m.presentation
          /\ x.lifecycle = m.lifecycle
      BY <2>2, <3>1 DEF MappingRecords
    <3>3. QED BY <3>2 DEF Dimensions
  <2>6. PICK d \in DOMAIN asked : o = Operation(d) BY <1>2 DEF Operations
  <2>7. o[2] = Dimension(d) BY <2>6 DEF Operation
  <2>8. o[1] \in Resources /\ o[2] \in Dimensions
    <3>1. Dimension(d) # "mutation" BY <1>2, <2>7
    <3>2. QED BY <1>1, <3>1, CataloguedIs
  <2>9. Shown(o)' = Shown(o) BY <2>2, <2>3, <2>4, <2>5, <2>8 DEF Shown
  <2>10. QED BY <2>4, <2>9, LedgerStutters
<1>8. CASE \E w \in Workers : Complete(w)
  <2>1. PICK w \in Workers : Complete(w) BY <1>8
  <2>2. PICK c, next, M : c = run[w].command /\ next = run[w].next /\ M = mapping' OBVIOUS
  <2>3. run[w].pc = "record" /\ asked' = asked BY <2>1 DEF Complete
  <2>4. c \in DOMAIN asked /\ next \in Nexts BY <1>1, <2>2, <2>3, RunRead
  <2>5. CASE ~Completable(c, next)
    <3>1. UNCHANGED <<claim, mapping>> BY <2>1, <2>2, <2>5 DEF Complete
    <3>2. QED BY <1>4, <2>3, <3>1
  <2>6. CASE Completable(c, next)
    <3>1. SetStatus(c, "accepted") /\ M = Completed(c, next)
      BY <2>1, <2>2, <2>6 DEF Complete, Completed
    <3>2. PlanShape(c, next)
      <4>1. PlanFits(c, "record", next) BY <1>1, <2>2, <2>3, <2>4 DEF PlanInv, Pcs
      <4>2. QED BY <4>1 DEF PlanFits
    <3>3. /\ DOMAIN next = {} => M = mapping
          /\ DOMAIN next # {} => M[On(c)][Dimension(c)] = Revision(c)
      BY ONLY <1>1, <2>4, <2>6, <3>1, <3>2, CompletionWrites
    <3>4. \A r \in Resources \ {Configuration}, d \in Dimensions :
            M[r][d] = mapping[r][d] \/ (r = On(c) /\ d = Dimension(c))
      BY ONLY <1>1, <2>4, <2>6, <3>1, <3>2, CompletionAdvances
    <3>5. StillOpen(c) BY <2>6 DEF Completable
    <3>6. PICK p : p = Operation(c) OBVIOUS
    <3>7. /\ claim'[p].command = c /\ claim'[p].status = "accepted"
          /\ \A q \in Operations \ {p} : claim'[q] = claim[q]
      BY <1>1, <2>4, <3>1, <3>5, <3>6, StatusSet
    <3>8. claim[p].command = c /\ claim[p].status \in Open BY <3>5, <3>6 DEF StillOpen
    <3>9. PICK e \in DOMAIN asked : o = Operation(e) BY <1>2 DEF Operations
    <3>10. Dimension(e) # "mutation" BY <1>2, <3>9 DEF Operation
    <3>11. CASE o # p
      <4>1. claim'[o] = claim[o] BY <1>2, <3>7, <3>11
      <4>2. o[1] \in Resources \ {Configuration} /\ o[2] \in Dimensions
        BY <1>1, <3>9, <3>10, CataloguedIs
      <4>3. ~(o[1] = On(c) /\ o[2] = Dimension(c))
        BY <1>1, <1>2, <2>4, <3>6, <3>11, CataloguedIs
      <4>4. Shown(o)' = Shown(o) BY <2>2, <3>4, <4>2, <4>3 DEF Shown
      <4>5. QED BY <2>3, <4>1, <4>4, LedgerStutters
    <3>12. CASE o = p
      <4>1. o[1] = On(c) /\ o[2] = Dimension(c) /\ Dimension(c) # "mutation"
        BY <1>2, <3>6, <3>12 DEF Operation
      <4>2. Outcome(o) = "open" BY <3>8, <3>12, OutcomeIs
      <4>3. Outcome(o)' = "granted" BY <3>7, <3>12, OutcomeNext
      <4>4. Taken(o) = Revision(c) /\ Taken(o)' = Taken(o)
        BY <1>1, <2>3, <2>4, <3>7, <3>8, <3>12, TakenIs
      <4>5. Shown(o)' = Revision(c)
        <5>1. DOMAIN next # {}
          <6>1. claim[o].status # "accepted" BY <3>8, <3>12 DEF Open
          <6>2. mapping[On(c)][Dimension(c)] < Revision(c)
            BY <1>1, <2>4, <3>8, <3>12, <4>1, <6>1 DEF LedgerInv
          <6>3. mapping[On(c)] \in MappingRecords /\ Dimension(c) \in Dimensions
                /\ Revision(c) \in Nat
            BY <1>1, <2>4, <4>1, AskedRead, Dimensioned DEF TypeInv, RecordTypes
          <6>4. mapping[On(c)][Dimension(c)] \in Nat
            BY <6>3 DEF MappingRecords, Dimensions
          <6>5. SUFFICES ASSUME DOMAIN next = {} PROVE FALSE OBVIOUS
          <6>6. mapping[On(c)][Dimension(c)] >= Revision(c) BY <3>2, <4>1, <6>5 DEF PlanShape
          <6>7. PICK x, n : x = mapping[On(c)][Dimension(c)] /\ n = Revision(c) OBVIOUS
          <6>8. x \in Nat /\ n \in Nat /\ x < n /\ x >= n BY <6>2, <6>3, <6>4, <6>6, <6>7
          <6>9. QED BY <6>8
        <5>2. QED BY <2>2, <3>3, <4>1, <5>1 DEF Shown
      <4>6. Ledger(o)!Grant BY <4>2, <4>3, <4>4, <4>5 DEF Ledger!Grant
      <4>7. QED BY <4>6 DEF Ledger!Next
    <3>13. QED BY <3>11, <3>12
  <2>7. QED BY <2>5, <2>6
<1>9. \/ UNCHANGED <<asked, claim, mapping>>
      \/ \E w \in Workers, c \in sent : Start(w, c)
      \/ \E w \in Workers : Transition(w) \/ Complete(w)
      \/ \E a \in Checkouts : BindCheckout(a)
  BY DEF Next, Invocation, Clock, Resume, Perform, CallStripe, Crash, Replay, Age, Forget,
         Expire, Project, commandVars
<1>10. QED BY <1>4, <1>5, <1>6, <1>7, <1>8, <1>9

\* The store implements the ledger of every operation of the catalogue: commands
\* are taken one at a time in the order of their revisions, and a revision is
\* shown in the very step that accepts its command.
THEOREM CommandsImplementLedger == Spec => ImplementsLedger
<1>1. Init => \A o \in Catalogued : Ledger(o)!Init BY LedgerBegins
<1>2. CommandsInv /\ [Next]_commandVars =>
        [\A o \in Catalogued : UNCHANGED (Ledger(o)!ledger) \/ Ledger(o)!Next]_commandVars
  BY LedgerMoves
<1>3. QED BY <1>1, <1>2, CommandsInductive, PTL DEF Spec, ImplementsLedger
==============================================================================
