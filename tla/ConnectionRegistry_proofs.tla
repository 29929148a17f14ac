----------------------- MODULE ConnectionRegistry_proofs -----------------------
(***************************************************************************)
(* The registry's invariants, for every number of connections, accounts    *)
(* and visits, in three inductive invariants.  RegistryInv types what an   *)
(* onboarding and a revocation under way carry and gives SentinelsAgree.   *)
(* FreshInv adds what a visit may still conclude when the revision it      *)
(* carries is the connection's current one.  IsolationHeld is about SMTP.  *)
(***************************************************************************)
EXTENDS ConnectionRegistry, TLAPS

\* What RegistryTypeOK says of one visit and of the connections' records.
VisitRecords ==
  [pc : Running \cup {"none", "issued", "activated", "ended"},
   connection : Stripe \cup {NoConnection}, revision : Nat,
   account : Accounts \cup {NoAccount}, outdated : BOOLEAN]
RecordsTyped ==
  conn \in [Connections ->
    [status : {"unregistered", "pending", "active", "disabled"},
     revision : Nat, account : Accounts \cup {NoAccount},
     ready : BOOLEAN, credential : Credentials \cup {NoCredential}]]

\* A visit that has started has a Stripe connection, and one that comes to a
\* binding has an account.
VisitShape ==
  \A t \in Tokens :
    /\ visit[t].pc # "none" => visit[t].connection \in Stripe
    /\ visit[t].pc \in {"binding", "exchanged"} => visit[t].account \in Accounts

\* So does a deauthorize invocation.
RevocationShape ==
  revocation.pc = "revoked" =>
    revocation.connection \in Stripe /\ revocation.account \in Accounts

RegistryInv == RegistryTypeOK /\ VisitShape /\ RevocationShape /\ SentinelsAgree

-----------------------------------------------------------------------------
(* The changes of the record and of the sentinel *)

\* A step that gives no connection another account, and moves no sentinel,
\* keeps the two in agreement.
LEMMA AccountsKept ==
  ASSUME SentinelsAgree, UNCHANGED claim,
         \A c \in Stripe : conn'[c].account = conn[c].account
  PROVE  SentinelsAgree'
BY DEF SentinelsAgree

\* bind_stripe_account puts the sentinel of a free account and the account of a
\* connection that has none.
LEMMA BindingAgrees ==
  ASSUME RegistryTypeOK, SentinelsAgree, RegistryAssumption,
         NEW c \in Stripe, NEW a \in Accounts, NEW r,
         CanBind(c, a, r), BindAccount(c, a)
  PROVE  /\ SentinelsAgree'
         /\ RecordsTyped'
         /\ claim' \in [Accounts -> Stripe \cup {NoConnection}]
         /\ unbound' \in SUBSET Stripe
<1> USE DEF RegistryTypeOK, CanBind, BindAccount
<1>1. RecordsTyped'
  BY DEF RecordsTyped, Connections
<1>2. claim' \in [Accounts -> Stripe \cup {NoConnection}] /\ unbound' \in SUBSET Stripe
  OBVIOUS
<1>3. ASSUME NEW b \in Accounts, NEW d \in Stripe
      PROVE  (claim[b] = d <=> conn[d].account = b)'
  <2>1. conn'[d].account = IF d = c THEN a ELSE conn[d].account
    BY DEF Connections
  <2>2. claim'[b] = IF b = a THEN c ELSE claim[b]
    OBVIOUS
  <2>3. (claim[b] = d <=> conn[d].account = b) /\ (claim[a] = d <=> conn[d].account = a)
    BY DEF SentinelsAgree
  <2>4. a # NoAccount /\ b # NoAccount /\ d # NoConnection
    BY DEF RegistryAssumption, Connections
  <2>5. QED BY <2>1, <2>2, <2>3, <2>4
<1>4. SentinelsAgree'
  BY <1>3 DEF SentinelsAgree
<1>5. QED BY <1>1, <1>2, <1>4

\* disable_stripe_account takes both away, and nobody else held the account.
LEMMA DisablingAgrees ==
  ASSUME RegistryTypeOK, SentinelsAgree, RegistryAssumption,
         NEW c \in Stripe, NEW a \in Accounts, NEW r,
         CanDisableAccount(c, a, r), DisableAccount(c, a)
  PROVE  /\ SentinelsAgree'
         /\ RecordsTyped'
         /\ claim' \in [Accounts -> Stripe \cup {NoConnection}]
         /\ lost' \in SUBSET Stripe
<1> USE DEF RegistryTypeOK, CanDisableAccount, DisableAccount
<1>1. RecordsTyped'
  BY DEF RecordsTyped, Connections
<1>2. claim' \in [Accounts -> Stripe \cup {NoConnection}] /\ lost' \in SUBSET Stripe
  OBVIOUS
<1>3. ASSUME NEW b \in Accounts, NEW d \in Stripe
      PROVE  (claim[b] = d <=> conn[d].account = b)'
  <2>1. conn'[d].account = IF d = c THEN NoAccount ELSE conn[d].account
    BY DEF Connections
  <2>2. claim'[b] = IF b = a THEN NoConnection ELSE claim[b]
    OBVIOUS
  <2>3. (claim[b] = d <=> conn[d].account = b) /\ (claim[a] = d <=> conn[d].account = a)
    BY DEF SentinelsAgree
  <2>4. a # NoAccount /\ b # NoAccount /\ d # NoConnection
    BY DEF RegistryAssumption, Connections
  <2>5. QED BY <2>1, <2>2, <2>3, <2>4
<1>4. SentinelsAgree'
  BY <1>3 DEF SentinelsAgree
<1>5. QED BY <1>1, <1>2, <1>4

\* An operator's change marks the visits it overtakes and leaves them as they are.
LEMMA OutdatingKeeps ==
  ASSUME RegistryTypeOK, VisitShape, NEW c, visit' = Outdate(c)
  PROVE  /\ VisitShape'
         /\ visit' \in [Tokens ->
              VisitRecords]
<1> USE DEF RegistryTypeOK, Outdate, VisitRecords
<1>1. ASSUME NEW t \in Tokens
      PROVE  /\ visit'[t].pc = visit[t].pc
             /\ visit'[t].connection = visit[t].connection
             /\ visit'[t].account = visit[t].account
  OBVIOUS
<1>2. ASSUME NEW t \in Tokens PROVE visit'[t] \in VisitRecords
  <2>1. visit[t] \in VisitRecords
    OBVIOUS
  <2>2. [visit[t] EXCEPT !.outdated = TRUE] \in VisitRecords
    BY <2>1
  <2>3. QED BY <2>1, <2>2
<1>3. visit' \in [Tokens -> VisitRecords]
  BY <1>2
<1>4. QED BY <1>1, <1>3 DEF VisitShape

\* A step of one visit types it if the new record is typed, and keeps the
\* shape of all if the new record has it.
LEMMA VisitMoves ==
  ASSUME RegistryTypeOK, VisitShape, NEW t \in Tokens,
         NEW v \in VisitRecords,
         visit' = [visit EXCEPT ![t] = v],
         v.pc # "none" => v.connection \in Stripe,
         v.pc \in {"binding", "exchanged"} => v.account \in Accounts
  PROVE  /\ VisitShape'
         /\ visit' \in [Tokens ->
              VisitRecords]
BY DEF VisitShape, RegistryTypeOK, VisitRecords

\* A connection that reads as started names a Stripe connection.
LEMMA VisitRead ==
  ASSUME RegistryTypeOK, VisitShape, NEW t \in Tokens
  PROVE  /\ visit[t] \in VisitRecords
         /\ visit[t].pc # "none" => visit[t].connection \in Stripe
         /\ visit[t].pc \in {"binding", "exchanged"} => visit[t].account \in Accounts
BY DEF VisitShape, RegistryTypeOK, VisitRecords

-----------------------------------------------------------------------------
(* Operators, deauthorisation and SMTP *)

LEMMA RegisterInv ==
  ASSUME RegistryInv, NEW c \in Connections, Register(c) PROVE RegistryInv'
<1> USE DEF RegistryInv, Register
<1>1. RecordsTyped'
  <2> DEFINE r == [conn[c] EXCEPT !.status = "pending", !.revision = 1]
  <2>1. RecordsTyped BY DEF RegistryTypeOK, RecordsTyped
  <2>2. conn' = [conn EXCEPT ![c] = r] OBVIOUS
  <2>3. r \in [status : {"unregistered", "pending", "active", "disabled"},
              revision : Nat, account : Accounts \cup {NoAccount},
              ready : BOOLEAN, credential : Credentials \cup {NoCredential}]
    BY <2>1 DEF RecordsTyped
  <2> HIDE DEF r, Register, RegistryInv
  <2>4. QED BY <2>1, <2>2, <2>3 DEF RecordsTyped
<1>2. \A d \in Stripe : conn'[d].account = conn[d].account
  BY DEF RegistryTypeOK, Connections
<1>3. SentinelsAgree' BY <1>2, AccountsKept
<1>4. RegistryTypeOK' BY <1>1 DEF RegistryTypeOK, RecordsTyped
<1>5. VisitShape' /\ RevocationShape' BY DEF VisitShape, RevocationShape
<1>6. QED BY <1>3, <1>4, <1>5

\* A change of status alone.
LEMMA StatusMoves ==
  ASSUME RegistryTypeOK, SentinelsAgree, NEW c \in Stripe,
         NEW s \in {"pending", "disabled"}, UpdateStatus(c, s), UNCHANGED claim
  PROVE  RecordsTyped' /\ SentinelsAgree'
<1> USE DEF UpdateStatus
<1>1. RecordsTyped' BY DEF RegistryTypeOK, RecordsTyped, Connections
<1>2. \A d \in Stripe : conn'[d].account = conn[d].account
  BY DEF RegistryTypeOK, Connections
<1>3. SentinelsAgree' BY <1>2, AccountsKept
<1>4. QED BY <1>1, <1>3

LEMMA DisableInv ==
  ASSUME RegistryInv, RegistryAssumption, NEW c \in Stripe, Disable(c)
  PROVE  RegistryInv'
<1> USE DEF RegistryInv
<1>1. VisitShape' /\ visit' \in [Tokens -> VisitRecords]
  BY OutdatingKeeps DEF Disable
<1>2. RevocationShape' BY DEF Disable, RevocationShape
<1>3. /\ SentinelsAgree' /\ RecordsTyped'
      /\ claim' \in [Accounts -> Stripe \cup {NoConnection}]
      /\ lost' \in SUBSET Stripe
  <2>1. CASE /\ conn[c].account = NoAccount
             /\ UpdateStatus(c, "disabled")
             /\ UNCHANGED <<claim, lost>>
    BY <2>1, StatusMoves DEF RegistryTypeOK
  <2>2. CASE /\ CanDisableAccount(c, conn[c].account, conn[c].revision)
             /\ DisableAccount(c, conn[c].account)
    <3>1. conn[c].account \in Accounts
      BY <2>2 DEF CanDisableAccount, RegistryTypeOK, Connections
    <3>2. QED BY <2>2, <3>1, DisablingAgrees
  <2>3. QED BY <2>1, <2>2 DEF Disable
<1>4. RegistryTypeOK'
  BY <1>1, <1>3 DEF Disable, RegistryTypeOK, RecordsTyped, VisitRecords
<1>5. QED BY <1>1, <1>2, <1>3, <1>4

LEMMA RequestReconnectInv ==
  ASSUME RegistryInv, NEW c \in Stripe, RequestReconnect(c) PROVE RegistryInv'
<1> USE DEF RegistryInv, RequestReconnect
<1>1. VisitShape' /\ visit' \in [Tokens -> VisitRecords] BY OutdatingKeeps
<1>2. RecordsTyped' /\ SentinelsAgree' BY StatusMoves
<1>3. RegistryTypeOK'
  BY <1>1, <1>2 DEF RegistryTypeOK, RecordsTyped, VisitRecords
<1>4. RevocationShape' BY DEF RevocationShape
<1>5. QED BY <1>1, <1>2, <1>3, <1>4

LEMMA RevokeInv ==
  ASSUME RegistryInv, NEW c \in Stripe, Revoke(c) PROVE RegistryInv'
<1> USE DEF RegistryInv, Revoke
<1>1. conn[c].account \in Accounts /\ conn[c].revision \in Nat
  BY DEF RegistryTypeOK, Connections
<1>2. RevocationShape' BY <1>1 DEF RevocationShape
<1>3. granted' \in SUBSET Accounts BY DEF RegistryTypeOK
<1>4. RegistryTypeOK' BY <1>1, <1>3 DEF RegistryTypeOK
<1>5. SentinelsAgree' /\ VisitShape' BY DEF SentinelsAgree, VisitShape
<1>6. QED BY <1>2, <1>4, <1>5

LEMMA FinishRevocationInv ==
  ASSUME RegistryInv, RegistryAssumption, FinishRevocation PROVE RegistryInv'
<1> USE DEF RegistryInv
<1>1. RevocationShape' /\ revocation' = NoRevocation
  BY DEF FinishRevocation, RevocationShape, NoRevocation
<1>2. UNCHANGED <<unbound, isolation, granted, made>> BY DEF FinishRevocation
<1>3. revocation.connection \in Stripe /\ revocation.account \in Accounts
  BY DEF FinishRevocation, RevocationShape
<1>4. /\ SentinelsAgree' /\ RecordsTyped' /\ VisitShape'
      /\ claim' \in [Accounts -> Stripe \cup {NoConnection}]
      /\ lost' \in SUBSET Stripe
      /\ visit' \in [Tokens -> VisitRecords]
  <2>1. CASE UNCHANGED <<conn, claim, lost, visit>>
    BY <2>1 DEF SentinelsAgree, RecordsTyped, VisitShape, RegistryTypeOK, VisitRecords
  <2>2. CASE /\ CanDisableAccount(revocation.connection, revocation.account, revocation.revision)
             /\ DisableAccount(revocation.connection, revocation.account)
             /\ visit' = Outdate(revocation.connection)
    BY <1>3, <2>2, DisablingAgrees, OutdatingKeeps
  <2>3. QED BY <2>1, <2>2 DEF FinishRevocation
<1>5. RegistryTypeOK'
  BY <1>1, <1>2, <1>4 DEF RegistryTypeOK, RecordsTyped, VisitRecords, NoRevocation
<1>6. QED BY <1>1, <1>4, <1>5

LEMMA ActivateSmtpInv ==
  ASSUME RegistryInv, NEW c \in Smtp, NEW k \in Credentials, ActivateSmtp(c, k)
  PROVE  RegistryInv'
<1> USE DEF RegistryInv, ActivateSmtp, ActivateWith
<1>1. RecordsTyped' BY DEF RegistryTypeOK, RecordsTyped, Connections
<1>2. \A d \in Stripe : conn'[d].account = conn[d].account
  BY DEF RegistryTypeOK, Connections
<1>3. SentinelsAgree' BY <1>2, AccountsKept
<1>4. RegistryTypeOK' BY <1>1 DEF RegistryTypeOK, RecordsTyped
<1>5. VisitShape' /\ RevocationShape' BY DEF VisitShape, RevocationShape
<1>6. QED BY <1>3, <1>4, <1>5

-----------------------------------------------------------------------------
(* Onboarding *)

\* A step that moves one visit and, of the registry, at most what Stripe holds.
LEMMA VisitOnly ==
  ASSUME RegistryInv, VisitShape', visit' \in [Tokens -> VisitRecords],
         granted' \in SUBSET Accounts, made' \in [Controller -> SUBSET Accounts],
         UNCHANGED <<conn, claim, unbound, revocation, lost>>
  PROVE  RegistryInv'
BY DEF RegistryInv, RegistryTypeOK, VisitRecords, RevocationShape, SentinelsAgree

LEMMA OnboardingInv ==
  ASSUME RegistryInv, RegistryAssumption, NEW t \in Tokens, Onboarding(t)
  PROVE  RegistryInv'
<1> DEFINE v == visit[t]
           visited == VisitShape' /\ visit' \in [Tokens -> VisitRecords]
<1>0. /\ RegistryTypeOK /\ VisitShape /\ SentinelsAgree
      /\ v \in VisitRecords
      /\ v.pc # "none" => v.connection \in Stripe
      /\ v.pc \in {"binding", "exchanged"} => v.account \in Accounts
      /\ granted \in SUBSET Accounts /\ made \in [Controller -> SUBSET Accounts]
  BY VisitRead DEF RegistryInv, RegistryTypeOK
<1>1. ASSUME NEW c \in Stripe, NEW p \in {"issued", "creating", "returned"},
             Visit(t, c, p)
      PROVE  visited
  <2>1. conn[c].revision \in Nat /\ conn[c].account \in Accounts \cup {NoAccount}
    BY <1>0 DEF RegistryTypeOK, Connections
  <2>2. QED BY <1>0, <1>1, <2>1, VisitMoves DEF Visit, VisitRecords, Running
<1>2. ASSUME NEW p \in {"issued", "bound", "activated", "ended"},
             v.pc # "none", visit' = [visit EXCEPT ![t].pc = p]
      PROVE  visited
  <2>1. visit' = [visit EXCEPT ![t] = [v EXCEPT !.pc = p]]
    BY <1>2
  <2>2. /\ [v EXCEPT !.pc = p] \in VisitRecords
        /\ [v EXCEPT !.pc = p].connection \in Stripe
        /\ [v EXCEPT !.pc = p].pc = p
    BY <1>0, <1>2 DEF VisitRecords, Running
  <2>3. QED BY <1>0, <2>1, <2>2, VisitMoves
<1>3. CASE \E c \in OAuth : StartOAuth(t, c)
  BY <1>0, <1>1, <1>3, VisitOnly DEF StartOAuth, Stripe
<1>4. CASE \E c \in Controller : StartController(t, c)
  BY <1>0, <1>1, <1>4, VisitOnly DEF StartController, Stripe
<1>5. ASSUME NEW a \in Accounts, CreateAccount(t, a) PROVE RegistryInv'
  <2> DEFINE w == [v EXCEPT !.pc = "binding", !.account = a]
  <2>1. visit' = [visit EXCEPT ![t] = w]
    BY <1>5 DEF CreateAccount
  <2>2. w \in VisitRecords /\ w.connection \in Stripe /\ w.account \in Accounts
    BY <1>0, <1>5 DEF CreateAccount, VisitRecords, Running
  <2>3. visited BY <1>0, <2>1, <2>2, VisitMoves
  <2>4. made' \in [Controller -> SUBSET Accounts]
    BY <1>0, <1>5 DEF CreateAccount
  <2>5. QED BY <1>0, <1>5, <2>3, <2>4, VisitOnly DEF CreateAccount
<1>6. ASSUME NEW a \in Accounts, ExchangeCode(t, a) PROVE RegistryInv'
  <2> DEFINE w == [v EXCEPT !.pc = "exchanged", !.account = a]
  <2>1. visit' = [visit EXCEPT ![t] = w]
    BY <1>6 DEF ExchangeCode
  <2>2. w \in VisitRecords /\ w.connection \in Stripe /\ w.account \in Accounts
    BY <1>0, <1>6 DEF ExchangeCode, VisitRecords, Running
  <2>3. visited BY <1>0, <2>1, <2>2, VisitMoves
  <2>4. granted' \in SUBSET Accounts BY <1>0, <1>6 DEF ExchangeCode
  <2>5. QED BY <1>0, <1>6, <2>3, <2>4, VisitOnly DEF ExchangeCode
<1>7. ASSUME visited, UNCHANGED <<revocation, granted, made, lost>>,
             \/ UNCHANGED <<conn, unbound, claim>>
             \/ /\ v.pc \in {"binding", "exchanged"}
                /\ CanBind(v.connection, v.account, v.revision)
                /\ BindAccount(v.connection, v.account)
      PROVE  RegistryInv'
  <2>1. CASE UNCHANGED <<conn, unbound, claim>>
    BY <1>0, <1>7, <2>1, VisitOnly
  <2>2. CASE /\ v.pc \in {"binding", "exchanged"}
             /\ CanBind(v.connection, v.account, v.revision)
             /\ BindAccount(v.connection, v.account)
    <3>1. /\ SentinelsAgree' /\ RecordsTyped' /\ unbound' \in SUBSET Stripe
          /\ claim' \in [Accounts -> Stripe \cup {NoConnection}]
      BY <1>0, <2>2, BindingAgrees
    <3>2. QED
      BY <1>7, <3>1 DEF RegistryInv, RegistryTypeOK, RecordsTyped, VisitRecords, RevocationShape
  <2>3. QED BY <1>7, <2>1, <2>2
<1>8. CASE BindController(t)
  BY <1>0, <1>2, <1>7, <1>8 DEF BindController
<1>9. CASE Return(t)
  BY <1>0, <1>1, <1>9, VisitOnly DEF Return
<1>10. CASE BindOAuth(t)
  <2>1. v.pc = "exchanged" /\ UNCHANGED <<revocation, granted, made, lost>>
    BY <1>10 DEF BindOAuth
  <2>2. CASE CanBind(v.connection, v.account, v.revision)
    <3> DEFINE w == [v EXCEPT !.pc = "bound", !.revision = @ + 1]
    <3>1. visit' = [visit EXCEPT ![t] = w] /\ BindAccount(v.connection, v.account)
      BY <1>10, <2>2 DEF BindOAuth
    <3>2. w \in VisitRecords /\ w.connection \in Stripe /\ w.pc = "bound"
      <4>1. v \in VisitRecords /\ v.connection \in Stripe
        BY <1>0, <2>1
      <4> HIDE DEF v
      <4>2. v.revision + 1 \in Nat
        BY <4>1 DEF VisitRecords
      <4>3. QED BY <4>1, <4>2 DEF VisitRecords, Running
    <3> HIDE DEF w
    <3>3. visited BY <1>0, <3>1, <3>2, VisitMoves
    <3>4. QED BY <1>7, <2>1, <2>2, <3>1, <3>3
  <2>3. CASE ~CanBind(v.connection, v.account, v.revision)
    BY <1>2, <1>7, <1>10, <2>1, <2>3 DEF BindOAuth
  <2>4. QED BY <2>2, <2>3
<1>11. CASE ReturnController(t)
  BY <1>0, <1>2, <1>11, VisitOnly DEF ReturnController
<1>12. CASE Activate(t)
  <2>1. visited BY <1>2, <1>12 DEF Activate
  <2>2. v.connection \in Stripe BY <1>0, <1>12 DEF Activate
  <2>3. RecordsTyped'
    BY <1>0, <1>12, <2>2 DEF Activate, ActivateReady, RegistryTypeOK, RecordsTyped, Connections
  <2>4. \A d \in Stripe : conn'[d].account = conn[d].account
    BY <1>0, <1>12, <2>2 DEF Activate, ActivateReady, RegistryTypeOK, Connections
  <2>5. SentinelsAgree' BY <1>0, <1>12, <2>4, AccountsKept DEF Activate
  <2>6. QED
    BY <1>12, <2>1, <2>3, <2>5
    DEF Activate, RegistryInv, RegistryTypeOK, RecordsTyped, VisitRecords, RevocationShape
<1>13. CASE EndVisit(t)
  BY <1>0, <1>2, <1>13, VisitOnly DEF EndVisit, Running
<1>14. QED
  BY <1>3, <1>4, <1>5, <1>6, <1>8, <1>9, <1>10, <1>11, <1>12, <1>13 DEF Onboarding

-----------------------------------------------------------------------------
(* The registry *)

LEMMA InitInv == ASSUME RegistryAssumption, RegistryInit PROVE RegistryInv
<1> USE DEF RegistryInit
<1>1. RegistryTypeOK
  BY DEF RegistryTypeOK, Unregistered, NoVisit, NoRevocation
<1>2. VisitShape /\ RevocationShape
  BY DEF VisitShape, RevocationShape, NoVisit, NoRevocation
<1>3. SentinelsAgree
  BY DEF SentinelsAgree, Unregistered, RegistryAssumption, Connections
<1>4. QED BY <1>1, <1>2, <1>3 DEF RegistryInv

LEMMA NextInv ==
  ASSUME RegistryAssumption, RegistryInv, [RegistryNext]_registryVars
  PROVE  RegistryInv'
<1>1. CASE UNCHANGED registryVars
  BY <1>1 DEF registryVars, RegistryInv, RegistryTypeOK, VisitShape, RevocationShape, SentinelsAgree
<1>2. CASE \E c \in Connections : Register(c)
  BY <1>2, RegisterInv
<1>3. CASE \E c \in Stripe : Disable(c) \/ RequestReconnect(c) \/ Revoke(c)
  BY <1>3, DisableInv, RequestReconnectInv, RevokeInv
<1>4. CASE \E t \in Tokens : Onboarding(t)
  BY <1>4, OnboardingInv
<1>5. CASE FinishRevocation
  BY <1>5, FinishRevocationInv
<1>6. CASE \E c \in Smtp, k \in Credentials : ActivateSmtp(c, k)
  BY <1>6, ActivateSmtpInv
<1>7. QED
  BY <1>1, <1>2, <1>3, <1>4, <1>5, <1>6 DEF RegistryNext

\* Whatever onboardings, operators and deauthorisations overlap, records and
\* sentinels keep their shape, and a visit carries what its next step trusts.
THEOREM RegistryInductive == RegistrySpec => []RegistryInv
<1>1. RegistryInit => RegistryInv BY InitInv, RegistryAssumption
<1>2. RegistryInv /\ [RegistryNext]_registryVars => RegistryInv'
  BY NextInv, RegistryAssumption
<1>3. QED BY <1>1, <1>2, PTL DEF RegistrySpec

\* The registry's records and sentinels keep their types.
THEOREM RegistryTypesHold == RegistrySpec => []RegistryTypeOK
<1>1. RegistryInv => RegistryTypeOK BY DEF RegistryInv
<1>2. QED BY RegistryInductive, <1>1, PTL

\* An account's routing sentinel names a connection exactly when that
\* connection holds the account: no account is ever held twice.
THEOREM SentinelsHold == RegistrySpec => []SentinelsAgree
<1>1. RegistryInv => SentinelsAgree BY DEF RegistryInv
<1>2. QED BY RegistryInductive, <1>1, PTL

-----------------------------------------------------------------------------
(* What a revision read before a provider call still says after it *)

\* What an onboarding may conclude when the connection's revision is still the
\* one it carries; an operator's change in between has moved the revision on.
VisitCarries(v) ==
  LET r       == conn[v.connection]
      current == v.revision = r.revision
  IN v.pc # "none" =>
       /\ v.revision <= r.revision
       /\ v.pc \in Running /\ v.outdated => ~current
       /\ v.pc = "activated" => ~v.outdated
       /\ v.pc = "returned" /\ current =>
            v.account = r.account /\ r.status \in {"pending", "active"}
       /\ v.pc \in {"creating", "binding", "exchanged"} /\ current =>
            r.account = NoAccount /\ r.status = "pending"
       /\ v.pc = "bound" /\ current => r.account # NoAccount
VisitsCarry == \A t \in Tokens : VisitCarries(visit[t])

\* Where a Stripe connection's account may be: an active connection has one, a
\* bound one has lost its own sentinel, a lost one has neither.
AccountsPlaced ==
  \A c \in Stripe :
    /\ conn[c].status = "unregistered" =>
         conn[c].revision = 0 /\ conn[c].account = NoAccount
    /\ conn[c].status = "active" => conn[c].account # NoAccount
    /\ conn[c].account # NoAccount => c \notin unbound
    /\ c \in lost => /\ conn[c].status \notin {"unregistered", "active"}
                     /\ conn[c].account = NoAccount
                     /\ c \notin unbound

FreshInv == RegistryInv /\ VisitsCarry /\ AccountsPlaced

\* No transaction changes a record and keeps its revision.
RecordsAdvance ==
  \A c \in Stripe : conn'[c] = conn[c] \/ conn'[c].revision > conn[c].revision

LEMMA ConnectionRead ==
  ASSUME RegistryTypeOK, NEW c \in Connections
  PROVE  /\ conn[c] \in [status : {"unregistered", "pending", "active", "disabled"},
                        revision : Nat, account : Accounts \cup {NoAccount},
                        ready : BOOLEAN, credential : Credentials \cup {NoCredential}]
         /\ DOMAIN conn = Connections
BY DEF RegistryTypeOK

\* An outdated mark aside, the same visit.
SameVisit(w, v) == /\ w.pc = v.pc /\ w.connection = v.connection
                   /\ w.revision = v.revision /\ w.account = v.account

\* So a visit the step leaves alone, or marks as overtaken while it advances
\* the connection's record, still carries what it did.
LEMMA VisitKept ==
  ASSUME RegistryInv, VisitsCarry, RegistryInv', RecordsAdvance, NEW t \in Tokens,
         \/ visit'[t] = visit[t]
         \/ /\ visit[t].pc \in Running /\ SameVisit(visit'[t], visit[t])
            /\ conn'[visit[t].connection].revision > conn[visit[t].connection].revision
  PROVE  VisitCarries(visit[t])'
<1> DEFINE v == visit[t]
           c == v.connection
<1>1. CASE v.pc = "none"
  BY <1>1 DEF VisitCarries, Running
<1>2. CASE v.pc # "none"
  <2>1. v \in VisitRecords /\ c \in Stripe /\ VisitCarries(v)
    BY <1>2, VisitRead DEF RegistryInv, VisitsCarry
  <2>2. conn[c].revision \in Nat /\ conn'[c].revision \in Nat /\ v.revision \in Nat
    BY <2>1 DEF RegistryInv, RegistryTypeOK, Connections, VisitRecords
  <2>3. conn'[c] = conn[c] \/ conn'[c].revision > conn[c].revision
    BY <2>1 DEF RecordsAdvance
  <2>4. CASE visit'[t] = v
    BY <1>2, <2>1, <2>2, <2>3, <2>4 DEF VisitCarries
  <2>5. CASE /\ v.pc \in Running /\ SameVisit(visit'[t], v)
             /\ conn'[c].revision > conn[c].revision
    <3>1. visit'[t].pc # "activated"
      BY <2>5 DEF SameVisit, Running
    <3>2. /\ visit'[t].revision <= conn'[c].revision
          /\ visit'[t].revision # conn'[c].revision
      BY <1>2, <2>1, <2>2, <2>5 DEF VisitCarries, SameVisit
    <3>3. QED BY <2>5, <3>1, <3>2 DEF VisitCarries, SameVisit
  <2>6. QED BY <2>4, <2>5
<1>3. QED BY <1>1, <1>2

\* A step of one visit is judged by that visit alone.
LEMMA OneVisitMoves ==
  ASSUME RegistryInv, VisitsCarry, RegistryInv', RecordsAdvance, NEW t \in Tokens,
         NEW w, visit' = [visit EXCEPT ![t] = w],
         w.pc # "none" => VisitCarries(w)'
  PROVE  VisitsCarry'
<1>1. ASSUME NEW s \in Tokens, s # t PROVE VisitCarries(visit[s])'
  BY <1>1, VisitKept DEF RegistryInv, RegistryTypeOK
<1>2. VisitCarries(visit[t])'
  BY DEF VisitCarries, RegistryInv, RegistryTypeOK
<1>3. QED BY <1>1, <1>2 DEF VisitsCarry

-----------------------------------------------------------------------------
(* Fresh and stale writes, action by action *)

\* A step that leaves the visits and one that marks the overtaken ones.
LEMMA AllVisitsKept ==
  ASSUME RegistryInv, VisitsCarry, RegistryInv', RecordsAdvance, UNCHANGED visit
  PROVE  VisitsCarry'
BY VisitKept DEF VisitsCarry

LEMMA OvertakenVisitsKept ==
  ASSUME RegistryInv, VisitsCarry, RegistryInv', RecordsAdvance, NEW c \in Stripe,
         visit' = Outdate(c), conn'[c].revision > conn[c].revision
  PROVE  VisitsCarry'
<1>1. ASSUME NEW t \in Tokens PROVE VisitCarries(visit[t])'
  <2>1. visit[t] \in VisitRecords BY VisitRead DEF RegistryInv
  <2>2. CASE visit[t].connection = c /\ visit[t].pc \in Running
    <3>1. SameVisit(visit'[t], visit[t])
      BY <2>1, <2>2 DEF Outdate, SameVisit, VisitRecords
    <3>2. QED BY <2>2, <3>1, VisitKept
  <2>3. CASE ~(visit[t].connection = c /\ visit[t].pc \in Running)
    <3>1. visit'[t] = visit[t] BY <2>3 DEF Outdate
    <3>2. QED BY <3>1, VisitKept
  <2>4. QED BY <2>2, <2>3
<1>2. QED BY <1>1 DEF VisitsCarry

LEMMA RegisterFresh ==
  ASSUME FreshInv, RegistryInv', RegistryAssumption,
         NEW c \in Connections, Register(c)
  PROVE  VisitsCarry' /\ AccountsPlaced'
<1> DEFINE r == [conn[c] EXCEPT !.status = "pending", !.revision = 1]
<1>1. conn' = [conn EXCEPT ![c] = r] BY DEF Register
<1>2. r.status = "pending" /\ r.revision = 1 /\ r.account = conn[c].account
  BY ConnectionRead DEF FreshInv, RegistryInv
<1>3. DOMAIN conn = Connections BY ConnectionRead DEF FreshInv, RegistryInv
<1> HIDE DEF r
<1>4. c \in Stripe => conn[c].revision = 0 /\ conn[c].account = NoAccount
  BY DEF FreshInv, AccountsPlaced, Register
<1>5. RecordsAdvance BY <1>1, <1>2, <1>3, <1>4 DEF RecordsAdvance, Connections
<1>6. VisitsCarry' BY <1>5, AllVisitsKept DEF FreshInv, Register
<1>7. AccountsPlaced'
  BY <1>1, <1>2, <1>3, <1>4 DEF FreshInv, AccountsPlaced, Register, Connections
<1>8. QED BY <1>6, <1>7

\* A change of status by the operator.
LEMMA StatusFresh ==
  ASSUME FreshInv, RegistryInv', NEW c \in Stripe, Changeable(c),
         NEW s \in {"pending", "disabled"}, UpdateStatus(c, s), visit' = Outdate(c),
         UNCHANGED <<unbound, lost>>
  PROVE  VisitsCarry' /\ AccountsPlaced'
<1> DEFINE r == [conn[c] EXCEPT !.status = s, !.revision = @ + 1]
<1>1. conn' = [conn EXCEPT ![c] = r] BY DEF UpdateStatus
<1>2. c \in Connections BY DEF Connections
<1>3. /\ conn[c].revision \in Nat
      /\ r.status = s /\ r.revision = conn[c].revision + 1
      /\ r.account = conn[c].account
  BY <1>2, ConnectionRead DEF FreshInv, RegistryInv
<1>4. DOMAIN conn = Connections BY <1>2, ConnectionRead DEF FreshInv, RegistryInv
<1> HIDE DEF r
<1>5. RecordsAdvance BY <1>1, <1>3, <1>4 DEF RecordsAdvance, Connections
<1>6. VisitsCarry'
  BY <1>1, <1>2, <1>3, <1>4, <1>5, OvertakenVisitsKept DEF FreshInv
<1>7. AccountsPlaced'
  BY <1>1, <1>3, <1>4 DEF FreshInv, AccountsPlaced, Changeable, Connections
<1>8. QED BY <1>6, <1>7

\* disable_stripe_account: the connection's own sentinel is gone since it was
\* bound, and its account's goes now.
LEMMA DisableAccountFresh ==
  ASSUME FreshInv, RegistryInv', NEW c \in Stripe, NEW a \in Accounts, NEW n,
         RegistryAssumption,
         CanDisableAccount(c, a, n), DisableAccount(c, a), visit' = Outdate(c),
         UNCHANGED unbound
  PROVE  VisitsCarry' /\ AccountsPlaced'
<1> DEFINE r == [conn[c] EXCEPT !.status = "disabled", !.revision = @ + 1,
                                !.account = NoAccount, !.ready = FALSE]
<1>1. conn' = [conn EXCEPT ![c] = r] BY DEF DisableAccount
<1>2. c \in Connections BY DEF Connections
<1>3. /\ conn[c].revision \in Nat
      /\ r.status = "disabled" /\ r.revision = conn[c].revision + 1
      /\ r.account = NoAccount
  BY <1>2, ConnectionRead DEF FreshInv, RegistryInv
<1>4. DOMAIN conn = Connections BY <1>2, ConnectionRead DEF FreshInv, RegistryInv
<1> HIDE DEF r
<1>5. RecordsAdvance BY <1>1, <1>3, <1>4 DEF RecordsAdvance, Connections
<1>6. VisitsCarry'
  BY <1>1, <1>2, <1>3, <1>4, <1>5, OvertakenVisitsKept DEF FreshInv
<1>7. c \notin unbound
  BY DEF FreshInv, AccountsPlaced, CanDisableAccount
<1>8. AccountsPlaced'
  BY <1>1, <1>3, <1>4, <1>7 DEF FreshInv, AccountsPlaced, DisableAccount, Connections
<1>9. QED BY <1>6, <1>8

LEMMA OperatorFresh ==
  ASSUME FreshInv, RegistryInv', RegistryAssumption, NEW c \in Stripe,
         Disable(c) \/ RequestReconnect(c) \/ Revoke(c)
  PROVE  VisitsCarry' /\ AccountsPlaced'
<1>1. CASE Disable(c)
  <2>1. CASE /\ conn[c].account = NoAccount
             /\ UpdateStatus(c, "disabled")
             /\ UNCHANGED <<claim, lost>>
    BY <1>1, <2>1, StatusFresh DEF Disable
  <2>2. CASE /\ CanDisableAccount(c, conn[c].account, conn[c].revision)
             /\ DisableAccount(c, conn[c].account)
    <3>1. conn[c].account \in Accounts
      BY <2>2 DEF CanDisableAccount, FreshInv, RegistryInv, RegistryTypeOK, Connections
    <3>2. QED BY <1>1, <2>2, <3>1, DisableAccountFresh DEF Disable
  <2>3. QED BY <1>1, <2>1, <2>2 DEF Disable
<1>2. CASE RequestReconnect(c)
  BY <1>2, StatusFresh DEF RequestReconnect
<1>3. CASE Revoke(c)
  <2>1. RecordsAdvance BY <1>3 DEF Revoke, RecordsAdvance
  <2>2. QED BY <1>3, <2>1, AllVisitsKept DEF Revoke, FreshInv, AccountsPlaced
<1>4. QED BY <1>1, <1>2, <1>3

LEMMA FinishRevocationFresh ==
  ASSUME FreshInv, RegistryInv', RegistryAssumption, FinishRevocation
  PROVE  VisitsCarry' /\ AccountsPlaced'
<1>1. CASE UNCHANGED <<conn, claim, lost, visit>>
  <2>1. RecordsAdvance BY <1>1 DEF RecordsAdvance
  <2>2. QED BY <1>1, <2>1, AllVisitsKept DEF FinishRevocation, FreshInv, AccountsPlaced
<1>2. CASE /\ CanDisableAccount(revocation.connection, revocation.account, revocation.revision)
           /\ DisableAccount(revocation.connection, revocation.account)
           /\ visit' = Outdate(revocation.connection)
  <2>1. revocation.connection \in Stripe /\ revocation.account \in Accounts
    BY DEF FinishRevocation, FreshInv, RegistryInv, RevocationShape
  <2>2. QED BY <1>2, <2>1, DisableAccountFresh DEF FinishRevocation
<1>3. QED BY <1>1, <1>2 DEF FinishRevocation

LEMMA ActivateSmtpFresh ==
  ASSUME FreshInv, RegistryInv', RegistryAssumption,
         NEW c \in Smtp, NEW k \in Credentials, ActivateSmtp(c, k)
  PROVE  VisitsCarry' /\ AccountsPlaced'
<1>1. \A d \in Stripe : conn'[d] = conn[d]
  BY DEF ActivateSmtp, ActivateWith, RegistryAssumption, FreshInv, RegistryInv,
         RegistryTypeOK, Connections
<1>2. RecordsAdvance BY <1>1 DEF RecordsAdvance
<1>3. VisitsCarry' BY <1>2, AllVisitsKept DEF FreshInv, ActivateSmtp
<1>4. AccountsPlaced' BY <1>1 DEF FreshInv, AccountsPlaced, ActivateSmtp
<1>5. QED BY <1>3, <1>4

\* An onboarding step that writes nothing to the registry.
LEMMA ReadOnlyFresh ==
  ASSUME FreshInv, RegistryInv', NEW t \in Tokens, NEW w,
         visit' = [visit EXCEPT ![t] = w],
         w.pc # "none" => VisitCarries(w),
         UNCHANGED <<conn, unbound, lost>>
  PROVE  VisitsCarry' /\ AccountsPlaced'
<1>1. RecordsAdvance BY DEF RecordsAdvance
<1>2. w.pc # "none" => VisitCarries(w)' BY DEF VisitCarries
<1>3. VisitsCarry' BY <1>1, <1>2, OneVisitMoves DEF FreshInv
<1>4. AccountsPlaced' BY DEF FreshInv, AccountsPlaced
<1>5. QED BY <1>3, <1>4

\* bind_stripe_account by a visit: the next revision has its account.
LEMMA BindFresh ==
  ASSUME FreshInv, RegistryInv', RegistryAssumption, NEW t \in Tokens,
         visit[t].pc \in {"binding", "exchanged"},
         CanBind(visit[t].connection, visit[t].account, visit[t].revision),
         BindAccount(visit[t].connection, visit[t].account),
         UNCHANGED lost,
         NEW w, visit' = [visit EXCEPT ![t] = w],
         w.connection = visit[t].connection,
         \/ w.pc = "issued" /\ w.revision = visit[t].revision
         \/ /\ w.pc = "bound" /\ w.revision = visit[t].revision + 1
            /\ w.outdated = visit[t].outdated
  PROVE  VisitsCarry' /\ AccountsPlaced'
<1> DEFINE v == visit[t]
           c == v.connection
           r == [conn[c] EXCEPT !.revision = @ + 1, !.account = v.account]
<1>1. conn' = [conn EXCEPT ![c] = r] /\ unbound' = unbound \ {c}
  BY DEF BindAccount
<1>2. /\ c \in Stripe /\ v.account \in Accounts /\ v.account # NoAccount
      /\ c \in Connections
  BY VisitRead DEF FreshInv, RegistryInv, Connections, RegistryAssumption
<1>3. /\ conn[c].revision \in Nat
      /\ r.status = conn[c].status /\ r.revision = conn[c].revision + 1
      /\ r.account = v.account
  BY <1>2, ConnectionRead DEF FreshInv, RegistryInv
<1>4. DOMAIN conn = Connections BY <1>2, ConnectionRead DEF FreshInv, RegistryInv
<1> HIDE DEF r
<1>5. conn[c].revision = v.revision /\ conn[c].status = "pending"
      /\ conn[c].account = NoAccount /\ c \in unbound
  BY DEF CanBind
<1>6. RecordsAdvance BY <1>1, <1>3, <1>4 DEF RecordsAdvance, Connections
<1>7. ~v.outdated
  <2>1. VisitCarries(v) BY DEF FreshInv, VisitsCarry
  <2>2. QED BY <1>5, <2>1 DEF VisitCarries, Running
<1>8. conn'[c] = r BY <1>1, <1>2, <1>4
<1>9. VisitCarries(w)'
  <2>1. CASE w.pc = "issued" /\ w.revision = v.revision
    BY <1>3, <1>5, <1>8, <2>1 DEF VisitCarries, Running
  <2>2. CASE w.pc = "bound" /\ w.revision = v.revision + 1 /\ w.outdated = v.outdated
    BY <1>2, <1>3, <1>5, <1>7, <1>8, <2>2 DEF VisitCarries, Running
  <2>3. QED BY <2>1, <2>2
<1>10. VisitsCarry'
  BY <1>6, <1>9, OneVisitMoves DEF FreshInv
<1>11. AccountsPlaced'
  BY <1>1, <1>3, <1>4, <1>5 DEF FreshInv, AccountsPlaced, Connections
<1>12. QED BY <1>10, <1>11

\* Activation writes on the revision the visit carries: nobody has changed the
\* connection since it was found to have an account.
LEMMA ActivateFresh ==
  ASSUME FreshInv, RegistryInv', RegistryAssumption, NEW t \in Tokens, Activate(t)
  PROVE  VisitsCarry' /\ AccountsPlaced'
<1> DEFINE v == visit[t]
           c == v.connection
           r == [conn[c] EXCEPT !.status = "active", !.revision = @ + 1, !.ready = TRUE]
<1>0. PICK w : w = [v EXCEPT !.pc = "activated"] OBVIOUS
<1>1. conn' = [conn EXCEPT ![c] = r] /\ visit' = [visit EXCEPT ![t] = w]
  BY <1>0 DEF Activate, ActivateReady
<1>2. c \in Stripe /\ c \in Connections /\ v \in VisitRecords /\ v.pc = "bound"
  BY VisitRead DEF FreshInv, RegistryInv, Connections, Activate
<1>3. /\ conn[c].revision \in Nat
      /\ r.status = "active" /\ r.revision = conn[c].revision + 1
      /\ r.account = conn[c].account
  BY <1>2, ConnectionRead DEF FreshInv, RegistryInv
<1>4. DOMAIN conn = Connections BY <1>2, ConnectionRead DEF FreshInv, RegistryInv
<1>5. /\ w.pc = "activated" /\ w.connection = c /\ w.revision = v.revision
      /\ w.outdated = v.outdated
  BY <1>0, <1>2 DEF VisitRecords
<1> HIDE DEF r
<1>6. conn[c].revision = v.revision BY DEF Activate, CanActivate
<1>7. ~v.outdated /\ conn[c].account # NoAccount
  <2>1. VisitCarries(v) BY DEF FreshInv, VisitsCarry
  <2>2. QED BY <1>2, <1>6, <2>1 DEF VisitCarries, Running
<1>8. RecordsAdvance BY <1>1, <1>3, <1>4 DEF RecordsAdvance, Connections
<1>9. VisitCarries(w)'
  BY <1>1, <1>2, <1>3, <1>4, <1>5, <1>6, <1>7 DEF VisitCarries, Running
<1>10. VisitsCarry' BY <1>1, <1>8, <1>9, OneVisitMoves DEF FreshInv
<1>11. AccountsPlaced'
  BY <1>1, <1>3, <1>4, <1>7 DEF FreshInv, AccountsPlaced, Activate, Connections
<1>12. QED BY <1>10, <1>11

LEMMA OnboardingFresh ==
  ASSUME FreshInv, RegistryInv', RegistryAssumption, NEW t \in Tokens, Onboarding(t)
  PROVE  VisitsCarry' /\ AccountsPlaced'
<1> DEFINE v == visit[t]
<1>0. /\ RegistryInv /\ VisitCarries(v) /\ v \in VisitRecords
      /\ v.pc # "none" => v.connection \in Stripe
  BY VisitRead DEF FreshInv, VisitsCarry, RegistryInv
<1>1. ASSUME NEW c \in Stripe, NEW p \in {"issued", "creating", "returned"},
             p = "creating" => conn[c].account = NoAccount /\ conn[c].status = "pending",
             p = "returned" => CanOnboard(c),
             Visit(t, c, p), UNCHANGED <<conn, unbound, lost>>
      PROVE  VisitsCarry' /\ AccountsPlaced'
  <2> DEFINE w == [pc |-> p, connection |-> c, revision |-> conn[c].revision,
                   account |-> conn[c].account, outdated |-> FALSE]
  <2>1. conn[c].revision \in Nat
    BY <1>0 DEF RegistryInv, RegistryTypeOK, Connections
  <2>2. VisitCarries(w)
    BY <1>1, <2>1 DEF VisitCarries, CanOnboard, Running
  <2>3. QED BY <1>1, <2>2, ReadOnlyFresh DEF Visit
<1>2. ASSUME NEW p \in {"bound", "ended"},
             v.pc # "none", visit' = [visit EXCEPT ![t].pc = p],
             p = "bound" => v.pc = "returned" /\ v.account # NoAccount,
             UNCHANGED <<conn, unbound, lost>>
      PROVE  VisitsCarry' /\ AccountsPlaced'
  <2> DEFINE w == [v EXCEPT !.pc = p]
  <2>1. /\ w.pc = p /\ w.connection = v.connection /\ w.revision = v.revision
        /\ w.account = v.account /\ w.outdated = v.outdated
    BY <1>0 DEF VisitRecords
  <2>2. visit' = [visit EXCEPT ![t] = w] BY <1>2
  <2> HIDE DEF w
  <2>3. VisitCarries(w)
    BY <1>0, <1>2, <2>1 DEF VisitCarries, Running
  <2>4. QED BY <1>2, <2>2, <2>3, ReadOnlyFresh
<1>3. CASE \E c \in OAuth : StartOAuth(t, c)
  BY <1>1, <1>3 DEF StartOAuth, Stripe
<1>4. CASE \E c \in Controller : StartController(t, c)
  BY <1>1, <1>4 DEF StartController, Stripe
<1>5. ASSUME NEW a \in Accounts, CreateAccount(t, a)
      PROVE  VisitsCarry' /\ AccountsPlaced'
  <2> DEFINE w == [v EXCEPT !.pc = "binding", !.account = a]
  <2>1. /\ w.pc = "binding" /\ w.connection = v.connection
        /\ w.revision = v.revision /\ w.outdated = v.outdated
    BY <1>0 DEF VisitRecords
  <2>2. visit' = [visit EXCEPT ![t] = w] BY <1>5 DEF CreateAccount
  <2> HIDE DEF w
  <2>3. VisitCarries(w)
    BY <1>0, <1>5, <2>1 DEF VisitCarries, Running, CreateAccount
  <2>4. QED BY <1>5, <2>2, <2>3, ReadOnlyFresh DEF CreateAccount
<1>6. ASSUME NEW a \in Accounts, ExchangeCode(t, a)
      PROVE  VisitsCarry' /\ AccountsPlaced'
  <2> DEFINE w == [v EXCEPT !.pc = "exchanged", !.account = a]
  <2>1. /\ w.pc = "exchanged" /\ w.connection = v.connection
        /\ w.revision = v.revision /\ w.outdated = v.outdated
    BY <1>0 DEF VisitRecords
  <2>2. visit' = [visit EXCEPT ![t] = w] BY <1>6 DEF ExchangeCode
  <2>3. v.pc = "returned" /\ v.account = NoAccount /\ v.connection \in Stripe
    BY <1>0, <1>6 DEF ExchangeCode
  <2> HIDE DEF w
  <2>4. conn[v.connection].account = NoAccount => conn[v.connection].status # "active"
    BY <2>3 DEF FreshInv, AccountsPlaced
  <2>5. VisitCarries(w)
    BY <1>0, <2>1, <2>3, <2>4 DEF VisitCarries, Running
  <2>6. QED BY <1>6, <2>2, <2>5, ReadOnlyFresh DEF ExchangeCode
<1>7. CASE BindController(t)
  <2>1. CASE CanBind(v.connection, v.account, v.revision)
    <3> DEFINE w == [v EXCEPT !.pc = "issued"]
    <3>1. /\ v.pc = "binding" /\ UNCHANGED lost
          /\ visit' = [visit EXCEPT ![t] = w] /\ BindAccount(v.connection, v.account)
      BY <1>7, <2>1 DEF BindController
    <3>2. w.pc = "issued" /\ w.connection = v.connection /\ w.revision = v.revision
      BY <1>0 DEF VisitRecords
    <3> HIDE DEF w
    <3>3. QED BY <2>1, <3>1, <3>2, BindFresh
  <2>2. CASE ~CanBind(v.connection, v.account, v.revision)
    BY <1>2, <1>7, <2>2 DEF BindController
  <2>3. QED BY <2>1, <2>2
<1>8. CASE Return(t)
  BY <1>0, <1>1, <1>8 DEF Return
<1>9. CASE BindOAuth(t)
  <2>1. CASE CanBind(v.connection, v.account, v.revision)
    <3> DEFINE w == [v EXCEPT !.pc = "bound", !.revision = @ + 1]
    <3>1. /\ v.pc = "exchanged" /\ UNCHANGED lost
          /\ visit' = [visit EXCEPT ![t] = w] /\ BindAccount(v.connection, v.account)
      BY <1>9, <2>1 DEF BindOAuth
    <3>2. /\ w.pc = "bound" /\ w.connection = v.connection
          /\ w.revision = v.revision + 1 /\ w.outdated = v.outdated
      <4> HIDE DEF v
      <4>1. QED BY <1>0 DEF VisitRecords
    <3> HIDE DEF w
    <3>3. QED BY <2>1, <3>1, <3>2, BindFresh
  <2>2. CASE ~CanBind(v.connection, v.account, v.revision)
    BY <1>2, <1>9, <2>2 DEF BindOAuth
  <2>3. QED BY <2>1, <2>2
<1>10. CASE ReturnController(t)
  BY <1>2, <1>10 DEF ReturnController
<1>11. CASE Activate(t)
  BY <1>11, ActivateFresh
<1>12. CASE EndVisit(t)
  BY <1>2, <1>12 DEF EndVisit, Running
<1>13. QED
  BY <1>3, <1>4, <1>5, <1>6, <1>7, <1>8, <1>9, <1>10, <1>11, <1>12 DEF Onboarding

LEMMA InitFresh ==
  ASSUME RegistryAssumption, RegistryInit PROVE VisitsCarry /\ AccountsPlaced
<1> USE DEF RegistryInit
<1>1. VisitsCarry BY DEF VisitsCarry, VisitCarries, NoVisit
<1>2. AccountsPlaced BY DEF AccountsPlaced, Unregistered, Connections
<1>3. QED BY <1>1, <1>2

LEMMA NextFresh ==
  ASSUME RegistryAssumption, FreshInv, RegistryInv', [RegistryNext]_registryVars
  PROVE  FreshInv'
<1>1. CASE UNCHANGED registryVars
  BY <1>1 DEF registryVars, FreshInv, VisitsCarry, VisitCarries, AccountsPlaced
<1>2. CASE \E c \in Connections : Register(c)
  BY <1>2, RegisterFresh DEF FreshInv
<1>3. CASE \E c \in Stripe : Disable(c) \/ RequestReconnect(c) \/ Revoke(c)
  BY <1>3, OperatorFresh DEF FreshInv
<1>4. CASE \E t \in Tokens : Onboarding(t)
  BY <1>4, OnboardingFresh DEF FreshInv
<1>5. CASE FinishRevocation
  BY <1>5, FinishRevocationFresh DEF FreshInv
<1>6. CASE \E c \in Smtp, k \in Credentials : ActivateSmtp(c, k)
  BY <1>6, ActivateSmtpFresh DEF FreshInv
<1>7. QED
  BY <1>1, <1>2, <1>3, <1>4, <1>5, <1>6 DEF RegistryNext

\* Whatever an onboarding read before a call to Stripe still holds after it, if
\* the revision it read is still the connection's.
THEOREM FreshInductive == RegistrySpec => []FreshInv
<1>1. RegistryInit /\ RegistryInv => FreshInv
  BY InitFresh, RegistryAssumption DEF FreshInv
<1>2. FreshInv /\ RegistryInv' /\ [RegistryNext]_registryVars => FreshInv'
  BY NextFresh, RegistryAssumption
<1>3. QED BY RegistryInductive, <1>1, <1>2, PTL DEF RegistrySpec

\* A return that was under way when an operator disabled or reconnected its
\* connection never activates it.
THEOREM ActivationsAreFresh == RegistrySpec => []ActivationIsFresh
<1>1. FreshInv => ActivationIsFresh
  BY DEF FreshInv, ActivationIsFresh, VisitsCarry, VisitCarries
<1>2. QED BY FreshInductive, <1>1, PTL

\* A connection whose account was taken away is never bound or active again.
THEOREM LostStaysLost == RegistrySpec => []LostForGood
<1>1. FreshInv => LostForGood
  BY DEF FreshInv, RegistryInv, RegistryTypeOK, LostForGood, AccountsPlaced
<1>2. QED BY FreshInductive, <1>1, PTL

\* An onboarding that comes to bind_stripe_account on the current revision
\* finds no account there: rebind_stripe_account is never reached by it.
THEOREM BindingsFindNoAccount == RegistrySpec => []BindFindsNoAccount
<1>1. FreshInv => BindFindsNoAccount
  BY DEF FreshInv, BindFindsNoAccount, VisitsCarry, VisitCarries
<1>2. QED BY FreshInductive, <1>1, PTL

-----------------------------------------------------------------------------
(* The isolation of SMTP connections *)

\* No claim has two holders, and an active connection holds every claim of its
\* credential.
IsolationHeld ==
  /\ \A p, q \in isolation : p[1] = q[1] => p[2] = q[2]
  /\ \A c \in Smtp : conn[c].status = "active" =>
       /\ conn[c].credential \in Credentials
       /\ \A k \in IsolationKeys(c, conn[c].credential) : <<k, c>> \in isolation

\* Only registration and activation touch an SMTP connection.
LEMMA StripeStepsKeepSmtp ==
  ASSUME RegistryInv, RegistryAssumption, NEW c \in Smtp,
         \/ \E d \in Stripe : Disable(d) \/ RequestReconnect(d) \/ Revoke(d)
         \/ \E t \in Tokens : Onboarding(t)
         \/ FinishRevocation
  PROVE  conn'[c] = conn[c] /\ isolation' = isolation
<1>1. DOMAIN conn = Connections /\ c \in Connections /\ c \notin Stripe
  BY DEF RegistryInv, RegistryTypeOK, Connections, RegistryAssumption
<1>2. ASSUME NEW d \in Stripe, NEW r, conn' = [conn EXCEPT ![d] = r]
      PROVE  conn'[c] = conn[c]
  BY <1>1, <1>2
<1>3. CASE \E d \in Stripe : Disable(d) \/ RequestReconnect(d) \/ Revoke(d)
  <2>1. PICK d \in Stripe : Disable(d) \/ RequestReconnect(d) \/ Revoke(d)
    BY <1>3
  <2>2. c # d BY <1>1
  <2>3. QED
    BY <1>1, <2>1, <2>2
    DEF Disable, RequestReconnect, Revoke, UpdateStatus, DisableAccount
<1>4. ASSUME NEW t \in Tokens, Onboarding(t)
      PROVE  conn'[c] = conn[c] /\ isolation' = isolation
  <2>1. visit[t].pc # "none" => visit[t].connection \in Stripe
    BY VisitRead DEF RegistryInv
  <2>2. isolation' = isolation
    BY <1>4 DEF Onboarding, StartOAuth, StartController, CreateAccount, ExchangeCode,
                BindController, Return, BindOAuth, ReturnController, Activate, EndVisit
  <2>3. \/ conn' = conn
        \/ /\ visit[t].pc # "none"
           /\ \/ BindAccount(visit[t].connection, visit[t].account)
              \/ ActivateReady(visit[t].connection)
    BY <1>4 DEF Onboarding, StartOAuth, StartController, CreateAccount, ExchangeCode,
                BindController, Return, BindOAuth, ReturnController, Activate, EndVisit
  <2>4. QED BY <1>2, <2>1, <2>2, <2>3 DEF BindAccount, ActivateReady
<1>5. CASE FinishRevocation
  <2>1. revocation.connection \in Stripe
    BY <1>5 DEF FinishRevocation, RegistryInv, RevocationShape
  <2>2. QED BY <1>2, <1>5, <2>1 DEF FinishRevocation, DisableAccount
<1>6. QED BY <1>3, <1>4, <1>5

LEMMA NextIsolation ==
  ASSUME RegistryAssumption, RegistryInv, IsolationHeld, [RegistryNext]_registryVars
  PROVE  IsolationHeld'
<1>1. CASE UNCHANGED registryVars
  BY <1>1 DEF registryVars, IsolationHeld
<1>2. ASSUME NEW c \in Connections, Register(c) PROVE IsolationHeld'
  <2> DEFINE r == [conn[c] EXCEPT !.status = "pending", !.revision = 1]
  <2>1. conn' = [conn EXCEPT ![c] = r] /\ isolation' = isolation
    BY <1>2 DEF Register
  <2>2. r.status # "active"
    BY <1>2, ConnectionRead DEF RegistryInv
  <2> HIDE DEF r
  <2>3. ASSUME NEW d \in Smtp
        PROVE conn'[d] = conn[d] \/ conn'[d].status # "active"
    BY <2>1, <2>2 DEF RegistryInv, RegistryTypeOK, Connections
  <2>4. QED BY <2>1, <2>3 DEF IsolationHeld
<1>3. CASE \/ \E d \in Stripe : Disable(d) \/ RequestReconnect(d) \/ Revoke(d)
           \/ \E t \in Tokens : Onboarding(t)
           \/ FinishRevocation
  <2>1. \A c \in Smtp : conn'[c] = conn[c] /\ isolation' = isolation
    BY <1>3, StripeStepsKeepSmtp
  <2>2. isolation' = isolation
    BY <1>3
    DEF Disable, RequestReconnect, Revoke, FinishRevocation, Onboarding, StartOAuth,
        StartController, CreateAccount, ExchangeCode, BindController, Return, BindOAuth,
        ReturnController, Activate, EndVisit
  <2>3. QED BY <2>1, <2>2 DEF IsolationHeld
<1>4. ASSUME NEW c \in Smtp, NEW k \in Credentials, ActivateSmtp(c, k)
      PROVE  IsolationHeld'
  <2> DEFINE r == [conn[c] EXCEPT !.status = "active", !.revision = @ + 1,
                                  !.credential = k]
  <2>1. /\ conn' = [conn EXCEPT ![c] = r]
        /\ isolation' = isolation \cup (IsolationKeys(c, k) \X {c})
        /\ \A p \in isolation : p[1] \notin IsolationKeys(c, k)
    BY <1>4 DEF ActivateSmtp, ActivateWith
  <2>2. r.status = "active" /\ r.credential = k
    BY ConnectionRead DEF RegistryInv, Connections
  <2> HIDE DEF r
  <2>3. conn'[c] = r /\ \A d \in Smtp \ {c} : conn'[d] = conn[d]
    BY <2>1 DEF RegistryInv, RegistryTypeOK, Connections
  <2>4. \A p \in IsolationKeys(c, k) \X {c} : p[1] \in IsolationKeys(c, k) /\ p[2] = c
    OBVIOUS
  <2>5. \A p, q \in isolation' : p[1] = q[1] => p[2] = q[2]
    BY <2>1, <2>4 DEF IsolationHeld
  <2>6. ASSUME NEW d \in Smtp, conn'[d].status = "active"
        PROVE  /\ conn'[d].credential \in Credentials
               /\ \A q \in IsolationKeys(d, conn'[d].credential) : <<q, d>> \in isolation'
    <3>1. CASE d = c BY <2>1, <2>2, <2>3, <3>1
    <3>2. CASE d # c BY <2>1, <2>3, <2>6, <3>2 DEF IsolationHeld
    <3>3. QED BY <3>1, <3>2
  <2>7. QED BY <2>5, <2>6 DEF IsolationHeld, IsolationKeys
<1>5. QED BY <1>1, <1>2, <1>3, <1>4 DEF RegistryNext

\* Every isolation claim has one holder, and an active connection holds all of
\* its own.
THEOREM IsolationInductive == RegistrySpec => []IsolationHeld
<1>1. RegistryInit => IsolationHeld
  BY DEF RegistryInit, IsolationHeld, Unregistered, Connections
<1>2. IsolationHeld /\ RegistryInv /\ [RegistryNext]_registryVars => IsolationHeld'
  BY NextIsolation, RegistryAssumption
<1>3. QED BY RegistryInductive, <1>1, <1>2, PTL DEF RegistrySpec

\* Two active SMTP connections share no credential and, in production, neither
\* a mail account nor a sending domain.
THEOREM SmtpStaysIsolated == RegistrySpec => []SmtpIsolated
<1>1. ASSUME IsolationHeld, NEW c \in Smtp, NEW d \in Smtp,
             conn[c].status = "active", conn[d].status = "active", c # d
      PROVE  /\ conn[c].credential # conn[d].credential
             /\ Production => /\ MailAccount[conn[c].credential] # MailAccount[conn[d].credential]
                              /\ Domain[c] # Domain[d]
  <2>1. \A q \in IsolationKeys(c, conn[c].credential) :
          q \notin IsolationKeys(d, conn[d].credential)
    <3>1. ASSUME NEW q \in IsolationKeys(c, conn[c].credential),
                 q \in IsolationKeys(d, conn[d].credential)
          PROVE  FALSE
      <4>1. <<q, c>> \in isolation /\ <<q, d>> \in isolation
        BY <1>1, <3>1 DEF IsolationHeld
      <4>2. <<q, c>>[2] = <<q, d>>[2]
        <5>1. <<q, c>>[1] = <<q, d>>[1] OBVIOUS
        <5>2. QED BY <1>1, <4>1, <5>1 DEF IsolationHeld
      <4>3. QED BY <1>1, <4>2
    <3>2. QED BY <3>1
  <2>2. QED BY <2>1 DEF IsolationKeys
<1>2. IsolationHeld => SmtpIsolated BY <1>1 DEF SmtpIsolated
<1>3. QED BY IsolationInductive, <1>2, PTL
=============================================================================
