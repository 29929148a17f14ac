-------------------------- MODULE ConnectionRegistry --------------------------
(***************************************************************************)
(* The registry of provider connections and what changes it: registration, *)
(* Stripe onboarding by OAuth or by a platform-controlled account, the     *)
(* operator's disable and reconnect, deauthorisation, and the activation   *)
(* of an SMTP connection.                                                  *)
(*                                                                         *)
(* A connection's record carries a revision.  Every handler reads the      *)
(* record, talks to the provider, and then writes on condition that the    *)
(* revision is still the one it read; routing and isolation sentinels are  *)
(* put and deleted in the same DynamoDB transaction.  One such transaction *)
(* is one step here.                                                       *)
(***************************************************************************)
EXTENDS Integers, FiniteSets

CONSTANTS
  OAuth,           \* Stripe connections with accountStrategy oauth-standard-v1
  Controller,      \* Stripe connections with controller-account-link-v1
  Smtp,            \* connections of provider email.smtp
  Accounts,        \* Stripe accounts
  Tokens,          \* one-use onboarding states, one for each start
  Credentials,     \* SMTP credentials, as their isolation hashes
  MailAccount,     \* [Credentials -> the mail account that owns one]
  Domain,          \* [Smtp -> the sending domain of its scope]
  TestMailAccount, \* the account every test credential must belong to
  Production,      \* TRUE: the production environment
  MaxRevision,     \* bound: the operator changes no connection of this revision
  NoAccount, NoConnection, NoCredential

Stripe      == OAuth \cup Controller
Connections == Stripe \cup Smtp

ASSUME RegistryAssumption ==
  /\ OAuth \cap Controller = {} /\ Stripe \cap Smtp = {}
  /\ NoAccount \notin Accounts /\ NoConnection \notin Connections
  /\ NoCredential \notin Credentials
  /\ DOMAIN MailAccount = Credentials /\ DOMAIN Domain = Smtp
  /\ Production \in BOOLEAN
  /\ MaxRevision \in Nat \ {0}

VARIABLES
  conn,        \* [Connections -> the IntegrationConnection record]
  claim,       \* [Accounts -> the connection its routing sentinel names]
  unbound,     \* Stripe connections whose sentinel names no account yet
  isolation,   \* the SMTP isolation claims, each with its holder
  visit,       \* [Tokens -> an onboarding visit: a start and its return]
  revocation,  \* the deauthorize invocation that runs
  granted,     \* Stripe: accounts that authorise the platform
  made,        \* Stripe: the accounts created for a controller connection
  lost         \* history: connections that held an account and were disabled

registryVars == <<conn, claim, unbound, isolation, visit, revocation, granted,
                  made, lost>>

-----------------------------------------------------------------------------
(* Records *)

Unregistered == [status |-> "unregistered", revision |-> 0,
                 account |-> NoAccount, ready |-> FALSE,
                 credential |-> NoCredential]
NoVisit      == [pc |-> "none", connection |-> NoConnection, revision |-> 0,
                 account |-> NoAccount, outdated |-> FALSE]
NoRevocation == [pc |-> "idle", connection |-> NoConnection, revision |-> 0,
                 account |-> NoAccount]

\* A visit in one of these states is an invocation that is running.
Running == {"creating", "binding", "returned", "exchanged", "bound"}

\* The isolation claims an activation puts; a test environment shares one mail
\* account and one sending domain, so only the credential is exclusive there.
IsolationKeysOfCredential(c, k) == {<<"credential", k>>}
IsolationKeys(c, k) ==
  {<<"credential", k>>} \cup
  (IF Production THEN {<<"account", MailAccount[k]>>, <<"domain", Domain[c]>>}
   ELSE {})

CanOnboard(c) == conn[c].status \in {"pending", "active"}
Changeable(c) == conn[c].status # "unregistered" /\ conn[c].revision < MaxRevision
Fresh == {a \in Accounts : /\ claim[a] = NoConnection /\ a \notin granted
                           /\ \A c \in Controller : a \notin made[c]}

\* What stripe_webhook_connection answers for an account and an event.
Routes(a, c, deauthorized) ==
  /\ claim[a] = c /\ conn[c].account = a
  /\ IF deauthorized THEN CanOnboard(c)
     ELSE conn[c].status = "active" /\ conn[c].ready

\* History: an operator stops a connection while visits of it are running.
Outdate(c) ==
  [t \in Tokens |->
    IF visit[t].connection = c /\ visit[t].pc \in Running
    THEN [visit[t] EXCEPT !.outdated = TRUE] ELSE visit[t]]

-----------------------------------------------------------------------------
(* Transactions of the registry.  Each names the revision its caller read. *)

Register(c) ==
  /\ conn[c].status = "unregistered"
  /\ conn' = [conn EXCEPT ![c].status = "pending", ![c].revision = 1]
  /\ unbound' = IF c \in Stripe THEN unbound \cup {c} ELSE unbound
  /\ UNCHANGED <<claim, isolation, visit, revocation, granted, made, lost>>

UpdateStatus(c, status) ==
  conn' = [conn EXCEPT ![c].status = status, ![c].revision = @ + 1]

CanBindAgain(c, a, revision) ==
  /\ conn[c].status = "pending" /\ conn[c].revision = revision
  /\ conn[c].account = NoAccount /\ claim[a] = NoConnection
CanBind(c, a, revision) ==
  /\ conn[c].status = "pending" /\ conn[c].revision = revision
  /\ conn[c].account = NoAccount
  /\ c \in unbound /\ claim[a] = NoConnection

BindAccount(c, a) ==
  /\ conn' = [conn EXCEPT ![c].revision = @ + 1, ![c].account = a]
  /\ unbound' = unbound \ {c}
  /\ claim' = [claim EXCEPT ![a] = c]

CanActivateLater(c, revision) == conn[c].status = "pending"
CanActivate(c, revision) == conn[c].revision = revision

ActivateReady(c) ==
  conn' = [conn EXCEPT ![c].status = "active", ![c].revision = @ + 1,
                       ![c].ready = TRUE]

CanDisableAccount(c, a, revision) ==
  /\ conn[c].revision = revision /\ conn[c].account = a /\ a # NoAccount
  /\ claim[a] = c

DisableAccountKeepingSentinel(c, a) ==
  /\ conn' = [conn EXCEPT ![c].status = "disabled", ![c].revision = @ + 1,
                          ![c].account = NoAccount, ![c].ready = FALSE]
  /\ lost' = lost \cup {c}
  /\ UNCHANGED claim
DisableAccount(c, a) ==
  /\ conn' = [conn EXCEPT ![c].status = "disabled", ![c].revision = @ + 1,
                          ![c].account = NoAccount, ![c].ready = FALSE]
  /\ claim' = [claim EXCEPT ![a] = NoConnection]
  /\ lost' = lost \cup {c}

-----------------------------------------------------------------------------
(* The operator's actions in the browser.  The request carries the revision *)
(* the operator saw; one that has moved on since changes nothing.           *)

Disable(c) ==
  /\ c \in Stripe /\ Changeable(c)
  /\ visit' = Outdate(c)
  /\ \/ /\ conn[c].account = NoAccount
        /\ UpdateStatus(c, "disabled")
        /\ UNCHANGED <<claim, lost>>
     \/ /\ CanDisableAccount(c, conn[c].account, conn[c].revision)
        /\ DisableAccount(c, conn[c].account)
  /\ UNCHANGED <<unbound, isolation, revocation, granted, made>>

RequestReconnect(c) ==
  /\ c \in Stripe /\ Changeable(c)
  /\ UpdateStatus(c, "pending")
  /\ visit' = Outdate(c)
  /\ UNCHANGED <<claim, unbound, isolation, revocation, granted, made, lost>>

-----------------------------------------------------------------------------
(* Onboarding: start *)

Visit(t, c, pc) ==
  visit' = [visit EXCEPT ![t] = [pc |-> pc, connection |-> c,
                                 revision |-> conn[c].revision,
                                 account |-> conn[c].account,
                                 outdated |-> FALSE]]

\* The OAuth handoff is refused unless the connection is pending and unbound.
StartOAuth(t, c) ==
  /\ visit[t].pc = "none" /\ c \in OAuth
  /\ conn[c].status = "pending" /\ conn[c].account = NoAccount
  /\ Visit(t, c, "issued")
  /\ UNCHANGED <<conn, claim, unbound, isolation, revocation, granted, made, lost>>

\* A controller connection without an account has one created first.
StartController(t, c) ==
  /\ visit[t].pc = "none" /\ c \in Controller
  /\ \/ /\ conn[c].status = "pending" /\ conn[c].account = NoAccount
        /\ Visit(t, c, "creating")
     \/ /\ CanOnboard(c) /\ conn[c].account # NoAccount
        /\ Visit(t, c, "issued")
  /\ UNCHANGED <<conn, claim, unbound, isolation, revocation, granted, made, lost>>

\* Created under a fixed idempotency key: Stripe answers with the account made
\* before, or with a new one when the key has expired.
CreateAccount(t, a) ==
  LET c == visit[t].connection IN
  /\ visit[t].pc = "creating"
  /\ a \in made[c] \cup Fresh
  /\ made' = [made EXCEPT ![c] = @ \cup {a}]
  /\ visit' = [visit EXCEPT ![t].pc = "binding", ![t].account = a]
  /\ UNCHANGED <<conn, claim, unbound, isolation, revocation, granted, lost>>

\* bind_stripe_account, then the account link is handed to the browser.
BindController(t) ==
  LET v == visit[t] IN
  /\ v.pc = "binding"
  /\ IF CanBind(v.connection, v.account, v.revision)
     THEN /\ BindAccount(v.connection, v.account)
          /\ visit' = [visit EXCEPT ![t].pc = "issued"]
     ELSE /\ visit' = [visit EXCEPT ![t].pc = "ended"]
          /\ UNCHANGED <<conn, unbound, claim>>
  /\ UNCHANGED <<isolation, revocation, granted, made, lost>>

-----------------------------------------------------------------------------
(* Onboarding: return.  The state is consumed before anything else is done. *)

Return(t) ==
  LET c == visit[t].connection IN
  /\ visit[t].pc = "issued" /\ CanOnboard(c)
  /\ Visit(t, c, "returned")
  /\ UNCHANGED <<conn, claim, unbound, isolation, revocation, granted, made, lost>>

\* The account is the one the browser's user chose; Stripe has granted access
\* to it from here on, whatever becomes of the binding.
ExchangeCode(t, a) ==
  LET c == visit[t].connection IN
  /\ visit[t].pc = "returned" /\ c \in OAuth
  /\ visit[t].account = NoAccount
  /\ \A d \in Controller : a \notin made[d]
  /\ granted' = granted \cup {a}
  /\ visit' = [visit EXCEPT ![t].pc = "exchanged", ![t].account = a]
  /\ UNCHANGED <<conn, claim, unbound, isolation, revocation, made, lost>>

BindOAuth(t) ==
  LET v == visit[t] IN
  /\ v.pc = "exchanged"
  /\ IF CanBind(v.connection, v.account, v.revision)
     THEN /\ BindAccount(v.connection, v.account)
          /\ visit' = [visit EXCEPT ![t].pc = "bound", ![t].revision = @ + 1]
     ELSE /\ visit' = [visit EXCEPT ![t].pc = "ended"]
          /\ UNCHANGED <<conn, unbound, claim>>
  /\ UNCHANGED <<isolation, revocation, granted, made, lost>>

\* A controller's return has an account and nothing to exchange.
ReturnController(t) ==
  /\ visit[t].pc = "returned" /\ visit[t].connection \in Controller
  /\ visit[t].account # NoAccount
  /\ visit' = [visit EXCEPT ![t].pc = "bound"]
  /\ UNCHANGED <<conn, claim, unbound, isolation, revocation, granted, made, lost>>

\* retrieve_canonical_status said ready; activate_ready on the revision read.
Activate(t) ==
  LET v == visit[t] IN
  /\ v.pc = "bound"
  /\ CanActivate(v.connection, v.revision)
  /\ ActivateReady(v.connection)
  /\ visit' = [visit EXCEPT ![t].pc = "activated"]
  /\ UNCHANGED <<claim, unbound, isolation, revocation, granted, made, lost>>

\* An invocation dies, its provider call or its write is refused, the account
\* is not ready yet, or a handed-out state expires.
EndVisit(t) ==
  /\ visit[t].pc \in Running \cup {"issued"}
  /\ visit' = [visit EXCEPT ![t].pc = "ended"]
  /\ UNCHANGED <<conn, claim, unbound, isolation, revocation, granted, made, lost>>

-----------------------------------------------------------------------------
(* Deauthorisation on the operator's request *)

\* oauth-standard-v1 is revoked at Stripe first; a controller's account is not.
Revoke(c) ==
  /\ revocation.pc = "idle" /\ c \in Stripe
  /\ CanOnboard(c) /\ Changeable(c) /\ conn[c].account # NoAccount
  /\ revocation' = [pc |-> "revoked", connection |-> c,
                    revision |-> conn[c].revision, account |-> conn[c].account]
  /\ granted' = IF c \in OAuth THEN granted \ {conn[c].account} ELSE granted
  /\ UNCHANGED <<conn, claim, unbound, isolation, visit, made, lost>>

\* disable_stripe_account on the revision read, or the invocation dies first.
FinishRevocation ==
  LET r == revocation IN
  /\ r.pc = "revoked"
  /\ \/ /\ CanDisableAccount(r.connection, r.account, r.revision)
        /\ DisableAccount(r.connection, r.account)
        /\ visit' = Outdate(r.connection)
     \/ UNCHANGED <<conn, claim, lost, visit>>
  /\ revocation' = NoRevocation
  /\ UNCHANGED <<unbound, isolation, granted, made>>

-----------------------------------------------------------------------------
(* SMTP *)

ActivateWithAccount(c, k) ==
  conn' = [conn EXCEPT ![c].status = "active", ![c].revision = @ + 1,
                       ![c].credential = MailAccount[k]]
ActivateWith(c, k) ==
  conn' = [conn EXCEPT ![c].status = "active", ![c].revision = @ + 1,
                       ![c].credential = k]

\* The credential's mail account is the shared one in test and never in
\* production; all claims are put with the record, or nothing is written.
ActivateSmtp(c, k) ==
  /\ conn[c].status = "pending"
  /\ (MailAccount[k] = TestMailAccount) <=> ~Production
  /\ \A p \in isolation : p[1] \notin IsolationKeys(c, k)
  /\ ActivateWith(c, k)
  /\ isolation' = isolation \cup (IsolationKeys(c, k) \X {c})
  /\ UNCHANGED <<claim, unbound, visit, revocation, granted, made, lost>>

-----------------------------------------------------------------------------
RegistryInit ==
  /\ conn = [c \in Connections |-> Unregistered]
  /\ claim = [a \in Accounts |-> NoConnection]
  /\ unbound = {}
  /\ isolation = {}
  /\ visit = [t \in Tokens |-> NoVisit]
  /\ revocation = NoRevocation
  /\ granted = {}
  /\ made = [c \in Controller |-> {}]
  /\ lost = {}

Onboarding(t) ==
  \/ \E c \in OAuth : StartOAuth(t, c)
  \/ \E c \in Controller : StartController(t, c)
  \/ \E a \in Accounts : CreateAccount(t, a) \/ ExchangeCode(t, a)
  \/ BindController(t) \/ Return(t) \/ BindOAuth(t) \/ ReturnController(t)
  \/ Activate(t) \/ EndVisit(t)

RegistryNext ==
  \/ \E c \in Connections : Register(c)
  \/ \E c \in Stripe : Disable(c) \/ RequestReconnect(c) \/ Revoke(c)
  \/ \E t \in Tokens : Onboarding(t)
  \/ FinishRevocation
  \/ \E c \in Smtp, k \in Credentials : ActivateSmtp(c, k)

RegistrySpec == RegistryInit /\ [][RegistryNext]_registryVars

-----------------------------------------------------------------------------
(* What makes the registry correct *)

\* Every record keeps its shape.
RegistryTypeOK ==
  /\ conn \in [Connections ->
       [status : {"unregistered", "pending", "active", "disabled"},
        revision : Nat, account : Accounts \cup {NoAccount},
        ready : BOOLEAN, credential : Credentials \cup {NoCredential}]]
  /\ claim \in [Accounts -> Stripe \cup {NoConnection}]
  /\ unbound \in SUBSET Stripe
  /\ visit \in [Tokens ->
       [pc : Running \cup {"none", "issued", "activated", "ended"},
        connection : Stripe \cup {NoConnection}, revision : Nat,
        account : Accounts \cup {NoAccount}, outdated : BOOLEAN]]
  /\ revocation \in
       [pc : {"idle", "revoked"}, connection : Stripe \cup {NoConnection},
        revision : Nat, account : Accounts \cup {NoAccount}]
  /\ granted \in SUBSET Accounts
  /\ made \in [Controller -> SUBSET Accounts]
  /\ lost \in SUBSET Stripe

\* bind_stripe_account and disable_stripe_account move the routing sentinel and
\* the connection's record together: an account's sentinel names a connection
\* exactly when that connection holds the account, so no account is held twice.
SentinelsAgree ==
  \A a \in Accounts, c \in Stripe : claim[a] = c <=> conn[c].account = a

\* A return that was under way when an operator disabled or reconnected its
\* connection never activates it.
ActivationIsFresh ==
  \A t \in Tokens : visit[t].pc = "activated" => ~visit[t].outdated

\* The first binding deletes the connection's own sentinel, disabling deletes
\* the account's: no later onboarding can bind or activate the connection.  It
\* is a limit of the code rather than a promise: reconnecting a connection that
\* lost its account is offered (src/README.md:76) and never completes.
LostForGood ==
  \A c \in lost : /\ conn[c].status # "active" /\ conn[c].account = NoAccount
                  /\ c \notin unbound

\* An onboarding that comes to bind_stripe_account on the current revision
\* finds no account there, so rebind_stripe_account is never reached by it.
BindFindsNoAccount ==
  \A t \in Tokens :
    LET v == visit[t] IN
    /\ v.pc \in {"binding", "exchanged"}
    /\ conn[v.connection].revision = v.revision
    => conn[v.connection].account = NoAccount /\ conn[v.connection].status = "pending"

\* Active SMTP connections never share a credential nor, in production, a mail
\* account or a sending domain.
SmtpIsolated ==
  \A c, d \in Smtp :
    conn[c].status = "active" /\ conn[d].status = "active" /\ c # d =>
      /\ conn[c].credential # conn[d].credential
      /\ Production => /\ MailAccount[conn[c].credential] # MailAccount[conn[d].credential]
                       /\ Domain[c] # Domain[d]
=============================================================================
