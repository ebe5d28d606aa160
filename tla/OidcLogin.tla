----------------------------- MODULE OidcLogin ------------------------------
(***************************************************************************)
(* Logging in through the OpenID provider: /auth/login stores a login      *)
(* transaction and redirects the browser with its state and nonce,         *)
(* /auth/callback consumes the transaction, asks the provider for the      *)
(* user's ID token and creates a session.  Both need the provider's        *)
(* metadata, which one shared promise caches for the life of the process.  *)
(*                                                                         *)
(* A login stands for its random state and nonce.  The provider and its    *)
(* network are external: while it is down nothing it is asked succeeds,    *)
(* and it hands a browser as many authorization codes for one redirect as  *)
(* the browser asks for, each good for one exchange.                       *)
(***************************************************************************)
EXTENDS Integers, FiniteSets

CONSTANTS
  Logins,         \* requests to /auth/login
  Callbacks,      \* requests to /auth/callback that can be in flight at once
  Lifetime,       \* lifetime of a login transaction, ten minutes in the code
  MaxTime,        \* bound on the clock
  MaxRestores,    \* bound on restores
  NoTransaction,  \* oidc_transactions has no row of that login
  NoBackup,       \* no backup was taken
  Idle            \* a slot without a callback

ASSUME LifetimeAssumption == Lifetime \in Nat \ {0}
ASSUME MaxTimeAssumption == MaxTime \in Nat
ASSUME MaxRestoresAssumption == MaxRestores \in Nat

Time == 0..MaxTime
Instant == 0..(MaxTime + Lifetime)
NotConsumed == -1

Transaction == [expiresAt : Instant, consumedAt : Time \cup {NotConsumed}]
Table == [Logins -> Transaction \cup {NoTransaction}]
Request == [phase : {"idle", "inserting", "discovering", "redirected", "failed"},
            createdAt : Time]

(***************************************************************************)
(* matching: the authorization code in the query was issued for the very   *)
(* login that its state names, so the nonces agree.  startedAt, expiresAt  *)
(* and steady are history: when the request came in, when the transaction  *)
(* it consumed was to expire, and that the provider has been up since.     *)
(***************************************************************************)
Callback == [state : Logins, matching : BOOLEAN, now : Time,
             phase : {"begun", "consuming", "discovering", "exchanging", "creating"},
             startedAt : Time, expiresAt : Instant, steady : BOOLEAN]

ASSUME NoTransactionAssumption == NoTransaction \notin Transaction
ASSUME NoBackupAssumption == NoBackup \notin Table
ASSUME IdleAssumption == Idle \notin Callback

VARIABLES
  clock,         \* clock.now(), monotone
  provider,      \* whether the provider answers properly
  metadata,      \* the promise oidcProviderMetadata
  transactions,  \* the oidc_transactions table
  backup,        \* the oidc_transactions table of the dump the operator keeps
  logins,        \* requests to /auth/login
  callbacks,     \* requests to /auth/callback in flight
  established,   \* history: sessions created for each login
  restores       \* history: restores so far

vars == <<clock, provider, metadata, transactions, backup, logins, callbacks,
          established, restores>>

TypeOK ==
  /\ clock \in Time
  /\ provider \in {"up", "down"}
  /\ metadata \in {"unset", "pending", "known", "failed"}
  /\ transactions \in Table
  /\ backup \in Table \cup {NoBackup}
  /\ logins \in [Logins -> Request]
  /\ callbacks \in [Callbacks -> Callback \cup {Idle}]
  /\ established \in [Logins -> Nat]
  /\ restores \in 0..MaxRestores

Init ==
  /\ clock = 0
  /\ provider = "up"
  /\ metadata = "unset"
  /\ transactions = [l \in Logins |-> NoTransaction]
  /\ backup = NoBackup
  /\ logins = [l \in Logins |-> [phase |-> "idle", createdAt |-> 0]]
  /\ callbacks = [c \in Callbacks |-> Idle]
  /\ established = [l \in Logins |-> 0]
  /\ restores = 0

-----------------------------------------------------------------------------
(* getOidcProviderMetadata: the first caller starts the discovery, every   *)
(* later one gets the same promise, whatever became of it.                 *)

Requested(promise) == IF promise = "unset" THEN "pending" ELSE promise

DiscoverySucceeds ==
  /\ metadata = "pending"
  /\ provider = "up"
  /\ metadata' = "known"
  /\ UNCHANGED <<clock, provider, transactions, backup, logins, callbacks, established,
                 restores>>

\* Fault: a discovery that gets no answer is never given up.
DiscoveryFails_Hanging ==
  metadata = "pending" /\ provider = "down" /\ UNCHANGED vars

DiscoveryFails ==
  /\ metadata = "pending"
  /\ provider = "down"
  /\ metadata' = "failed"
  /\ UNCHANGED <<clock, provider, transactions, backup, logins, callbacks, established,
                 restores>>

\* POST /auth/logout asks for the end-session endpoint.
LogoutAsks ==
  /\ metadata' = Requested(metadata)
  /\ UNCHANGED <<clock, provider, transactions, backup, logins, callbacks, established,
                 restores>>

-----------------------------------------------------------------------------
(* GET /auth/login.                                                        *)

\* OidcTransactionService.create reads the clock.
LoginBegin(l) ==
  /\ logins[l].phase = "idle"
  /\ logins' = [logins EXCEPT ![l] = [phase |-> "inserting", createdAt |-> clock]]
  /\ UNCHANGED <<clock, provider, metadata, transactions, backup, callbacks, established,
                 restores>>

\* Fault: a transaction is given the eight hours of a session.
ExpiryOf_Session(createdAt) == createdAt + 48 * Lifetime

ExpiryOf(createdAt) == createdAt + Lifetime

LoginInsert(l) ==
  /\ logins[l].phase = "inserting"
  /\ transactions' = [transactions EXCEPT
       ![l] = [expiresAt |-> ExpiryOf(logins[l].createdAt), consumedAt |-> NotConsumed]]
  /\ logins' = [logins EXCEPT ![l].phase = "discovering"]
  /\ metadata' = Requested(metadata)
  /\ UNCHANGED <<clock, provider, backup, callbacks, established, restores>>

\* The redirect is sent, or the rejected promise makes an error page of it.
LoginAnswer(l) ==
  /\ logins[l].phase = "discovering"
  /\ metadata \in {"known", "failed"}
  /\ logins' = [logins EXCEPT ![l].phase =
                  IF metadata = "known" THEN "redirected" ELSE "failed"]
  /\ UNCHANGED <<clock, provider, metadata, transactions, backup, callbacks, established,
                 restores>>

-----------------------------------------------------------------------------
(* GET /auth/callback.                                                     *)

\* Only the browser that was redirected knows the state.
CallbackBegin(c) ==
  /\ callbacks[c] = Idle
  /\ \E l \in Logins, matching \in BOOLEAN :
       /\ logins[l].phase = "redirected"
       /\ callbacks' = [callbacks EXCEPT ![c] =
            [state |-> l, matching |-> matching, now |-> clock, phase |-> "begun",
             startedAt |-> clock, expiresAt |-> 0, steady |-> provider = "up"]]
  /\ UNCHANGED <<clock, provider, metadata, transactions, backup, logins, established,
                 restores>>

InPhase(c, phase) == callbacks[c] # Idle /\ callbacks[c].phase = phase

\* After the preHandler's lookup, OidcTransactionService.consume reads the clock.
CallbackRead(c) ==
  /\ InPhase(c, "begun")
  /\ callbacks' = [callbacks EXCEPT ![c].now = clock, ![c].phase = "consuming"]
  /\ UNCHANGED <<clock, provider, metadata, transactions, backup, logins, established,
                 restores>>

\* Fault: the UPDATE does not ask whether the row is consumed.
Consumable_Again(l, now) == transactions[l] # NoTransaction /\ transactions[l].expiresAt > now

\* Fault: the row can still be consumed at the instant it expires.
Consumable_AtExpiry(l, now) ==
  /\ transactions[l] # NoTransaction
  /\ transactions[l].consumedAt = NotConsumed
  /\ transactions[l].expiresAt >= now

Consumable(l, now) ==
  /\ transactions[l] # NoTransaction
  /\ transactions[l].consumedAt = NotConsumed
  /\ transactions[l].expiresAt > now

\* One UPDATE ... RETURNING, then the metadata is asked for.
CallbackConsume(c) ==
  LET l == callbacks[c].state
      now == callbacks[c].now IN
  /\ InPhase(c, "consuming")
  /\ Consumable(l, now)
  /\ transactions' = [transactions EXCEPT ![l].consumedAt = now]
  /\ callbacks' = [callbacks EXCEPT ![c].phase = "discovering",
                                    ![c].expiresAt = transactions[l].expiresAt]
  /\ metadata' = Requested(metadata)
  /\ UNCHANGED <<clock, provider, backup, logins, established, restores>>

\* The UPDATE fails, or it is done and its answer is lost with the connection: the
\* handler has no transaction and the request ends in an error.
CallbackConsumeFails(c) ==
  /\ InPhase(c, "consuming")
  /\ \/ UNCHANGED transactions
     \/ /\ Consumable(callbacks[c].state, callbacks[c].now)
        /\ transactions' =
             [transactions EXCEPT ![callbacks[c].state].consumedAt = callbacks[c].now]
  /\ callbacks' = [callbacks EXCEPT ![c] = Idle]
  /\ UNCHANGED <<clock, provider, metadata, backup, logins, established, restores>>

CallbackDiscover(c) ==
  /\ InPhase(c, "discovering")
  /\ metadata = "known"
  /\ callbacks' = [callbacks EXCEPT ![c].phase = "exchanging"]
  /\ UNCHANGED <<clock, provider, metadata, transactions, backup, logins, established,
                 restores>>

\* The token endpoint and the signing keys answer, and the ID token is valid.
CallbackExchange(c) ==
  /\ InPhase(c, "exchanging")
  /\ provider = "up"
  /\ callbacks[c].matching
  /\ callbacks' = [callbacks EXCEPT ![c].phase = "creating"]
  /\ UNCHANGED <<clock, provider, metadata, transactions, backup, logins, established,
                 restores>>

\* SessionService.create inserts the session; the reply sets its cookie.
CallbackCreate(c) ==
  /\ InPhase(c, "creating")
  /\ established' = [established EXCEPT ![callbacks[c].state] = @ + 1]
  /\ callbacks' = [callbacks EXCEPT ![c] = Idle]
  /\ UNCHANGED <<clock, provider, metadata, transactions, backup, logins, restores>>

\* Every way to the invalid-callback page: the transaction is unknown, consumed or
\* expired; the promise was rejected; the exchange failed; the INSERT failed.  A
\* consumed transaction stays consumed.
CallbackReject(c) ==
  /\ \/ InPhase(c, "consuming") /\ ~Consumable(callbacks[c].state, callbacks[c].now)
     \/ InPhase(c, "discovering") /\ metadata = "failed"
     \/ InPhase(c, "exchanging")
     \/ InPhase(c, "creating")
  /\ callbacks' = [callbacks EXCEPT ![c] = Idle]
  /\ UNCHANGED <<clock, provider, metadata, transactions, backup, logins, established,
                 restores>>

-----------------------------------------------------------------------------
(* The container, the operator's runbooks, the provider.                   *)

\* A new process: no request survives it, nor does the promise.
NewProcess ==
  /\ metadata' = "unset"
  /\ callbacks' = [c \in Callbacks |-> Idle]
  /\ logins' = [l \in Logins |->
                  IF logins[l].phase \in {"inserting", "discovering"}
                  THEN [logins[l] EXCEPT !.phase = "failed"] ELSE logins[l]]

Restart ==
  /\ NewProcess
  /\ UNCHANGED <<clock, provider, transactions, backup, established, restores>>

Backup ==
  /\ backup' = transactions
  /\ UNCHANGED <<clock, provider, metadata, transactions, logins, callbacks, established,
                 restores>>

\* session-invalidate and session-cleanup do not touch oidc_transactions.
Restore ==
  /\ backup # NoBackup
  /\ restores < MaxRestores
  /\ NewProcess
  /\ transactions' = backup
  /\ restores' = restores + 1
  /\ UNCHANGED <<clock, provider, backup, established>>

ProviderFails ==
  /\ provider = "up"
  /\ provider' = "down"
  /\ callbacks' = [c \in Callbacks |-> IF callbacks[c] = Idle THEN Idle
                                       ELSE [callbacks[c] EXCEPT !.steady = FALSE]]
  /\ UNCHANGED <<clock, metadata, transactions, backup, logins, established, restores>>

ProviderRecovers ==
  /\ provider = "down"
  /\ provider' = "up"
  /\ UNCHANGED <<clock, metadata, transactions, backup, logins, callbacks, established,
                 restores>>

Tick ==
  /\ clock < MaxTime
  /\ clock' = clock + 1
  /\ UNCHANGED <<provider, metadata, transactions, backup, logins, callbacks, established,
                 restores>>

CallbackAnswered(c) ==
  CallbackCreate(c) \/ CallbackReject(c) \/ CallbackConsumeFails(c)

CallbackStep(c) ==
  CallbackRead(c) \/ CallbackConsume(c) \/ CallbackDiscover(c) \/ CallbackExchange(c)
    \/ CallbackAnswered(c)

Next ==
  \/ \E l \in Logins : LoginBegin(l) \/ LoginInsert(l) \/ LoginAnswer(l)
  \/ \E c \in Callbacks : CallbackBegin(c) \/ CallbackStep(c)
  \/ DiscoverySucceeds \/ DiscoveryFails \/ LogoutAsks
  \/ Restart \/ Backup \/ Restore
  \/ ProviderFails \/ ProviderRecovers \/ Tick

Spec == Init /\ [][Next]_vars

(***************************************************************************)
(* The event loop resumes every handler whose promise is settled, and      *)
(* fetch settles the discovery: with the provider's answer or with an      *)
(* error.  Nothing makes a user, the provider or the operator act.         *)
(***************************************************************************)
Fairness ==
  /\ \A c \in Callbacks : WF_vars(CallbackStep(c))
  /\ WF_vars(DiscoverySucceeds \/ DiscoveryFails)

FairSpec == Spec /\ Fairness
=============================================================================
