-------------------------- MODULE OidcLoginProofs ---------------------------
(***************************************************************************)
(* The safety properties of OidcLoginProperties, for every value of the    *)
(* constants.                                                              *)
(***************************************************************************)
EXTENDS OidcLoginProperties, TLAPS

USE LifetimeAssumption, MaxTimeAssumption, MaxRestoresAssumption,
    NoTransactionAssumption, NoBackupAssumption, IdleAssumption

\* The steps that touch neither a table nor a login.
WorldSteps ==
  DiscoverySucceeds \/ DiscoveryFails \/ LogoutAsks \/ ProviderFails \/ ProviderRecovers \/ Tick

LEMMA InitInvariant == Init => IInv
BY DEF Init, IInv, TypeOK, SingleUse, FreshOnly, Past, CallbackInv, SpareInv, Time, Table,
       Request

\* Type correctness of every step.
LEMMA TypeStep == TypeOK /\ [Next]_vars => TypeOK'
<1> SUFFICES ASSUME TypeOK, [Next]_vars PROVE TypeOK'
  OBVIOUS
<1>1. ASSUME NEW l \in Logins, LoginBegin(l) PROVE TypeOK'
  BY <1>1 DEF TypeOK, LoginBegin, Request
<1>2. ASSUME NEW l \in Logins, LoginInsert(l) PROVE TypeOK'
  <2>1. [expiresAt |-> ExpiryOf(logins[l].createdAt), consumedAt |-> NotConsumed] \in Transaction
    BY DEF TypeOK, Request, Time, ExpiryOf, Transaction, Instant
  <2>2. transactions' \in Table
    BY <1>2, <2>1 DEF TypeOK, LoginInsert, Table
  <2>3. logins' \in [Logins -> Request] /\ metadata' \in {"unset", "pending", "known", "failed"}
    BY <1>2 DEF TypeOK, LoginInsert, Request, Requested
  <2> QED
    BY <1>2, <2>2, <2>3 DEF TypeOK, LoginInsert
<1>3. ASSUME NEW l \in Logins, LoginAnswer(l) PROVE TypeOK'
  BY <1>3 DEF TypeOK, LoginAnswer, Request
<1>4. ASSUME NEW c \in Callbacks, CallbackBegin(c) PROVE TypeOK'
  BY <1>4 DEF TypeOK, CallbackBegin, Callback, Time, Instant
<1>5. ASSUME NEW c \in Callbacks, CallbackRead(c) PROVE TypeOK'
  BY <1>5 DEF TypeOK, CallbackRead, InPhase, Callback
<1>6. ASSUME NEW c \in Callbacks, CallbackConsume(c) PROVE TypeOK'
  <2> DEFINE l == callbacks[c].state
  <2>1. callbacks[c] \in Callback /\ l \in Logins /\ transactions[l] \in Transaction
    BY <1>6 DEF CallbackConsume, InPhase, Consumable, TypeOK, Callback, Table
  <2>2. transactions' \in Table
    BY <1>6, <2>1 DEF TypeOK, CallbackConsume, Table, Transaction, Callback
  <2>3. callbacks' \in [Callbacks -> Callback \cup {Idle}]
    BY <1>6, <2>1 DEF TypeOK, CallbackConsume, Callback, Transaction
  <2>4. metadata' \in {"unset", "pending", "known", "failed"}
    BY <1>6 DEF TypeOK, CallbackConsume, Requested
  <2> QED
    BY <1>6, <2>2, <2>3, <2>4 DEF TypeOK, CallbackConsume
<1>7. ASSUME NEW c \in Callbacks, CallbackDiscover(c) \/ CallbackExchange(c) PROVE TypeOK'
  BY <1>7 DEF TypeOK, CallbackDiscover, CallbackExchange, InPhase, Callback
<1>8. ASSUME NEW c \in Callbacks, CallbackCreate(c) \/ CallbackReject(c) PROVE TypeOK'
  BY <1>8 DEF TypeOK, CallbackCreate, CallbackReject, InPhase, Callback
<1>12. ASSUME NEW c \in Callbacks, CallbackConsumeFails(c) PROVE TypeOK'
  <2>1. transactions' \in Table
    BY <1>12 DEF TypeOK, CallbackConsumeFails, InPhase, Consumable, Table, Transaction, Callback
  <2> QED
    BY <1>12, <2>1 DEF TypeOK, CallbackConsumeFails
<1>9. CASE Restart \/ Backup \/ Restore
  <2>1. NewProcess => /\ logins' \in [Logins -> Request]
                      /\ callbacks' \in [Callbacks -> Callback \cup {Idle}]
                      /\ metadata' \in {"unset", "pending", "known", "failed"}
    BY DEF TypeOK, NewProcess, Request
  <2>2. CASE Restart
    BY <2>1, <2>2 DEF TypeOK, Restart
  <2>3. CASE Backup
    BY <2>3 DEF TypeOK, Backup
  <2>4. CASE Restore
    BY <2>1, <2>4 DEF TypeOK, Restore
  <2> QED
    BY <1>9, <2>2, <2>3, <2>4
<1>10. CASE WorldSteps
  <2>1. CASE DiscoverySucceeds \/ DiscoveryFails \/ LogoutAsks \/ ProviderRecovers
    BY <2>1 DEF TypeOK, DiscoverySucceeds, DiscoveryFails, LogoutAsks, Requested,
                ProviderRecovers
  <2>2. CASE ProviderFails
    <3>1. \A k \in Callback : [k EXCEPT !.steady = FALSE] \in Callback
      BY DEF Callback
    <3>2. callbacks' \in [Callbacks -> Callback \cup {Idle}]
      BY <2>2, <3>1 DEF TypeOK, ProviderFails
    <3> QED
      BY <2>2, <3>2 DEF TypeOK, ProviderFails
  <2>3. CASE Tick
    BY <2>3 DEF TypeOK, Tick, Time
  <2> QED
    BY <1>10, <2>1, <2>2, <2>3 DEF WorldSteps
<1>11. CASE UNCHANGED vars
  BY <1>11 DEF TypeOK, vars
<1> QED
  BY <1>1, <1>2, <1>3, <1>4, <1>5, <1>6, <1>7, <1>8, <1>9, <1>10, <1>11, <1>12
  DEF Next, CallbackStep, CallbackAnswered, WorldSteps

-----------------------------------------------------------------------------
(* What callbacks know.                                                    *)

\* A callback read the clock no later than now, and it consumed its transaction
\* before the expiry it remembers.
LEMMA CallbackStepInv == IInv /\ [Next]_vars => CallbackInv' /\ FreshOnly'
<1> SUFFICES ASSUME IInv, [Next]_vars PROVE CallbackInv' /\ FreshOnly'
  OBVIOUS
<1> DEFINE Claim == CallbackInv' /\ FreshOnly'
<1> SUFFICES Claim
  OBVIOUS
<1> USE DEF IInv, TypeOK, CallbackInv, FreshOnly, Past
<1> HIDE DEF Claim
<1>1. ASSUME NEW l \in Logins, LoginBegin(l) \/ LoginAnswer(l) PROVE Claim
  BY <1>1, SMTT(40) DEF LoginBegin, LoginAnswer, Claim, Request, Callback
<1>2. ASSUME NEW l \in Logins, LoginInsert(l) PROVE Claim
  BY <1>2 DEF LoginInsert, Claim, Request, Callback
<1>3. ASSUME NEW c \in Callbacks, CallbackBegin(c) PROVE Claim
  BY <1>3 DEF CallbackBegin, Claim, Callback, Time
<1>4. ASSUME NEW c \in Callbacks, CallbackRead(c) PROVE Claim
  BY <1>4 DEF CallbackRead, InPhase, Claim, Callback, Time
<1>5. ASSUME NEW c \in Callbacks, CallbackConsume(c) PROVE Claim
  <2>1. /\ callbacks[c] \in Callback
        /\ transactions[callbacks[c].state] \in Transaction
        /\ transactions[callbacks[c].state].expiresAt > callbacks[c].now
    BY <1>5 DEF CallbackConsume, InPhase, Consumable, Callback, Table
  <2>2. callbacks[c].startedAt < transactions[callbacks[c].state].expiresAt
    BY <1>5, <2>1 DEF CallbackConsume, InPhase, Callback, Transaction, Instant, Time
  <2> QED
    BY <1>5, <2>1, <2>2 DEF CallbackConsume, InPhase, Claim, Callback
<1>6. ASSUME NEW c \in Callbacks, CallbackDiscover(c) \/ CallbackExchange(c) PROVE Claim
  BY <1>6 DEF CallbackDiscover, CallbackExchange, InPhase, Claim, Callback
<1>7. ASSUME NEW c \in Callbacks, CallbackAnswered(c) PROVE Claim
  BY <1>7 DEF CallbackAnswered, CallbackCreate, CallbackReject, CallbackConsumeFails, Claim, Callback
<1>8. CASE Restart \/ Restore
  BY <1>8 DEF Restart, Restore, NewProcess, Claim
<1>9. CASE Backup \/ UNCHANGED vars
  BY <1>9 DEF Backup, vars, Claim
<1>10. CASE ProviderFails
  BY <1>10 DEF ProviderFails, Claim, Callback
<1>11. CASE DiscoverySucceeds \/ DiscoveryFails \/ LogoutAsks \/ ProviderRecovers
  BY <1>11 DEF DiscoverySucceeds, DiscoveryFails, LogoutAsks, ProviderRecovers, Claim
<1>12. CASE Tick
  BY <1>12 DEF Tick, Claim, Callback, Time
<1> QED
  BY <1>1, <1>2, <1>3, <1>4, <1>5, <1>6, <1>7, <1>8, <1>9, <1>10, <1>11, <1>12
  DEF Next, CallbackStep

-----------------------------------------------------------------------------
(* Single use.                                                             *)

\* Steps that leave tables, histories and the callbacks past the consumption alone.
LEMMA SpareKept ==
  ASSUME SpareInv,
         UNCHANGED <<transactions, established, restores>>,
         \A l \in Logins : logins'[l].phase \in {"idle", "inserting"}
                             => logins[l].phase \in {"idle", "inserting"},
         \A c \in Callbacks : Past(c)' => Past(c) /\ callbacks'[c].state = callbacks[c].state
  PROVE  SpareInv'
BY DEF SpareInv

\* A consumption moves the spare session of a login from its row to one callback, an
\* answer uses it up, and a restore is one more to spare for every login.
LEMMA SpareStep == IInv /\ [Next]_vars => SpareInv' /\ SingleUse'
<1> SUFFICES ASSUME IInv, [Next]_vars PROVE SpareInv' /\ SingleUse'
  OBVIOUS
<1> DEFINE Claim == SpareInv' /\ SingleUse'
<1> SUFFICES Claim
  OBVIOUS
<1> USE DEF IInv, TypeOK
<1> HIDE DEF Claim
<1>1. ASSUME NEW l \in Logins, LoginBegin(l) \/ LoginAnswer(l) PROVE Claim
  BY <1>1, SpareKept DEF LoginBegin, LoginAnswer, Request, Claim, SingleUse, Past
<1>2. ASSUME NEW l \in Logins, LoginInsert(l) PROVE Claim
  <2>1. \A c \in Callbacks : Past(c) => callbacks[c].state # l
    BY <1>2 DEF LoginInsert, Past, CallbackInv
  <2>2. established[l] = 0
    BY <1>2 DEF LoginInsert, SpareInv
  <2> QED
    BY <1>2, <2>1, <2>2
    DEF LoginInsert, SpareInv, SingleUse, Claim, Past, Table, Transaction, Request
<1>3. ASSUME NEW c \in Callbacks, CallbackBegin(c) PROVE Claim
  BY <1>3, SpareKept DEF CallbackBegin, Claim, SingleUse, Past
<1>4. ASSUME NEW c \in Callbacks, CallbackRead(c) PROVE Claim
  BY <1>4, SpareKept DEF CallbackRead, InPhase, Claim, SingleUse, Past, Callback
<1>5. ASSUME NEW c \in Callbacks, CallbackConsume(c) PROVE Claim
  <2> DEFINE l == callbacks[c].state
  <2>1. /\ callbacks[c] \in Callback /\ l \in Logins
        /\ transactions[l] \in Transaction
        /\ transactions[l] # NoTransaction
        /\ transactions[l].consumedAt = NotConsumed
    BY <1>5 DEF CallbackConsume, InPhase, Consumable, Callback, Table
  <2>2. established[l] <= restores
    BY <2>1 DEF SpareInv
  <2>3. \A d \in Callbacks : Past(d) => callbacks[d].state # l
    BY <2>1 DEF SpareInv
  <2>4. \A d \in Callbacks : /\ Past(d)' <=> Past(d) \/ d = c
                             /\ Past(d)' => callbacks'[d].state = callbacks[d].state
    BY <1>5, <2>1 DEF CallbackConsume, InPhase, Past, Callback
  <2>5. /\ transactions'[l] # NoTransaction
        /\ transactions'[l].consumedAt # NotConsumed
        /\ \A k \in Logins \ {l} : transactions'[k] = transactions[k]
    BY <1>5, <2>1 DEF CallbackConsume, Callback, Time, Transaction, NotConsumed, Table
  <2>6. logins[l].phase = "redirected"
    BY <1>5 DEF CallbackConsume, InPhase, CallbackInv
  <2>7. UNCHANGED <<logins, established, restores>>
    BY <1>5 DEF CallbackConsume
  <2> HIDE DEF l
  <2>8. ASSUME NEW k \in Logins
        PROVE  /\ logins'[k].phase \in {"idle", "inserting"} => established'[k] = 0
               /\ transactions'[k] # NoTransaction /\ transactions'[k].consumedAt = NotConsumed
                    => established'[k] <= restores'
               /\ \A d \in Callbacks : Past(d)' /\ callbacks'[d].state = k =>
                    /\ transactions'[k] # NoTransaction
                    /\ transactions'[k].consumedAt # NotConsumed
                    /\ established'[k] <= restores'
                    /\ \A e \in Callbacks : Past(e)' /\ callbacks'[e].state = k => e = d
    <3>1. CASE k = l
      BY <3>1, <2>2, <2>3, <2>4, <2>5, <2>6, <2>7
    <3>2. CASE k # l
      <4>1. \A d \in Callbacks : Past(d)' /\ callbacks'[d].state = k
                                   => Past(d) /\ callbacks[d].state = k
        BY <3>2, <2>4 DEF l
      <4> QED
        BY <3>2, <4>1, <2>5, <2>7 DEF SpareInv
    <3> QED
      BY <3>1, <3>2
  <2> QED
    BY <2>7, <2>8 DEF Claim, SpareInv, SingleUse
<1>6. ASSUME NEW c \in Callbacks, CallbackDiscover(c) \/ CallbackExchange(c) PROVE Claim
  BY <1>6, SpareKept
  DEF CallbackDiscover, CallbackExchange, InPhase, Claim, SingleUse, Past, Callback
<1>7. ASSUME NEW c \in Callbacks, CallbackCreate(c) PROVE Claim
  <2> DEFINE l == callbacks[c].state
  <2>1. callbacks[c] \in Callback /\ l \in Logins /\ Past(c)
    BY <1>7 DEF CallbackCreate, InPhase, Past, Callback
  <2>2. /\ established[l] <= restores
        /\ transactions[l] # NoTransaction
        /\ transactions[l].consumedAt # NotConsumed
        /\ \A d \in Callbacks : Past(d) /\ callbacks[d].state = l => d = c
    BY <2>1 DEF SpareInv
  <2>3. \A d \in Callbacks : Past(d)' => d # c /\ Past(d) /\ callbacks'[d] = callbacks[d]
    BY <1>7 DEF CallbackCreate, Past
  <2>4. /\ established'[l] = established[l] + 1
        /\ \A k \in Logins \ {l} : established'[k] = established[k]
    BY <1>7, <2>1 DEF CallbackCreate
  <2>5. logins[l].phase = "redirected"
    BY <2>1 DEF CallbackInv, Past
  <2>6. UNCHANGED <<logins, transactions, restores>>
    BY <1>7 DEF CallbackCreate
  <2>7. restores \in Nat /\ established[l] \in Nat
    BY <2>1
  <2> HIDE DEF l
  <2> QED
    BY <2>1, <2>2, <2>3, <2>4, <2>5, <2>6, <2>7 DEF Claim, SpareInv, SingleUse
<1>8. ASSUME NEW c \in Callbacks, CallbackReject(c) PROVE Claim
  BY <1>8, SpareKept DEF CallbackReject, Claim, SingleUse, Past
<1>13. ASSUME NEW c \in Callbacks, CallbackConsumeFails(c) PROVE Claim
  <2> DEFINE l == callbacks[c].state
  <2>1. CASE UNCHANGED transactions
    BY <1>13, <2>1, SpareKept DEF CallbackConsumeFails, Claim, SingleUse, Past
  <2>2. CASE Consumable(l, callbacks[c].now) /\ transactions' =
               [transactions EXCEPT ![l].consumedAt = callbacks[c].now]
    <3>1. /\ l \in Logins /\ callbacks[c].now \in Time
          /\ transactions[l] \in Transaction
          /\ transactions[l] # NoTransaction
          /\ transactions[l].consumedAt = NotConsumed
      BY <1>13, <2>2 DEF CallbackConsumeFails, InPhase, Consumable, Callback, Table
    <3>2. \A d \in Callbacks : Past(d)' => Past(d) /\ callbacks'[d].state = callbacks[d].state
      BY <1>13 DEF CallbackConsumeFails, Past
    <3>3. /\ transactions'[l] # NoTransaction
          /\ transactions'[l].consumedAt # NotConsumed
          /\ \A k \in Logins \ {l} : transactions'[k] = transactions[k]
      BY <2>2, <3>1 DEF Time, Transaction, NotConsumed, Table
    <3>4. UNCHANGED <<logins, established, restores>>
      BY <1>13 DEF CallbackConsumeFails
    <3> HIDE DEF l
    <3> QED
      BY <3>1, <3>2, <3>3, <3>4 DEF Claim, SpareInv, SingleUse
  <2> QED
    BY <1>13, <2>1, <2>2 DEF CallbackConsumeFails
<1>9. CASE Restart
  BY <1>9, SpareKept DEF Restart, NewProcess, Claim, SingleUse, Past, Request
<1>10. CASE Restore
  <2>1. \A c \in Callbacks : ~Past(c)'
    BY <1>10 DEF Restore, NewProcess, Past
  <2>2. \A l \in Logins : logins'[l].phase \in {"idle", "inserting"}
                            => logins[l].phase \in {"idle", "inserting"}
    BY <1>10 DEF Restore, NewProcess, Request
  <2>3. restores' = restores + 1 /\ UNCHANGED established
    BY <1>10 DEF Restore
  <2>4. restores \in Nat /\ \A l \in Logins : established[l] \in Nat
    OBVIOUS
  <2> QED
    BY <2>1, <2>2, <2>3, <2>4 DEF SpareInv, SingleUse, Claim
<1>11. CASE Backup \/ UNCHANGED vars
  BY <1>11, SpareKept DEF Backup, vars, Claim, SingleUse, Past
<1>12. CASE WorldSteps
  <2>1. \A c \in Callbacks : Past(c)' => Past(c) /\ callbacks'[c].state = callbacks[c].state
    BY <1>12 DEF WorldSteps, DiscoverySucceeds, DiscoveryFails, LogoutAsks, ProviderFails,
                 ProviderRecovers, Tick, Past, Callback
  <2> QED
    BY <1>12, <2>1, SpareKept
    DEF WorldSteps, DiscoverySucceeds, DiscoveryFails, LogoutAsks, ProviderFails,
        ProviderRecovers, Tick, Claim, SingleUse
<1> QED
  BY <1>1, <1>2, <1>3, <1>4, <1>5, <1>6, <1>7, <1>8, <1>9, <1>10, <1>11, <1>12,
     <1>13
  DEF Next, CallbackStep, CallbackAnswered, WorldSteps

-----------------------------------------------------------------------------

\* The inductive invariant: types, what callbacks remember of the clock, and where
\* the one session a login may still establish is accounted for.
THEOREM Invariance == Spec => []IInv
<1>1. IInv /\ [Next]_vars => IInv'
  BY TypeStep, CallbackStepInv, SpareStep DEF IInv
<1> QED
  BY InitInvariant, <1>1, PTL DEF Spec

\* Every variable keeps its type.
THEOREM TypeCorrect == Spec => []TypeOK
<1>1. IInv => TypeOK
  BY DEF IInv
<1> QED
  BY Invariance, <1>1, PTL

\* A login establishes at most one session, and one more after each restore.
THEOREM LoginsAreSingleUse == Spec => []SingleUse
<1>1. IInv => SingleUse
  BY DEF IInv
<1> QED
  BY Invariance, <1>1, PTL

\* No callback that came in at or after its login's expiry gets past consumption.
THEOREM LoginsAreFresh == Spec => []FreshOnly
<1>1. IInv => FreshOnly
  BY DEF IInv
<1> QED
  BY Invariance, <1>1, PTL
=============================================================================
