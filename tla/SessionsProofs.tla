--------------------------- MODULE SessionsProofs ---------------------------
(***************************************************************************)
(* The properties of SessionsProperties, for every value of the constants. *)
(***************************************************************************)
EXTENDS SessionsProperties, FiniteSetTheorems, TLAPS

USE SidsAssumption, LifetimeAssumption, LimitAssumption, MaxTimeAssumption,
    NoSessionAssumption, NoBackupAssumption, IdleAssumption

\* The steps of requests that write nothing but the slots of requests.
SlotSteps ==
  \E r \in Requests :
    CreateBegin(r) \/ LookupRead(r) \/ LookupCheck(r) \/ LookupDone(r) \/ LogoutBegin(r)

LEMMA InitInvariant == Init => IInv
BY DEF Init, IInv, TypeOK, TableInv, LiveSessionsKept, HandlerInv, CleanupInv, RecoveryInv,
       RestoredEmpty, Recorded, Live, NoneOf, Time, Table, NotIssued, Cleaners

\* An UPDATE that revokes rows keeps the table a table and touches no other row.
LEMMA RevokedTable ==
  ASSUME TypeOK, NEW S \in SUBSET Sids, NEW now \in Time
  PROVE  /\ Revoked(S, now) \in Table
         /\ \A s \in Sids :
              /\ Revoked(S, now)[s] = NoSession <=> sessions[s] = NoSession
              /\ sessions[s] # NoSession =>
                   /\ Revoked(S, now)[s].expiresAt = sessions[s].expiresAt
                   /\ Revoked(S, now)[s].revokedAt =
                        IF s \in S /\ sessions[s].revokedAt = NotRevoked
                        THEN now ELSE sessions[s].revokedAt
<1>1. \A s \in Sids : sessions[s] \in Session \cup {NoSession}
  BY DEF TypeOK, Table
<1>2. \A row \in Session : [row EXCEPT !.revokedAt = now] \in Session
  BY DEF Session
<1>3. \A s \in Sids : Revoked(S, now)[s] =
        IF s \in S /\ sessions[s] # NoSession /\ sessions[s].revokedAt = NotRevoked
        THEN [sessions[s] EXCEPT !.revokedAt = now] ELSE sessions[s]
  BY DEF Revoked, Revocable
<1>4. \A s \in Sids : Revoked(S, now)[s] \in Session \cup {NoSession}
  BY <1>1, <1>2, <1>3
<1>5. Revoked(S, now) \in Table
  BY <1>4 DEF Revoked, Table
<1> QED
  BY <1>1, <1>2, <1>3, <1>5 DEF Session

-----------------------------------------------------------------------------
(* Types.                                                                  *)

LEMMA TypeStep == TypeOK /\ HandlerInv /\ [Next]_vars => TypeOK'
<1> SUFFICES ASSUME TypeOK, HandlerInv, [Next]_vars PROVE TypeOK'
  OBVIOUS
<1>1. ASSUME NEW r \in Requests, CreateBegin(r) PROVE TypeOK'
  BY <1>1 DEF TypeOK, CreateBegin, Creation
<1>2. ASSUME NEW r \in Requests, CreateInsert(r) PROVE TypeOK'
  <2> DEFINE s == creations[r].sid
             expiry == ExpiryOf(creations[r].createdAt)
  <2>1. s \in Sids /\ expiry \in Instant
    BY <1>2 DEF TypeOK, CreateInsert, Creation, ExpiryOf, Instant, Time
  <2>2. [expiresAt |-> expiry, revokedAt |-> NotRevoked] \in Session
    BY <2>1 DEF Session
  <2>3. sessions' \in Table /\ issued' \in [Sids -> Instant \cup {NotIssued}]
    BY <1>2, <2>1, <2>2 DEF TypeOK, CreateInsert, Table
  <2> QED
    BY <1>2, <2>3 DEF TypeOK, CreateInsert
<1>3. ASSUME NEW r \in Requests, LookupRead(r) PROVE TypeOK'
  <2>1. PICK s \in Sids :
          lookups' = [lookups EXCEPT ![r] = [sid |-> s, row |-> sessions[s],
                                             live |-> Live(s), answer |-> "none"]]
    BY <1>3 DEF LookupRead
  <2>2. Live(s) \in BOOLEAN /\ sessions[s] \in Session \cup {NoSession}
    BY DEF Live, TypeOK, Table
  <2>3. [sid |-> s, row |-> sessions[s], live |-> Live(s), answer |-> "none"] \in Lookup
    BY <2>2, Zenon DEF Lookup
  <2> HIDE DEF Live
  <2>4. lookups' \in [Requests -> Lookup \cup {Idle}]
    BY <2>1, <2>3, Zenon DEF TypeOK
  <2> QED
    BY <1>3, <2>4 DEF TypeOK, LookupRead
<1>4. ASSUME NEW r \in Requests, LookupCheck(r) PROVE TypeOK'
  <2>1. lookups[r] \in Lookup
    BY <1>4 DEF TypeOK, LookupCheck
  <2>2. \A a \in {"admitted", "refused"} : [lookups[r] EXCEPT !.answer = a] \in Lookup
    BY <2>1 DEF Lookup
  <2>3. lookups' \in [Requests -> Lookup \cup {Idle}]
    BY <1>4, <2>2 DEF TypeOK, LookupCheck
  <2> QED
    BY <1>4, <2>3 DEF TypeOK, LookupCheck
<1>5. ASSUME NEW r \in Requests, LookupDone(r) PROVE TypeOK'
  BY <1>5 DEF TypeOK, LookupDone
<1>6. ASSUME NEW r \in Requests, LogoutBegin(r) PROVE TypeOK'
  BY <1>6 DEF TypeOK, LogoutBegin, Logout
<1>7. ASSUME NEW r \in Requests, LogoutRevoke(r) PROVE TypeOK'
  <2>1. logouts[r] \in Logout
    BY <1>7 DEF TypeOK, LogoutRevoke
  <2>2. sessions' \in Table
    BY <1>7, <2>1, RevokedTable DEF LogoutRevoke, Logout
  <2>3. ended' \subseteq Sids
    BY <1>7, <2>1 DEF TypeOK, LogoutRevoke, Logout, Revocable
  <2> QED
    BY <1>7, <2>2, <2>3 DEF TypeOK, LogoutRevoke
<1>8. CASE InvalidateAll
  <2>1. sessions' \in Table
    BY <1>8, RevokedTable DEF InvalidateAll, TypeOK, Time
  <2> QED
    BY <1>8, <2>1 DEF TypeOK, InvalidateAll, Revocable, handlers
<1>9. ASSUME NEW c \in Cleaners, CleanupBegin(c) PROVE TypeOK'
  BY <1>9 DEF TypeOK, CleanupBegin, Cleanup, handlers, history
<1>10. ASSUME NEW c \in Cleaners, CleanupSelect(c) PROVE TypeOK'
  <2>1. PICK ids \in SUBSET Sids :
          cleanups' = [cleanups EXCEPT ![c].selected = TRUE, ![c].ids = ids]
    BY <1>10 DEF CleanupSelect
  <2>2. cleanups[c] \in Cleanup
    BY <1>10 DEF CleanupSelect, TypeOK
  <2>3. [cleanups[c] EXCEPT !.selected = TRUE, !.ids = ids] \in Cleanup
    BY <2>2 DEF Cleanup
  <2>4. cleanups' = [cleanups EXCEPT ![c] = [cleanups[c] EXCEPT !.selected = TRUE, !.ids = ids]]
    BY <2>1, <2>2 DEF TypeOK
  <2>5. cleanups' \in [Cleaners -> Cleanup \cup {Idle}]
    BY <2>3, <2>4 DEF TypeOK
  <2> QED
    BY <1>10, <2>5 DEF TypeOK, CleanupSelect, handlers, history
<1>11. ASSUME NEW c \in Cleaners, CleanupDelete(c) PROVE TypeOK'
  BY <1>11 DEF TypeOK, CleanupDelete, Table, handlers, history
<1>12. ASSUME NEW c \in Cleaners, CleanupFail(c) PROVE TypeOK'
  BY <1>12 DEF TypeOK, CleanupFail, handlers, history
<1>13. CASE Stop \/ Backup
  <2>1. Stop => TypeOK'
    BY DEF TypeOK, Stop, NoneOf, Cleaners, history
  <2>2. Backup => TypeOK'
    BY DEF TypeOK, Backup, handlers, history
  <2> QED
    BY <1>13, <2>1, <2>2
<1>14. CASE Restore
  BY <1>14 DEF TypeOK, Restore, handlers
<1>15. CASE Tick \/ UNCHANGED vars
  <2>1. Tick => TypeOK'
    BY DEF TypeOK, Tick, Time, handlers, history
  <2>2. UNCHANGED vars => TypeOK'
    BY DEF TypeOK, vars
  <2> QED
    BY <1>15, <2>1, <2>2
<1> QED
  BY <1>1, <1>2, <1>3, <1>4, <1>5, <1>6, <1>7, <1>8, <1>9, <1>10, <1>11, <1>12, <1>13,
     <1>14, <1>15
  DEF Next

-----------------------------------------------------------------------------
(* What the table says of issued and ended sessions.                       *)

\* A step that does not change who is live keeps tables and rows accounted for.
LEMMA TableKept ==
  ASSUME TypeOK, TableInv, LiveSessionsKept,
         UNCHANGED <<clock, sessions, backup, issued, ended>>,
         recovery' # "restored" => recovery # "restored"
  PROVE  TableInv' /\ LiveSessionsKept'
BY DEF TableInv, LiveSessionsKept, Recorded, Live

\* Rows revoked by an UPDATE that adds them to the ended ones.
LEMMA RevocationKept ==
  ASSUME TypeOK, TableInv, LiveSessionsKept,
         NEW S \in SUBSET Sids, NEW now \in Time, now <= clock,
         sessions' = Revoked(S, now), ended' = ended \cup Revocable(S),
         UNCHANGED <<clock, backup, issued>>,
         \/ recovery' = recovery
         \/ S = Sids
  PROVE  TableInv' /\ LiveSessionsKept'
<1> DEFINE T == Revoked(S, now)
<1>1. \A s \in Sids :
        /\ T[s] = NoSession <=> sessions[s] = NoSession
        /\ sessions[s] # NoSession =>
             /\ T[s].expiresAt = sessions[s].expiresAt
             /\ T[s].revokedAt = IF s \in S /\ sessions[s].revokedAt = NotRevoked
                                 THEN now ELSE sessions[s].revokedAt
  BY RevokedTable
<1>2. now # NotRevoked /\ now \in Int
  BY DEF Time, NotRevoked
<1>3. \A s \in Sids : sessions[s] # NoSession =>
        /\ sessions[s].revokedAt \in Int
        /\ issued[s] = sessions[s].expiresAt
        /\ issued[s] # NotIssued
  BY DEF TypeOK, Table, Session, TableInv, Recorded, Time, Instant, NotIssued, NotRevoked
<1>4. Recorded(sessions)' /\ (backup # NoBackup => Recorded(backup))'
  BY <1>1 DEF TableInv, Recorded
<1>5. \A s \in ended' : issued'[s] # NotIssued
  BY <1>3 DEF TableInv, Revocable
<1>6. ASSUME NEW s \in Sids, sessions'[s] # NoSession
      PROVE  /\ sessions'[s].revokedAt # NotRevoked => s \in ended'
             /\ recovery' # "restored" /\ s \in ended' => sessions'[s].revokedAt # NotRevoked
  <2>1. sessions[s] # NoSession /\ sessions'[s] = T[s]
    BY <1>1, <1>6
  <2>2. s \in Revocable(S) <=> s \in S /\ sessions[s].revokedAt = NotRevoked
    BY <2>1 DEF Revocable
  <2>3. CASE s \in S /\ sessions[s].revokedAt = NotRevoked
    BY <1>1, <1>2, <2>1, <2>2, <2>3
  <2>4. CASE ~(s \in S /\ sessions[s].revokedAt = NotRevoked)
    <3>1. sessions'[s].revokedAt = sessions[s].revokedAt /\ (s \in ended' <=> s \in ended)
      BY <1>1, <2>1, <2>2, <2>4
    <3>2. CASE recovery' = recovery
      BY <2>1, <3>1, <3>2 DEF TableInv
    <3>3. CASE S = Sids
      BY <2>1, <2>4, <3>1, <3>3 DEF TableInv
    <3> QED
      BY <3>2, <3>3
  <2> QED
    BY <2>3, <2>4
<1>7. ASSUME NEW s \in Sids, Live(s)'
      PROVE  sessions'[s] # NoSession /\ sessions'[s].revokedAt = NotRevoked
  <2>1. Live(s) /\ s \notin Revocable(S)
    BY <1>7 DEF Live
  <2>2. sessions[s] # NoSession /\ sessions[s].revokedAt = NotRevoked
    BY <2>1 DEF LiveSessionsKept
  <2> QED
    BY <1>1, <2>1, <2>2 DEF Revocable
<1> QED
  BY <1>4, <1>5, <1>6, <1>7 DEF TableInv, LiveSessionsKept

LEMMA TableStep == IInv /\ [Next]_vars => TableInv' /\ LiveSessionsKept'
<1> SUFFICES ASSUME IInv, [Next]_vars PROVE TableInv' /\ LiveSessionsKept'
  OBVIOUS
<1> USE DEF IInv
<1>1. CASE SlotSteps
  <2>1. UNCHANGED <<clock, sessions, backup, issued, ended, recovery>>
    BY <1>1 DEF SlotSteps, CreateBegin, LookupRead, LookupCheck, LookupDone, LogoutBegin
  <2> QED
    BY <2>1, TableKept
<1>2. ASSUME NEW r \in Requests, CreateInsert(r) PROVE TableInv' /\ LiveSessionsKept'
  <2> DEFINE s == creations[r].sid
             expiry == ExpiryOf(creations[r].createdAt)
             row == [expiresAt |-> expiry, revokedAt |-> NotRevoked]
  <2>1. s \in Sids /\ expiry \in Nat /\ issued[s] = NotIssued
    BY <1>2 DEF CreateInsert, TypeOK, Creation, ExpiryOf, Time, HandlerInv
  <2>2. /\ sessions'[s] = row /\ issued'[s] = expiry
        /\ \A k \in Sids \ {s} : sessions'[k] = sessions[k] /\ issued'[k] = issued[k]
        /\ UNCHANGED <<clock, recovery, backup, ended>>
    BY <1>2, <2>1 DEF CreateInsert, TypeOK, Table
  <2>3. sessions[s] = NoSession /\ s \notin ended /\ (backup # NoBackup => backup[s] = NoSession)
    <3>1. ASSUME NEW table \in Table, Recorded(table), table[s] # NoSession PROVE FALSE
      <4>1. table[s] \in Session
        BY <2>1, <3>1 DEF Table
      <4>2. table[s].expiresAt \in Nat
        BY <4>1 DEF Session, Instant
      <4>3. table[s].expiresAt = NotIssued
        BY <2>1, <3>1 DEF Recorded
      <4> QED
        BY <4>2, <4>3 DEF NotIssued
    <3> QED
      BY <2>1, <3>1 DEF TableInv, TypeOK
  <2>4. expiry # NotIssued /\ NotRevoked <= clock
    BY <2>1 DEF NotIssued, NotRevoked, TypeOK, Time
  <2>11. row \in Session
    BY <1>2, <2>1 DEF Session, CreateInsert, TypeOK, Creation, ExpiryOf, Instant, Time
  <2>12. row.expiresAt = expiry /\ row.revokedAt = NotRevoked
    OBVIOUS
  <2> HIDE DEF s, expiry, row
  <2>5. Recorded(sessions)'
    BY <2>1, <2>2, <2>4, <2>12 DEF TableInv, Recorded
  <2>6. backup' # NoBackup => Recorded(backup)'
    BY <2>1, <2>2, <2>3 DEF TableInv, Recorded
  <2>7. \A k \in Sids : sessions'[k] # NoSession =>
          /\ sessions'[k].revokedAt # NotRevoked => k \in ended'
          /\ recovery' # "restored" /\ k \in ended' => sessions'[k].revokedAt # NotRevoked
    BY <2>1, <2>2, <2>3, <2>12 DEF TableInv
  <2>8. \A k \in ended' : issued'[k] # NotIssued
    BY <2>1, <2>2, <2>4 DEF TableInv, TypeOK
  <2>9. TableInv'
    BY <2>5, <2>6, <2>7, <2>8 DEF TableInv
  <2>10. LiveSessionsKept'
    <3>1. \A k \in Sids \ {s} : Live(k)' => Live(k)
      BY <2>2 DEF Live
    <3>2. sessions'[s] # NoSession /\ sessions'[s].revokedAt = NotRevoked
      BY <2>2, <2>11, <2>12
    <3> QED
      BY <2>2, <3>1, <3>2 DEF LiveSessionsKept
  <2> QED
    BY <2>9, <2>10
<1>3. ASSUME NEW r \in Requests, LogoutRevoke(r) PROVE TableInv' /\ LiveSessionsKept'
  <2> DEFINE S == {logouts[r].sid}
             now == logouts[r].revokedAt
  <2>1. S \in SUBSET Sids /\ now \in Time /\ now <= clock
    BY <1>3 DEF LogoutRevoke, TypeOK, Logout, HandlerInv
  <2>2. /\ sessions' = Revoked(S, now) /\ ended' = ended \cup Revocable(S)
        /\ UNCHANGED <<clock, backup, issued, recovery>>
    BY <1>3 DEF LogoutRevoke
  <2> HIDE DEF S, now
  <2> QED
    BY <2>1, <2>2, RevocationKept
<1>4. CASE InvalidateAll
  <2>1. PICK now \in 0..clock : sessions' = Revoked(Sids, now)
    BY <1>4 DEF InvalidateAll
  <2>2. now \in Time /\ now <= clock
    BY DEF TypeOK, Time
  <2> QED
    BY <1>4, <2>1, <2>2, RevocationKept DEF InvalidateAll
<1>5. ASSUME NEW c \in Cleaners, CleanupBegin(c) \/ CleanupSelect(c) \/ CleanupFail(c)
      PROVE  TableInv' /\ LiveSessionsKept'
  BY <1>5, TableKept DEF CleanupBegin, CleanupSelect, CleanupFail, MayBoot, history
<1>6. ASSUME NEW c \in Cleaners, CleanupDelete(c) PROVE TableInv' /\ LiveSessionsKept'
  <2>1. \A s \in Sids : \/ sessions'[s] = sessions[s]
                        \/ sessions'[s] = NoSession /\ s \in cleanups[c].ids
    BY <1>6 DEF CleanupDelete
  <2>2. \A s \in cleanups[c].ids : ~Live(s)
    BY <1>6 DEF CleanupDelete, CleanupInv
  <2>3. UNCHANGED <<clock, backup, issued, ended>> /\ (recovery' # recovery => recovery # "restored")
    BY <1>6 DEF CleanupDelete, history
  <2>4. TableInv'
    BY <2>1, <2>3 DEF TableInv, Recorded
  <2>5. LiveSessionsKept'
    BY <2>1, <2>2, <2>3 DEF LiveSessionsKept, Live
  <2> QED
    BY <2>4, <2>5
<1>7. CASE Stop
  BY <1>7, TableKept DEF Stop, history
<1>8. CASE Backup
  BY <1>8 DEF Backup, history, TableInv, LiveSessionsKept, Recorded, Live
<1>9. CASE Restore
  <2>1. /\ sessions' = backup /\ backup # NoBackup /\ backup' \in {backup, sessions}
        /\ recovery' = "restored" /\ UNCHANGED <<clock, issued>>
        /\ ended' = {s \in Sids : issued[s] # NotIssued}
    BY <1>9 DEF Restore
  <2>2. Recorded(sessions)' /\ (backup' # NoBackup => Recorded(backup)')
    BY <2>1 DEF TableInv, Recorded
  <2>3. \A s \in Sids : sessions'[s] # NoSession => s \in ended'
    BY <2>1 DEF TableInv, Recorded, TypeOK, Table, Session, Instant, NotIssued
  <2>4. TableInv'
    BY <2>1, <2>2, <2>3 DEF TableInv
  <2>5. \A s \in Sids : ~Live(s)'
    BY <2>1 DEF Live, TypeOK, Time, NotIssued
  <2> QED
    BY <2>4, <2>5 DEF LiveSessionsKept
<1>10. CASE Tick
  <2>1. /\ clock' = clock + 1 /\ clock \in Nat
        /\ UNCHANGED <<sessions, backup, issued, ended, recovery>>
    BY <1>10 DEF Tick, history, TypeOK, Time
  <2>2. \A s \in Sids : Live(s)' => Live(s)
    BY <2>1 DEF Live, TypeOK, Instant, NotIssued
  <2>3. Recorded(sessions)' /\ (backup # NoBackup => Recorded(backup)')
    BY <2>1 DEF TableInv, Recorded, TypeOK, Table, Session, Time, NotRevoked
  <2> QED
    BY <2>1, <2>2, <2>3 DEF TableInv, LiveSessionsKept
<1>11. CASE UNCHANGED vars
  BY <1>11, TableKept DEF vars
<1> QED
  BY <1>1, <1>2, <1>3, <1>4, <1>5, <1>6, <1>7, <1>8, <1>9, <1>10, <1>11
  DEF Next, SlotSteps

-----------------------------------------------------------------------------
(* What requests in flight know.                                           *)

\* A session without a row, or with a dead one, is told from a live one by its row.
LEMMA RowTellsLife ==
  ASSUME IInv, NEW s \in Sids, recovery # "restored"
  PROVE  /\ Valid(sessions[s]) => Live(s)
         /\ Live(s) => /\ sessions[s] # NoSession
                       /\ sessions[s].revokedAt = NotRevoked
                       /\ sessions[s].expiresAt = issued[s]
BY DEF IInv, Valid, Live, TableInv, Recorded, LiveSessionsKept

\* Steps that touch no slot of a request, nor what the slots speak of.
LEMMA HandlerKept ==
  ASSUME HandlerInv, UNCHANGED <<clock, handlers, issued>>,
         app' = "serving" \/ handlers = <<NoneOf(Requests), NoneOf(Requests), NoneOf(Requests)>>
                          \/ app' = app
  PROVE  HandlerInv'
BY DEF HandlerInv, handlers, Valid

LEMMA HandlerStep == IInv /\ [Next]_vars => HandlerInv'
<1> SUFFICES ASSUME IInv, [Next]_vars PROVE HandlerInv'
  OBVIOUS
<1> USE DEF IInv
<1>1. ASSUME NEW r \in Requests, CreateBegin(r) PROVE HandlerInv'
  BY <1>1 DEF CreateBegin, HandlerInv, TypeOK, Creation, Valid
<1>2. ASSUME NEW r \in Requests, CreateInsert(r) PROVE HandlerInv'
  <2> DEFINE s == creations[r].sid
             expiry == ExpiryOf(creations[r].createdAt)
  <2>1. /\ creations[r] \in Creation /\ s \in Sids /\ issued[s] = NotIssued /\ app = "serving"
        /\ \A q \in Requests \ {r} : creations[q] # Idle => creations[q].sid # s
    BY <1>2 DEF CreateInsert, TypeOK, Creation, HandlerInv, NoneOf
  <2>2. /\ \A k \in Sids \ {s} : issued'[k] = issued[k]
        /\ \A q \in Requests : creations'[q] = IF q = r THEN Idle ELSE creations[q]
        /\ UNCHANGED <<clock, app, lookups, logouts>>
    BY <1>2 DEF CreateInsert, TypeOK
  <2>3. ASSUME NEW q \in Requests, lookups[q] # Idle, lookups[q].live
        PROVE  lookups[q].sid # s /\ lookups[q].sid \in Sids
    <3>1. lookups[q] \in Lookup /\ lookups[q].row \in Session
      BY <2>3 DEF TypeOK, Lookup, HandlerInv
    <3>2. lookups[q].row.expiresAt \in Nat /\ lookups[q].row.expiresAt = issued[lookups[q].sid]
      BY <2>3, <3>1 DEF HandlerInv, Session, Instant
    <3> QED
      BY <2>1, <3>1, <3>2 DEF NotIssued, Lookup
  <2>4. \A q \in Requests : creations'[q] # Idle => creations'[q] = creations[q] /\ q # r
                                                    /\ creations[q] \in Creation
    BY <2>2 DEF TypeOK
  <2> HIDE DEF s, expiry
  <2>5. \A q \in Requests : creations'[q] # Idle =>
          /\ issued'[creations'[q].sid] = NotIssued
          /\ \A k \in Requests \ {q} :
               creations'[k] # Idle => creations'[k].sid # creations'[q].sid
    <3>1. ASSUME NEW q \in Requests, creations'[q] # Idle
          PROVE  /\ creations[q].sid \in Sids \ {s} /\ issued[creations[q].sid] = NotIssued
                 /\ \A k \in Requests \ {q} :
                      creations[k] # Idle => creations[k].sid # creations[q].sid
      BY <2>1, <2>4, <3>1 DEF HandlerInv, Creation
    <3> QED
      BY <2>2, <2>4, <3>1, ZenonT(40)
  <2>6. \A q \in Requests : lookups[q] # Idle =>
          /\ Valid(lookups[q].row)' => lookups[q].live
          /\ lookups[q].live => /\ lookups[q].row # NoSession
                                /\ lookups[q].row.revokedAt = NotRevoked
                                /\ lookups[q].row.expiresAt = issued'[lookups[q].sid]
    <3>1. \A row : Valid(row)' <=> Valid(row)
      BY <2>2 DEF Valid
    <3> QED
      BY <2>2, <2>3, <3>1 DEF HandlerInv
  <2> QED
    BY <2>1, <2>2, <2>5, <2>6 DEF HandlerInv
<1>3. ASSUME NEW r \in Requests, LookupRead(r) PROVE HandlerInv'
  <2>1. PICK s \in Sids :
          lookups' = [lookups EXCEPT ![r] = [sid |-> s, row |-> sessions[s],
                                             live |-> Live(s), answer |-> "none"]]
    BY <1>3 DEF LookupRead
  <2>2. /\ Valid(sessions[s]) => Live(s)
        /\ Live(s) => /\ sessions[s] # NoSession
                      /\ sessions[s].revokedAt = NotRevoked
                      /\ sessions[s].expiresAt = issued[s]
    BY <1>3, RowTellsLife DEF LookupRead, RecoveryInv, RestoredEmpty
  <2>3. app = "serving" /\ UNCHANGED <<clock, app, creations, logouts, issued>>
    BY <1>3 DEF LookupRead
  <2> HIDE DEF Live
  <2> DEFINE ask == [sid |-> s, row |-> sessions[s], live |-> Live(s), answer |-> "none"]
  <2>8. ask.sid = s /\ ask.row = sessions[s] /\ ask.live = Live(s)
    BY Zenon
  <2> HIDE DEF ask
  <2>4. \A q \in Requests : lookups'[q] = IF q = r THEN ask ELSE lookups[q]
    BY <2>1, Zenon DEF TypeOK, ask
  <2>5. /\ lookups'[r].sid = s /\ lookups'[r].row = sessions[s]
        /\ lookups'[r].live = Live(s)
    BY <2>4, <2>8, Zenon
  <2>6. \A row : Valid(row)' <=> Valid(row)
    BY <2>3 DEF Valid
  <2>7. \A q \in Requests : lookups'[q] # Idle =>
          /\ Valid(lookups'[q].row) => lookups'[q].live
          /\ lookups'[q].live => /\ lookups'[q].row # NoSession
                                 /\ lookups'[q].row.revokedAt = NotRevoked
                                 /\ lookups'[q].row.expiresAt = issued[lookups'[q].sid]
    <3>1. ASSUME NEW q \in Requests, q # r PROVE lookups'[q] = lookups[q]
      BY <2>4, <3>1, Zenon
    <3> DEFINE Knows(ask_) == /\ Valid(ask_.row) => ask_.live
                              /\ ask_.live => /\ ask_.row # NoSession
                                              /\ ask_.row.revokedAt = NotRevoked
                                              /\ ask_.row.expiresAt = issued[ask_.sid]
    <3>2. Knows(lookups'[r])
      BY <2>2, <2>5, Zenon
    <3>3. \A q \in Requests : lookups[q] # Idle => Knows(lookups[q])
      BY Zenon DEF HandlerInv
    <3> HIDE DEF Knows
    <3>4. \A q \in Requests : lookups'[q] # Idle => Knows(lookups'[q])
      BY <3>1, <3>2, <3>3, Zenon
    <3> QED
      BY <3>4, Zenon DEF Knows
  <2> QED
    BY <2>3, <2>6, <2>7 DEF HandlerInv
<1>4. ASSUME NEW r \in Requests, LookupCheck(r) PROVE HandlerInv'
  <2>1. /\ lookups[r] \in Lookup /\ lookups[r] # Idle
        /\ \A q \in Requests \ {r} : lookups'[q] = lookups[q]
        /\ UNCHANGED <<clock, app, creations, logouts, issued>>
    BY <1>4 DEF LookupCheck, TypeOK
  <2>2. /\ lookups'[r].row = lookups[r].row /\ lookups'[r].live = lookups[r].live
        /\ lookups'[r].sid = lookups[r].sid
    BY <1>4, <2>1 DEF LookupCheck, TypeOK, Lookup
  <2>3. app = "serving"
    BY <2>1 DEF HandlerInv, NoneOf
  <2>4. \A row : Valid(row)' <=> Valid(row)
    BY <2>1 DEF Valid
  <2> QED
    BY <2>1, <2>2, <2>3, <2>4 DEF HandlerInv
<1>5. ASSUME NEW r \in Requests, LookupDone(r) PROVE HandlerInv'
  BY <1>5 DEF LookupDone, HandlerInv, TypeOK, Valid, NoneOf
<1>6. ASSUME NEW r \in Requests, LogoutBegin(r) PROVE HandlerInv'
  BY <1>6 DEF LogoutBegin, HandlerInv, TypeOK, Time, Valid
<1>7. ASSUME NEW r \in Requests, LogoutRevoke(r) PROVE HandlerInv'
  BY <1>7 DEF LogoutRevoke, HandlerInv, TypeOK, Valid, NoneOf
<1>8. CASE InvalidateAll
  BY <1>8, HandlerKept DEF InvalidateAll
<1>9. ASSUME NEW c \in Cleaners,
             CleanupBegin(c) \/ CleanupSelect(c) \/ CleanupDelete(c) \/ CleanupFail(c)
      PROVE  HandlerInv'
  <2>1. UNCHANGED <<clock, handlers, issued>>
    BY <1>9 DEF CleanupBegin, CleanupSelect, CleanupDelete, CleanupFail, history
  <2>2. c = "startup" => app # "serving"
    BY <1>9 DEF CleanupBegin, CleanupSelect, CleanupDelete, CleanupFail, CleanupInv
  <2>3. c # "startup" => app' = app
    BY <1>9 DEF CleanupBegin, CleanupSelect, CleanupDelete, CleanupFail
  <2> QED
    BY <2>1, <2>2, <2>3, HandlerKept DEF HandlerInv, handlers
<1>10. CASE Stop
  BY <1>10 DEF Stop, HandlerInv, NoneOf
<1>11. CASE Backup \/ Restore
  BY <1>11, HandlerKept DEF Backup, Restore, history
<1>12. CASE Tick
  <2>1. /\ clock' = clock + 1 /\ clock \in Nat
        /\ UNCHANGED <<app, lookups, creations, logouts, issued>>
    BY <1>12 DEF Tick, handlers, history, TypeOK, Time
  <2>2. \A r \in Requests : logouts[r] # Idle => logouts[r].revokedAt <= clock'
    BY <2>1 DEF HandlerInv, TypeOK, Logout, Time
  <2>3. \A r \in Requests : lookups[r] # Idle /\ Valid(lookups[r].row)' => Valid(lookups[r].row)
    BY <2>1 DEF Valid, TypeOK, Lookup, Session, Instant
  <2> QED
    BY <2>1, <2>2, <2>3 DEF HandlerInv
<1>13. CASE UNCHANGED vars
  BY <1>13, HandlerKept DEF vars, handlers
<1> QED
  BY <1>1, <1>2, <1>3, <1>4, <1>5, <1>6, <1>7, <1>8, <1>9, <1>10, <1>11, <1>12, <1>13
  DEF Next

-----------------------------------------------------------------------------
(* What clean-ups have selected.                                           *)

\* Time goes on, issued sessions keep their expiry, and none comes back to life.
LEMMA EndedForGood ==
  ASSUME IInv, [Next]_vars
  PROVE  /\ clock <= clock' /\ clock' \in Int
         /\ \A s \in Sids : issued[s] # NotIssued =>
              issued'[s] = issued[s] /\ (Live(s)' => Live(s))
<1> USE DEF IInv
<1>1. clock <= clock' /\ clock \in Int /\ clock' \in Int
  <2>1. clock \in Int
    BY DEF TypeOK, Time
  <2>2. clock' \in {clock, clock + 1}
    BY DEF Next, vars, CreateBegin, CreateInsert, LookupRead, LookupCheck, LookupDone,
           LogoutBegin, LogoutRevoke, CleanupBegin, CleanupSelect, CleanupDelete,
           CleanupFail, InvalidateAll, Stop, Backup, Restore, Tick
  <2> QED
    BY <2>1, <2>2
<1>2. ended \subseteq ended'
  <2>1. CASE Restore
    BY <2>1 DEF Restore, TableInv, TypeOK
  <2>2. CASE ~Restore
    BY <2>2
    DEF Next, vars, CreateBegin, CreateInsert, LookupRead, LookupCheck, LookupDone,
        LogoutBegin, LogoutRevoke, CleanupBegin, CleanupSelect, CleanupDelete,
        CleanupFail, InvalidateAll, Stop, Backup, Tick, history
  <2> QED
    BY <2>1, <2>2
<1>3. ASSUME NEW s \in Sids, issued[s] # NotIssued PROVE issued'[s] = issued[s]
  <2>1. CASE \E r \in Requests : CreateInsert(r)
    BY <1>3, <2>1 DEF CreateInsert, HandlerInv, TypeOK
  <2>2. CASE ~ \E r \in Requests : CreateInsert(r)
    BY <2>2
    DEF Next, vars, CreateBegin, LookupRead, LookupCheck, LookupDone,
        LogoutBegin, LogoutRevoke, CleanupBegin, CleanupSelect, CleanupDelete,
        CleanupFail, InvalidateAll, Stop, Backup, Restore, Tick, history
  <2> QED
    BY <2>1, <2>2
<1>4. \A s \in Sids : issued[s] \in Int
  BY DEF TypeOK, Instant, NotIssued
<1> QED
  BY <1>1, <1>2, <1>3, <1>4 DEF Live

\* What holds of a clean-up before a step holds of it after the step.
LEMMA SelectedStayDead ==
  ASSUME IInv, [Next]_vars, NEW c \in Cleaners, cleanups[c] # Idle
  PROVE  /\ cleanups[c].now <= clock'
         /\ \A s \in cleanups[c].ids : s \in Sids /\ issued'[s] # NotIssued /\ ~Live(s)'
<1>1. cleanups[c] \in Cleanup /\ clock \in Int
  BY DEF IInv, TypeOK, Time
<1>2. cleanups[c].now \in Int /\ cleanups[c].ids \subseteq Sids
  BY <1>1 DEF Cleanup, Time
<1> HIDE DEF Live
<1>3. /\ cleanups[c].now <= clock
      /\ \A s \in cleanups[c].ids : issued[s] # NotIssued /\ ~Live(s)
  BY DEF IInv, CleanupInv
<1>4. \A s \in Sids : issued[s] # NotIssued =>
        issued'[s] = issued[s] /\ (Live(s)' => Live(s))
  BY EndedForGood, Zenon
<1>5. clock <= clock' /\ clock' \in Int
  BY EndedForGood
<1>6. cleanups[c].now <= clock'
  BY <1>1, <1>2, <1>3, <1>5
<1>7. \A s \in cleanups[c].ids : s \in Sids /\ issued'[s] # NotIssued /\ ~Live(s)'
  BY <1>2, <1>3, <1>4, Zenon
<1> QED
  BY <1>6, <1>7

LEMMA CleanupStep == IInv /\ [Next]_vars => CleanupInv'
<1> SUFFICES ASSUME IInv, [Next]_vars PROVE CleanupInv'
  OBVIOUS
<1> DEFINE Good(c) ==
      cleanups'[c] # Idle =>
        /\ cleanups'[c].now <= clock'
        /\ \A s \in cleanups'[c].ids : issued'[s] # NotIssued /\ ~Live(s)'
<1> SUFFICES /\ cleanups'["startup"] # Idle <=> app' = "booting"
             /\ \A c \in Cleaners : Good(c)
  BY DEF CleanupInv
<1>a. \A c \in Cleaners : cleanups'[c] = cleanups[c] => Good(c)
  BY SelectedStayDead
<1>b. cleanups["startup"] # Idle <=> app = "booting"
  BY DEF IInv, CleanupInv
<1>c. "startup" \in Cleaners
  BY DEF Cleaners
<1> HIDE DEF Good
<1>1. ASSUME UNCHANGED cleanups, app' = app
      PROVE  /\ cleanups'["startup"] # Idle <=> app' = "booting"
             /\ \A c \in Cleaners : Good(c)
  BY <1>1, <1>a, <1>b
<1>2. ASSUME NEW c \in Cleaners, CleanupBegin(c)
      PROVE  /\ cleanups'["startup"] # Idle <=> app' = "booting"
             /\ \A k \in Cleaners : Good(k)
  <2>1. /\ \A k \in Cleaners \ {c} : cleanups'[k] = cleanups[k]
        /\ cleanups'[c] = [now |-> clock, selected |-> FALSE, ids |-> {}]
        /\ clock' = clock
        /\ app' = IF c = "startup" THEN "booting" ELSE app
    BY <1>2 DEF CleanupBegin, IInv, TypeOK
  <2>2. cleanups'[c] \in Cleanup
    BY <2>1 DEF Cleanup, IInv, TypeOK
  <2>3. Good(c)
    BY <2>1 DEF Good, IInv, TypeOK, Time
  <2> QED
    BY <1>a, <1>b, <1>c, <2>1, <2>2, <2>3
<1>3. ASSUME NEW c \in Cleaners, CleanupSelect(c)
      PROVE  /\ cleanups'["startup"] # Idle <=> app' = "booting"
             /\ \A k \in Cleaners : Good(k)
  <2>1. PICK ids \in SUBSET Sids :
          /\ FirstOf(ids, Eligible(cleanups[c].now))
          /\ cleanups' = [cleanups EXCEPT ![c].selected = TRUE, ![c].ids = ids]
    BY <1>3 DEF CleanupSelect
  <2>2. /\ cleanups[c] \in Cleanup /\ cleanups[c] # Idle
        /\ UNCHANGED <<clock, app, sessions, issued, ended>>
    BY <1>3 DEF CleanupSelect, IInv, TypeOK, history
  <2>3. /\ \A k \in Cleaners \ {c} : cleanups'[k] = cleanups[k]
        /\ cleanups'[c] = [cleanups[c] EXCEPT !.selected = TRUE, !.ids = ids]
    BY <2>1, <2>2 DEF IInv, TypeOK
  <2>4. cleanups'[c] \in Cleanup /\ cleanups'[c].now = cleanups[c].now /\ cleanups'[c].ids = ids
    BY <2>2, <2>3 DEF Cleanup
  <2>5. cleanups[c].now <= clock /\ clock \in Int /\ cleanups[c].now \in Int
    BY <2>2 DEF IInv, CleanupInv, TypeOK, Time, Cleanup
  <2>6. ASSUME NEW s \in ids PROVE s \in Sids /\ issued[s] # NotIssued /\ ~Live(s)
    <3>1. /\ s \in Sids /\ sessions[s] # NoSession
          /\ \/ sessions[s].expiresAt <= cleanups[c].now
             \/ sessions[s].revokedAt \in 0..cleanups[c].now
      BY <2>1, <2>6 DEF FirstOf, Eligible
    <3>2. /\ sessions[s].expiresAt = issued[s] /\ issued[s] \in Int /\ issued[s] # NotIssued
          /\ sessions[s].revokedAt # NotRevoked => s \in ended
      BY <3>1 DEF IInv, TableInv, Recorded, TypeOK, Table, Session, Instant, NotIssued
    <3> QED
      BY <2>5, <3>1, <3>2 DEF Live, NotRevoked
  <2>7. \A s \in ids : issued'[s] # NotIssued /\ ~Live(s)'
    BY <2>2, <2>6 DEF Live
  <2>8. Good(c)
    BY <2>2, <2>4, <2>5, <2>7 DEF Good
  <2> QED
    BY <1>a, <1>b, <1>c, <2>2, <2>3, <2>4, <2>8
<1>4. ASSUME NEW c \in Cleaners, CleanupDelete(c) \/ CleanupFail(c)
      PROVE  /\ cleanups'["startup"] # Idle <=> app' = "booting"
             /\ \A k \in Cleaners : Good(k)
  <2>1. /\ \A k \in Cleaners \ {c} : cleanups'[k] = cleanups[k]
        /\ cleanups'[c] = Idle
        /\ c # "startup" => app' = app
        /\ c = "startup" => app' \in {"serving", "down"}
    BY <1>4 DEF CleanupDelete, CleanupFail, IInv, TypeOK
  <2> QED
    BY <1>a, <1>b, <1>c, <2>1 DEF Good
<1>5. CASE Stop
  <2>1. /\ \A k \in Cleaners \ {"startup"} : cleanups'[k] = cleanups[k]
        /\ cleanups'["startup"] = Idle /\ app' = "down"
    BY <1>5, <1>c DEF Stop, IInv, TypeOK
  <2> QED
    BY <1>a, <2>1 DEF Good
<1>6. \/ UNCHANGED cleanups /\ app' = app
      \/ \E c \in Cleaners :
           CleanupBegin(c) \/ CleanupSelect(c) \/ CleanupDelete(c) \/ CleanupFail(c)
      \/ Stop
  BY DEF Next, vars, CreateBegin, CreateInsert, LookupRead, LookupCheck, LookupDone,
         LogoutBegin, LogoutRevoke, InvalidateAll, Backup, Restore, Tick
<1> QED
  BY <1>1, <1>2, <1>3, <1>4, <1>5, <1>6

-----------------------------------------------------------------------------
(* The restore runbook.                                                    *)

\* Steps that leave the rows, the command and the runbook alone.
LEMMA RecoveryKept ==
  ASSUME IInv, UNCHANGED <<recovery, sessions, issued, ended>>,
         cleanups'["command"] \in {cleanups["command"], Idle},
         app' = app \/ app' = "down"
  PROVE  RecoveryInv'
BY DEF IInv, RecoveryInv, RestoredEmpty

LEMMA NoRunbook ==
  ASSUME recovery' = "none"
  PROVE  RecoveryInv'
BY DEF RecoveryInv, RestoredEmpty

\* A SELECT that finds nothing had nothing to find.
LEMMA SelectsSomething ==
  ASSUME NEW S, FirstOf({}, S)
  PROVE  S = {}
BY FS_EmptySet DEF FirstOf

LEMMA RecoveryStep == IInv /\ [Next]_vars => RecoveryInv'
<1> SUFFICES ASSUME IInv, [Next]_vars PROVE RecoveryInv'
  OBVIOUS
<1> USE DEF IInv
<1>a. "command" \in Cleaners /\ "startup" \in Cleaners
  BY DEF Cleaners
<1>b. app # "down" => recovery = "none"
  BY DEF RecoveryInv, RestoredEmpty
<1>c. \A s \in Sids : sessions[s] # NoSession =>
        /\ sessions[s].revokedAt \in Int
        /\ sessions[s].revokedAt # NotRevoked => sessions[s].revokedAt \in Nat
        /\ sessions[s].revokedAt <= clock
  BY DEF TypeOK, Table, Session, Time, NotRevoked, TableInv, Recorded
<1>1. CASE SlotSteps
  BY <1>1, RecoveryKept
  DEF SlotSteps, CreateBegin, LookupRead, LookupCheck, LookupDone, LogoutBegin
<1>2. ASSUME NEW r \in Requests, CreateInsert(r) \/ LogoutRevoke(r) PROVE RecoveryInv'
  <2>1. app # "down"
    BY <1>2 DEF CreateInsert, LogoutRevoke, HandlerInv, NoneOf
  <2> QED
    BY <1>2, <1>b, <2>1, NoRunbook DEF CreateInsert, LogoutRevoke
<1>3. CASE InvalidateAll
  <2>1. CASE recovery = "none"
    BY <1>3, <2>1, NoRunbook DEF InvalidateAll
  <2>2. CASE recovery # "none"
    <3>1. /\ recovery = "restored" /\ recovery' = "invalidated"
          /\ app' = app /\ cleanups'["command"] = Idle
      BY <1>3, <2>2 DEF InvalidateAll, RecoveryInv
    <3>2. PICK now \in 0..clock : sessions' = Revoked(Sids, now)
      BY <1>3 DEF InvalidateAll
    <3>3. now \in Time /\ now # NotRevoked
      BY <3>2 DEF TypeOK, Time, NotRevoked
    <3>4. \A s \in Sids : sessions'[s] # NoSession => sessions'[s].revokedAt # NotRevoked
      BY <3>2, <3>3, RevokedTable
    <3>5. app' = "down"
      BY <1>b, <3>1
    <3> QED
      BY <3>1, <3>4, <3>5 DEF RecoveryInv, RestoredEmpty
  <2> QED
    BY <2>1, <2>2
<1>4. ASSUME NEW c \in Cleaners, CleanupBegin(c) PROVE RecoveryInv'
  <2>1. CASE c = "startup"
    BY <1>4, <2>1, NoRunbook DEF CleanupBegin
  <2>2. CASE c # "startup"
    <3>1. c = "command" /\ recovery \in {"none", "invalidated"}
          /\ UNCHANGED <<app, recovery, sessions>>
          /\ cleanups'["command"] = [now |-> clock, selected |-> FALSE, ids |-> {}]
      BY <1>4, <2>2 DEF CleanupBegin, Cleaners, TypeOK, history
    <3>2. cleanups'["command"].now = clock /\ ~cleanups'["command"].selected
      BY <3>1
    <3> QED
      BY <1>c, <3>1, <3>2 DEF RecoveryInv, RestoredEmpty
  <2> QED
    BY <2>1, <2>2
<1>5. ASSUME NEW c \in Cleaners, CleanupSelect(c) PROVE RecoveryInv'
  <2>1. PICK ids \in SUBSET Sids :
          /\ FirstOf(ids, Eligible(cleanups[c].now))
          /\ cleanups' = [cleanups EXCEPT ![c].selected = TRUE, ![c].ids = ids]
    BY <1>5 DEF CleanupSelect
  <2>2. /\ cleanups[c] \in Cleanup /\ cleanups[c] # Idle
        /\ UNCHANGED <<app, recovery, sessions, issued, ended>>
    BY <1>5 DEF CleanupSelect, TypeOK, history
  <2>3. CASE c # "command"
    <3>1. cleanups'["command"] = cleanups["command"]
      BY <1>a, <2>1, <2>3 DEF TypeOK
    <3> QED
      BY <2>2, <3>1, RecoveryKept
  <2>4. CASE c = "command" /\ recovery = "none"
    BY <2>2, <2>4, NoRunbook
  <2>5. CASE c = "command" /\ recovery # "none"
    <3>1. recovery = "invalidated"
      BY <2>2, <2>5 DEF RecoveryInv, TypeOK
    <3>2. cleanups'["command"] = [cleanups[c] EXCEPT !.selected = TRUE, !.ids = ids]
      BY <2>1, <2>2, <2>5 DEF TypeOK
    <3>3. cleanups'["command"].now = cleanups[c].now /\ cleanups'["command"].ids = ids
      BY <2>2, <3>2 DEF Cleanup
    <3>4. \A s \in Sids : sessions[s] # NoSession =>
            sessions[s].revokedAt # NotRevoked /\ sessions[s].revokedAt <= cleanups[c].now
      BY <2>2, <2>5, <3>1 DEF RecoveryInv
    <3>5. \A s \in ids : sessions[s] # NoSession
      BY <2>1 DEF FirstOf, Eligible
    <3>6. ASSUME ids = {} PROVE \A s \in Sids : sessions[s] = NoSession
      <4>1. Eligible(cleanups[c].now) = {}
        BY <2>1, <3>6, SelectsSomething
      <4>2. cleanups[c].now \in Int
        BY <2>2 DEF Cleanup, Time
      <4> QED
        BY <1>c, <3>4, <4>1, <4>2 DEF Eligible
    <3> QED
      BY <2>2, <3>1, <3>3, <3>4, <3>5, <3>6 DEF RecoveryInv, RestoredEmpty
  <2> QED
    BY <2>3, <2>4, <2>5
<1>6. ASSUME NEW c \in Cleaners, CleanupDelete(c) PROVE RecoveryInv'
  <2> DEFINE deleted == {s \in cleanups[c].ids : sessions[s] # NoSession}
  <2>1. /\ sessions' = [s \in Sids |-> IF s \in deleted THEN NoSession ELSE sessions[s]]
        /\ recovery' = IF recovery = "invalidated" /\ deleted = {}
                       THEN "emptied" ELSE recovery
        /\ cleanups'[c] = Idle
        /\ c # "startup" => app' = app
        /\ cleanups[c] # Idle /\ cleanups[c].selected
    BY <1>6 DEF CleanupDelete, TypeOK
  <2>2. CASE recovery = "none"
    BY <2>1, <2>2, NoRunbook
  <2>3. CASE recovery # "none"
    <3>1. app = "down" /\ c = "command"
      BY <1>a, <1>b, <2>1, <2>3 DEF CleanupInv, Cleaners
    <3>2. recovery = "invalidated" /\ app' = "down"
      BY <2>1, <2>3, <3>1 DEF RecoveryInv, TypeOK
    <3>3. \A s \in Sids : sessions'[s] # NoSession => sessions'[s] = sessions[s]
      BY <2>1
    <3>4. CASE deleted # {}
      BY <2>1, <3>1, <3>2, <3>3, <3>4 DEF RecoveryInv, RestoredEmpty
    <3>5. CASE deleted = {}
      <4>1. cleanups[c].ids = {}
        BY <2>1, <3>1, <3>2, <3>5 DEF RecoveryInv
      <4>2. \A s \in Sids : sessions'[s] = NoSession
        BY <2>1, <3>1, <3>2, <3>3, <4>1 DEF RecoveryInv
      <4> QED
        BY <2>1, <3>1, <3>2, <3>5, <4>2 DEF RecoveryInv, RestoredEmpty
    <3> QED
      BY <3>4, <3>5
  <2> QED
    BY <2>2, <2>3
<1>7. ASSUME NEW c \in Cleaners, CleanupFail(c) PROVE RecoveryInv'
  BY <1>7, <1>a, RecoveryKept DEF CleanupFail, TypeOK, history
<1>8. CASE Stop
  BY <1>8, <1>a, RecoveryKept DEF Stop, TypeOK, history
<1>9. CASE Restore
  <2>1. /\ recovery' = "restored" /\ app' = "down" /\ cleanups'["command"] = Idle
        /\ \A s \in Sids : issued'[s] # NotIssued => s \in ended'
    BY <1>9, <1>a DEF Restore, NoneOf
  <2> QED
    BY <2>1 DEF RecoveryInv, RestoredEmpty
<1>10. CASE Backup \/ Tick \/ UNCHANGED vars
  BY <1>10, RecoveryKept DEF Backup, Tick, vars, history
<1> QED
  BY <1>1, <1>2, <1>3, <1>4, <1>5, <1>6, <1>7, <1>8, <1>9, <1>10
  DEF Next, SlotSteps

-----------------------------------------------------------------------------
(* Theorems.                                                               *)

\* The strengthened invariant holds in every reachable state.
THEOREM Invariance == Spec => []IInv
<1>1. IInv /\ [Next]_vars => IInv'
  BY TypeStep, TableStep, HandlerStep, CleanupStep, RecoveryStep DEF IInv
<1> QED
  BY InitInvariant, <1>1, PTL DEF Spec

\* Every variable of the session model keeps its type.
THEOREM TypeCorrect == Spec => []TypeOK
<1>1. IInv => TypeOK
  BY DEF IInv
<1> QED
  BY Invariance, <1>1, PTL

\* A live session keeps its unrevoked row whatever clean-ups, started when and
\* interrupted where, delete next to it, and however small their batches are.
THEOREM CleanupsSpareLiveSessions == Spec => []LiveSessionsKept
<1>1. IInv => LiveSessionsKept
  BY DEF IInv
<1> QED
  BY Invariance, <1>1, PTL

\* A clean-up that reports zero rows during the restore runbook means that no row
\* of the dump is left, so the application starts without its sessions.
THEOREM RunbookEmptiesTable == Spec => []RestoredEmpty
<1>1. IInv => RestoredEmpty
  BY DEF IInv, RecoveryInv
<1> QED
  BY Invariance, <1>1, PTL
-----------------------------------------------------------------------------
(* Refinement.                                                             *)

LEMMA InitPromised == Init => Promise!Init
BY DEF Init, Promise!Init, Status, Asked, NoneOf

\* Sessions a step ends, if it issues none and answers nobody, end in one step of
\* the specification.
LEMMA EndsPromised ==
  ASSUME IInv, IInv', UNCHANGED lookups,
         \A s \in Sids : /\ issued[s] = NotIssued <=> issued'[s] = NotIssued
                         /\ Live(s)' => Live(s)
  PROVE  Promise!Next
<1> DEFINE S == {s \in Sids : Live(s) /\ ~Live(s)'}
<1>1. S \in SUBSET Sids
  OBVIOUS
<1>2. ASSUME NEW s \in Sids
      PROVE  Status(s)' = IF s \in S /\ Status(s) = "live" THEN "ended" ELSE Status(s)
  BY DEF Status
<1>3. UNCHANGED [r \in Requests |-> Asked(r)]
  BY DEF Asked
<1> HIDE DEF S
<1>4. Promise!End(S)
  BY <1>2, <1>3 DEF Promise!End
<1> QED
  BY <1>1, <1>4 DEF Promise!Next

LEMMA LiveStatus ==
  ASSUME IInv, NEW s \in Sids
  PROVE  Status(s) = "live" <=> Live(s)
BY DEF Status, Live, IInv, TypeOK, Time, NotIssued

\* Steps that leave sessions alone leave their status alone.
LEMMA StatusKept ==
  ASSUME UNCHANGED <<clock, issued, ended>>
  PROVE  UNCHANGED [s \in Sids |-> Status(s)]
BY DEF Status, Live

LEMMA StepPromised == IInv /\ IInv' /\ [Next]_vars => [Promise!Next]_Promise!vars
<1> SUFFICES ASSUME IInv, IInv', [Next]_vars PROVE [Promise!Next]_Promise!vars
  OBVIOUS
<1> DEFINE status == [s \in Sids |-> Status(s)]
           asked == [r \in Requests |-> Asked(r)]
<1>1. ASSUME NEW r \in Requests, LookupRead(r) PROVE Promise!Next
  <2>1. PICK s \in Sids :
          lookups' = [lookups EXCEPT ![r] = [sid |-> s, row |-> sessions[s],
                                             live |-> Live(s), answer |-> "none"]]
    BY <1>1 DEF LookupRead
  <2>2. lookups[r] = Idle /\ UNCHANGED <<clock, issued, ended>>
    BY <1>1 DEF LookupRead, Free
  <2>3. Live(s) = (status[s] = "live")
    BY LiveStatus, Zenon DEF Live
  <2> DEFINE ask == [sid |-> s, row |-> sessions[s], live |-> Live(s), answer |-> "none"]
             question == [sid |-> s, live |-> status[s] = "live", answer |-> "none"]
  <2>4. ask = lookups'[r] /\ lookups'[r] # Idle
    <3>1. lookups'[r] \in Lookup \cup {Idle} /\ lookups \in [Requests -> Lookup \cup {Idle}]
      BY DEF IInv, TypeOK
    <3>2. ask = lookups'[r]
      BY <2>1, <3>1, Zenon
    <3>3. ask \in Lookup
      <4>1. sessions[s] \in Session \cup {NoSession} /\ Live(s) \in BOOLEAN
        BY DEF IInv, TypeOK, Table, Live
      <4> QED
        BY <4>1, Zenon DEF Lookup
    <3> QED
      BY <3>2, <3>3
  <2>5. ask.sid = s /\ ask.live = (status[s] = "live") /\ ask.answer = "none"
    BY <2>3, Zenon
  <2>6. Asked(r)' = question
    BY <2>4, <2>5, Zenon DEF Asked
  <2>7. \A q \in Requests \ {r} : Asked(q)' = Asked(q)
    BY <2>1 DEF Asked, IInv, TypeOK
  <2> HIDE DEF question
  <2>8. asked' = [asked EXCEPT ![r] = question]
    BY <2>6, <2>7, Zenon
  <2>9. asked[r] = Idle
    BY <2>2 DEF Asked
  <2>10. Promise!Ask(r, s)
    BY <2>2, <2>8, <2>9, StatusKept, Zenon DEF Promise!Ask, question
  <2> QED
    BY <2>10 DEF Promise!Next
<1>2. ASSUME NEW r \in Requests, LookupCheck(r) PROVE Promise!Next
  <2>1. /\ lookups[r] \in Lookup /\ lookups[r] # Idle /\ lookups[r].answer = "none"
        /\ UNCHANGED <<clock, issued, ended>>
    BY <1>2 DEF LookupCheck, IInv, TypeOK
  <2> DEFINE answer == IF Valid(lookups[r].row) THEN "admitted" ELSE "refused"
  <2>2. lookups' = [lookups EXCEPT ![r] = [lookups[r] EXCEPT !.answer = answer]]
    BY <1>2 DEF LookupCheck
  <2>3. /\ lookups'[r].sid = lookups[r].sid /\ lookups'[r].live = lookups[r].live
        /\ lookups'[r].answer = answer /\ lookups'[r] \in Lookup
    BY <2>1, <2>2 DEF Lookup, IInv, TypeOK
  <2> HIDE DEF answer
  <2>4. lookups'[r] # Idle
    BY <2>3
  <2>5. Asked(r) = [sid |-> lookups[r].sid, live |-> lookups[r].live, answer |-> "none"]
    BY <2>1, Zenon DEF Asked
  <2>6. Asked(r)' = [sid |-> lookups[r].sid, live |-> lookups[r].live, answer |-> answer]
    BY <2>3, <2>4, Zenon DEF Asked
  <2>7. Asked(r)' = [Asked(r) EXCEPT !.answer = answer]
    BY <2>5, <2>6
  <2>8. \A q \in Requests \ {r} : Asked(q)' = Asked(q)
    BY <2>2 DEF Asked, IInv, TypeOK
  <2>9. asked' = [asked EXCEPT ![r] = [asked[r] EXCEPT !.answer = answer]]
    BY <2>7, <2>8
  <2>10. /\ Asked(r).answer = "none" /\ Asked(r).live = lookups[r].live
         /\ Asked(r).sid = lookups[r].sid
    BY <2>5
  <2>11. Asked(r) # Idle
    <3>1. lookups[r].sid \in Sids /\ lookups[r].live \in BOOLEAN
      BY <2>1, Zenon DEF Lookup
    <3>2. Asked(r) \in Promise!Question
      BY <2>5, <3>1 DEF Promise!Question
    <3> QED
      BY <3>2, AskedAssumption
  <2>12. Promise!Answer(r, answer)
    BY <2>1, <2>9, <2>10, <2>11, StatusKept, Zenon DEF Promise!Answer
  <2>13. CASE Valid(lookups[r].row)
    <3>1. lookups[r].live
      BY <2>1, <2>13 DEF IInv, HandlerInv
    <3>2. Promise!Admit(r)
      BY <2>10, <2>12, <2>13, <3>1, Zenon DEF Promise!Admit, answer
    <3> QED
      BY <3>2 DEF Promise!Next
  <2>14. CASE ~Valid(lookups[r].row)
    <3>1. ASSUME lookups[r].live PROVE Status(lookups[r].sid) = "ended"
      <4>1. /\ lookups[r].sid \in Sids
            /\ lookups[r].row \in Session /\ lookups[r].row.revokedAt = NotRevoked
            /\ lookups[r].row.expiresAt = issued[lookups[r].sid]
        BY <2>1, <3>1 DEF Lookup, IInv, HandlerInv
      <4>2. lookups[r].row.expiresAt \in Nat /\ ~(lookups[r].row.expiresAt > clock)
        BY <2>14, <4>1 DEF Valid, Session, Instant
      <4> QED
        BY <4>1, <4>2 DEF Status, Live, NotIssued, IInv, TypeOK, Time
    <3>2. lookups[r].sid \in Sids
      BY <2>1 DEF Lookup
    <3>3. asked[r].live => status[asked[r].sid] = "ended"
      BY <2>10, <3>1, <3>2, Zenon
    <3>4. Promise!Refuse(r)
      BY <2>12, <2>14, <3>3, Zenon DEF Promise!Refuse, answer
    <3> QED
      BY <3>4 DEF Promise!Next
  <2> QED
    BY <2>13, <2>14
<1>3. ASSUME NEW r \in Requests, LookupDone(r) PROVE Promise!Next
  <2>1. /\ lookups[r] \in Lookup /\ lookups[r] # Idle /\ lookups[r].answer # "none"
        /\ lookups' = [lookups EXCEPT ![r] = Idle]
        /\ UNCHANGED <<clock, issued, ended>>
    BY <1>3 DEF LookupDone, IInv, TypeOK
  <2>2. Asked(r) = [sid |-> lookups[r].sid, live |-> lookups[r].live,
                    answer |-> lookups[r].answer]
    BY <2>1, Zenon DEF Asked
  <2>3. Asked(r) # Idle
    <3>1. /\ lookups[r].sid \in Sids /\ lookups[r].live \in BOOLEAN
          /\ lookups[r].answer \in {"none", "admitted", "refused"}
      BY <2>1, Zenon DEF Lookup
    <3>2. Asked(r) \in Promise!Question
      BY <2>2, <3>1 DEF Promise!Question
    <3> QED
      BY <3>2, AskedAssumption
  <2>4. Asked(r).answer # "none"
    BY <2>1, <2>2
  <2>5. Asked(r)' = Idle /\ \A q \in Requests \ {r} : Asked(q)' = Asked(q)
    BY <2>1 DEF Asked, IInv, TypeOK
  <2>6. asked' = [asked EXCEPT ![r] = Idle]
    BY <2>5
  <2>7. Promise!Done(r)
    BY <2>1, <2>3, <2>4, <2>6, StatusKept, Zenon DEF Promise!Done
  <2> QED
    BY <2>7 DEF Promise!Next
<1>4. ASSUME NEW r \in Requests, CreateInsert(r) PROVE Promise!Next
  <2>1. PICK s \in Sids, expiry \in Nat :
          /\ issued[s] = NotIssued
          /\ issued' = [issued EXCEPT ![s] = expiry]
    <3>1. /\ creations[r].sid \in Sids /\ ExpiryOf(creations[r].createdAt) \in Nat
          /\ issued[creations[r].sid] = NotIssued
      BY <1>4 DEF CreateInsert, IInv, TypeOK, Creation, ExpiryOf, Time, HandlerInv
    <3> QED
      BY <1>4, <3>1 DEF CreateInsert
  <2>2. UNCHANGED <<clock, ended, lookups>>
    BY <1>4 DEF CreateInsert
  <2>3. issued'[s] # NotIssued /\ \A k \in Sids \ {s} : issued'[k] = issued[k]
    BY <2>1 DEF IInv, TypeOK, NotIssued
  <2>4. Status(s) = "unissued" /\ Status(s)' \in {"live", "ended"}
    BY <2>1, <2>3 DEF Status
  <2>5. \A k \in Sids \ {s} : Status(k)' = Status(k)
    BY <2>2, <2>3 DEF Status, Live
  <2>6. status' = [status EXCEPT ![s] = Status(s)'] /\ status[s] = "unissued"
    BY <2>1, <2>4, <2>5
  <2>7. UNCHANGED asked
    BY <2>2 DEF Asked
  <2>8. Promise!Issue(s)
    BY <2>4, <2>6, <2>7 DEF Promise!Issue
  <2> QED
    BY <2>1, <2>8 DEF Promise!Next
<1>5. CASE Stop
  <2>1. UNCHANGED <<clock, issued, ended>> /\ \A r \in Requests : Asked(r)' = Idle
    BY <1>5 DEF Stop, history, Asked, NoneOf
  <2>2. asked' = [r \in Requests |-> Idle]
    BY <2>1
  <2>3. Promise!Abandon
    BY <2>1, <2>2, StatusKept DEF Promise!Abandon
  <2> QED
    BY <2>3 DEF Promise!Next
<1>6. ASSUME UNCHANGED <<lookups, issued>> PROVE Promise!Next
  <2>1. \A s \in Sids : issued[s] # NotIssued => (Live(s)' => Live(s))
    BY EndedForGood
  <2>2. \A s \in Sids : issued[s] = NotIssued => ~Live(s)'
    BY <1>6 DEF Live, IInv, TypeOK, Time, NotIssued
  <2> QED
    BY <1>6, <2>1, <2>2, EndsPromised
<1>7. \/ UNCHANGED <<lookups, issued>>
      \/ Stop
      \/ \E r \in Requests :
           LookupRead(r) \/ LookupCheck(r) \/ LookupDone(r) \/ CreateInsert(r)
  BY DEF Next, vars, CreateBegin, LogoutBegin, LogoutRevoke, InvalidateAll, CleanupBegin,
         CleanupSelect, CleanupDelete, CleanupFail, Backup, Restore, Tick, handlers, history
<1> QED
  BY <1>1, <1>2, <1>3, <1>4, <1>5, <1>6, <1>7

\* The tables, clocks, clean-ups and runbooks of the code implement the store of
\* SessionsAbstract: no token outlives its session and none is refused early.
THEOREM Refinement == Spec => ImplementsSessionsAbstract
<1>1. IInv /\ IInv' /\ [Next]_vars => [Promise!Next]_Promise!vars
  BY StepPromised
<1> QED
  BY Invariance, InitPromised, <1>1, PTL
  DEF Spec, ImplementsSessionsAbstract, Promise!Spec

=============================================================================
