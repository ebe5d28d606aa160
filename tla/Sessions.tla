------------------------------ MODULE Sessions ------------------------------
(***************************************************************************)
(* Sessions: bearer tokens whose hashes live in the sessions table, the    *)
(* preHandler that looks them up on every request, logout, the bounded     *)
(* clean-up that runs at start-up and as a maintenance command, and the    *)
(* runbook that restores a backup without bringing old sessions back.      *)
(*                                                                         *)
(* Each await is a step: a handler reads clock.now() in one step and its   *)
(* SQL statement runs in a later one, and a lookup compares the row it     *)
(* read with a clock it reads afterwards.  A session stands for its token: *)
(* tokens are random, so none is drawn twice and hashes do not collide.    *)
(***************************************************************************)
EXTENDS Integers, FiniteSets

CONSTANTS
  Sids,        \* session ids, in the order of the id column
  Requests,    \* requests that can be in flight at once
  Lifetime,    \* lifetime of a session, eight hours in the code
  Limit,       \* rows one clean-up may delete, 1000 in the code
  MaxTime,     \* bound on the clock
  NoSession,   \* the sessions table has no row of that id
  NoBackup,    \* no backup was taken
  Idle         \* a slot without a request or clean-up

ASSUME SidsAssumption == Sids \subseteq Nat /\ IsFiniteSet(Sids)
ASSUME LifetimeAssumption == Lifetime \in Nat \ {0}
ASSUME LimitAssumption == Limit \in Nat \ {0}
ASSUME MaxTimeAssumption == MaxTime \in Nat

Time == 0..MaxTime
Instant == 0..(MaxTime + Lifetime)
NotRevoked == -1
NotIssued == -1

Session == [expiresAt : Instant, revokedAt : Time \cup {NotRevoked}]
Table == [Sids -> Session \cup {NoSession}]

(***************************************************************************)
(* A request looks a token up, draws a session, or logs one out.  live is  *)
(* history: the session had been issued and not ended when its row was     *)
(* read.                                                                   *)
(***************************************************************************)
Lookup == [sid : Sids, row : Session \cup {NoSession}, live : BOOLEAN,
           answer : {"none", "admitted", "refused"}]
Creation == [sid : Sids, createdAt : Time]
Logout == [sid : Sids, revokedAt : Time]

\* A clean-up between its clock reading, its SELECT and its DELETE.
Cleanup == [now : Time, selected : BOOLEAN, ids : SUBSET Sids]
Cleaners == {"startup", "command"}

ASSUME NoSessionAssumption == NoSession \notin Session
ASSUME NoBackupAssumption == NoBackup \notin Table
ASSUME IdleAssumption == Idle \notin Lookup \cup Creation \cup Logout \cup Cleanup

VARIABLES
  clock,       \* clock.now(), monotone
  app,         \* the application container
  recovery,    \* how far the restore runbook has come
  sessions,    \* the sessions table
  backup,      \* the sessions table of the dump the operator keeps
  lookups,     \* preHandlers and the handlers behind them
  creations,   \* logins between their clock reading and their INSERT
  logouts,     \* logouts between their clock reading and their UPDATE
  cleanups,    \* clean-ups in flight
  issued,      \* history: expiry of every session ever inserted
  ended        \* history: sessions revoked, or older than the last restore

vars == <<clock, app, recovery, sessions, backup, lookups, creations, logouts,
          cleanups, issued, ended>>
handlers == <<lookups, creations, logouts>>
history == <<issued, ended>>

TypeOK ==
  /\ clock \in Time
  /\ app \in {"down", "booting", "serving"}
  /\ recovery \in {"none", "restored", "invalidated", "emptied"}
  /\ sessions \in Table
  /\ backup \in Table \cup {NoBackup}
  /\ lookups \in [Requests -> Lookup \cup {Idle}]
  /\ creations \in [Requests -> Creation \cup {Idle}]
  /\ logouts \in [Requests -> Logout \cup {Idle}]
  /\ cleanups \in [Cleaners -> Cleanup \cup {Idle}]
  /\ issued \in [Sids -> Instant \cup {NotIssued}]
  /\ ended \subseteq Sids

NoneOf(S) == [r \in S |-> Idle]

Init ==
  /\ clock = 0
  /\ app = "down"
  /\ recovery = "none"
  /\ sessions = [s \in Sids |-> NoSession]
  /\ backup = NoBackup
  /\ lookups = NoneOf(Requests)
  /\ creations = NoneOf(Requests)
  /\ logouts = NoneOf(Requests)
  /\ cleanups = NoneOf(Cleaners)
  /\ issued = [s \in Sids |-> NotIssued]
  /\ ended = {}

\* Session s was issued, was neither revoked nor restored over, and its
\* lifetime is not over.
Live(s) == s \notin ended /\ clock < issued[s]

Free(r) == lookups[r] = Idle /\ creations[r] = Idle /\ logouts[r] = Idle

-----------------------------------------------------------------------------
(* SessionService.create, behind /auth/callback and /auth/test-login.      *)

CreateBegin(r) ==
  /\ app = "serving" /\ Free(r)
  /\ \E s \in Sids :
       /\ issued[s] = NotIssued
       /\ \A q \in Requests : creations[q] # Idle => creations[q].sid # s
       /\ creations' = [creations EXCEPT ![r] = [sid |-> s, createdAt |-> clock]]
  /\ UNCHANGED <<clock, app, recovery, sessions, backup, lookups, logouts, cleanups,
                 issued, ended>>

\* Fault: the lifetime is counted from the end of the first one.
ExpiryOf_Doubled(createdAt) == createdAt + 2 * Lifetime

ExpiryOf(createdAt) == createdAt + Lifetime

CreateInsert(r) ==
  /\ creations[r] # Idle
  /\ LET s == creations[r].sid
         expiry == ExpiryOf(creations[r].createdAt) IN
       /\ sessions' = [sessions EXCEPT ![s] = [expiresAt |-> expiry,
                                               revokedAt |-> NotRevoked]]
       /\ issued' = [issued EXCEPT ![s] = expiry]
  /\ creations' = [creations EXCEPT ![r] = Idle]
  /\ UNCHANGED <<clock, app, recovery, backup, lookups, logouts, cleanups, ended>>

-----------------------------------------------------------------------------
(* The preHandler and SessionService.lookup.                               *)

LookupRead(r) ==
  /\ app = "serving" /\ Free(r)
  /\ \E s \in Sids :
       lookups' = [lookups EXCEPT ![r] = [sid |-> s, row |-> sessions[s],
                                          live |-> Live(s), answer |-> "none"]]
  /\ UNCHANGED <<clock, app, recovery, sessions, backup, creations, logouts, cleanups,
                 issued, ended>>

\* Fault: a session still works at the instant it expires.
Valid_AtExpiry(row) ==
  row # NoSession /\ row.revokedAt = NotRevoked /\ row.expiresAt >= clock

\* Whether the row read is good at the time of the check.
Valid(row) ==
  /\ row # NoSession
  /\ row.revokedAt = NotRevoked
  /\ row.expiresAt > clock

LookupCheck(r) ==
  /\ lookups[r] # Idle
  /\ lookups[r].answer = "none"
  /\ lookups' = [lookups EXCEPT ![r].answer =
                   IF Valid(lookups[r].row) THEN "admitted" ELSE "refused"]
  /\ UNCHANGED <<clock, app, recovery, sessions, backup, creations, logouts, cleanups,
                 issued, ended>>

LookupDone(r) ==
  /\ lookups[r] # Idle
  /\ lookups[r].answer # "none"
  /\ lookups' = [lookups EXCEPT ![r] = Idle]
  /\ UNCHANGED <<clock, app, recovery, sessions, backup, creations, logouts, cleanups,
                 issued, ended>>

-----------------------------------------------------------------------------
(* POST /auth/logout, whose lookup the preHandler ignores, and the command *)
(* session-invalidate.                                                     *)

LogoutBegin(r) ==
  /\ app = "serving" /\ Free(r)
  /\ \E s \in Sids :
       logouts' = [logouts EXCEPT ![r] = [sid |-> s, revokedAt |-> clock]]
  /\ UNCHANGED <<clock, app, recovery, sessions, backup, lookups, creations, cleanups,
                 issued, ended>>

\* The rows an UPDATE that sets revoked_at where it is null finds in S.
Revocable(S) == {s \in S : sessions[s] # NoSession /\ sessions[s].revokedAt = NotRevoked}

Revoked(S, now) ==
  [s \in Sids |-> IF s \in Revocable(S)
                  THEN [sessions[s] EXCEPT !.revokedAt = now] ELSE sessions[s]]

LogoutRevoke(r) ==
  /\ logouts[r] # Idle
  /\ sessions' = Revoked({logouts[r].sid}, logouts[r].revokedAt)
  /\ ended' = ended \cup Revocable({logouts[r].sid})
  /\ logouts' = [logouts EXCEPT ![r] = Idle]
  /\ UNCHANGED <<clock, app, recovery, backup, lookups, creations, cleanups, issued>>

\* The command reads its clock once, some time before its UPDATE runs.
InvalidateAll ==
  /\ recovery \in {"none", "restored"}
  /\ \E now \in 0..clock : sessions' = Revoked(Sids, now)
  /\ ended' = ended \cup Revocable(Sids)
  /\ recovery' = IF recovery = "restored" THEN "invalidated" ELSE recovery
  /\ UNCHANGED <<clock, app, backup, handlers, cleanups, issued>>

-----------------------------------------------------------------------------
(* SessionService.cleanup: one PostgreSQL transaction, a SELECT and a      *)
(* DELETE by id.  main runs it before it listens; the command runs next to *)
(* a serving application, or as a step of the runbook.                     *)

\* Fault: the application is started in the middle of the restore runbook.
MayBoot_Early == TRUE

MayBoot == recovery \in {"none", "emptied"}

CleanupBegin(c) ==
  /\ cleanups[c] = Idle
  /\ c = "startup" => app = "down" /\ MayBoot
  /\ c = "command" => recovery \in {"none", "invalidated"}
  /\ cleanups' = [cleanups EXCEPT ![c] = [now |-> clock, selected |-> FALSE, ids |-> {}]]
  /\ app' = IF c = "startup" THEN "booting" ELSE app
  /\ recovery' = IF c = "startup" THEN "none" ELSE recovery
  /\ UNCHANGED <<clock, sessions, backup, handlers, history>>

\* Fault: sessions that expire while the clean-up could still run are taken too.
Eligible_Early(now) ==
  {s \in Sids : /\ sessions[s] # NoSession
                /\ \/ sessions[s].expiresAt <= now + 1
                   \/ sessions[s].revokedAt \in 0..now}

\* Fault: the clean-up removes expired sessions only.
Eligible_Expired(now) ==
  {s \in Sids : sessions[s] # NoSession /\ sessions[s].expiresAt <= now}

Eligible(now) ==
  {s \in Sids : /\ sessions[s] # NoSession
                /\ \/ sessions[s].expiresAt <= now
                   \/ sessions[s].revokedAt \in 0..now}

Before(s, t) ==
  \/ sessions[s].expiresAt < sessions[t].expiresAt
  \/ sessions[s].expiresAt = sessions[t].expiresAt /\ s < t

\* ids is what ORDER BY expires_at, id LIMIT Limit leaves of S.
FirstOf(ids, S) ==
  /\ ids \subseteq S
  /\ Cardinality(ids) <= Limit
  /\ ids # S => Cardinality(ids) = Limit
  /\ \A s \in ids, t \in S \ ids : Before(s, t)

CleanupSelect(c) ==
  /\ cleanups[c] # Idle
  /\ ~cleanups[c].selected
  /\ \E ids \in SUBSET Sids :
       /\ FirstOf(ids, Eligible(cleanups[c].now))
       /\ cleanups' = [cleanups EXCEPT ![c].selected = TRUE, ![c].ids = ids]
  /\ UNCHANGED <<clock, app, recovery, sessions, backup, handlers, history>>

\* The runbook repeats the command until it reports zero rows; main listens
\* whatever its clean-up reports.
CleanupDelete(c) ==
  /\ cleanups[c] # Idle
  /\ cleanups[c].selected
  /\ LET deleted == {s \in cleanups[c].ids : sessions[s] # NoSession} IN
       /\ sessions' = [s \in Sids |-> IF s \in deleted THEN NoSession ELSE sessions[s]]
       /\ recovery' = IF recovery = "invalidated" /\ deleted = {}
                      THEN "emptied" ELSE recovery
  /\ cleanups' = [cleanups EXCEPT ![c] = Idle]
  /\ app' = IF c = "startup" THEN "serving" ELSE app
  /\ UNCHANGED <<clock, backup, handlers, history>>

\* The database fails it: the transaction rolls back, the command exits and
\* so does a booting application.
CleanupFail(c) ==
  /\ cleanups[c] # Idle
  /\ cleanups' = [cleanups EXCEPT ![c] = Idle]
  /\ app' = IF c = "startup" THEN "down" ELSE app
  /\ UNCHANGED <<clock, recovery, sessions, backup, handlers, history>>

-----------------------------------------------------------------------------
(* The container and the operator's runbooks.                              *)

\* The container stops or crashes: what it had in flight is lost.
Stop ==
  /\ app # "down"
  /\ app' = "down"
  /\ lookups' = NoneOf(Requests)
  /\ creations' = NoneOf(Requests)
  /\ logouts' = NoneOf(Requests)
  /\ cleanups' = [cleanups EXCEPT !["startup"] = Idle]
  /\ UNCHANGED <<clock, recovery, sessions, backup, history>>

Backup ==
  /\ recovery = "none"
  /\ backup' = sessions
  /\ UNCHANGED <<clock, app, recovery, sessions, handlers, cleanups, history>>

\* pg_restore replaces the tables, for which it needs every transaction to be
\* over.  The operator keeps a safety dump of what is replaced and may go on
\* with that one.  Every token issued so far is to be rejected from here on.
Restore ==
  /\ app = "down"
  /\ backup # NoBackup
  /\ cleanups = NoneOf(Cleaners)
  /\ sessions' = backup
  /\ backup' \in {backup, sessions}
  /\ recovery' = "restored"
  /\ ended' = {s \in Sids : issued[s] # NotIssued}
  /\ UNCHANGED <<clock, app, handlers, cleanups, issued>>

Tick ==
  /\ clock < MaxTime
  /\ clock' = clock + 1
  /\ UNCHANGED <<app, recovery, sessions, backup, handlers, cleanups, history>>

Next ==
  \/ \E r \in Requests :
       \/ CreateBegin(r) \/ CreateInsert(r)
       \/ LookupRead(r) \/ LookupCheck(r) \/ LookupDone(r)
       \/ LogoutBegin(r) \/ LogoutRevoke(r)
  \/ \E c \in Cleaners :
       CleanupBegin(c) \/ CleanupSelect(c) \/ CleanupDelete(c) \/ CleanupFail(c)
  \/ InvalidateAll \/ Stop \/ Backup \/ Restore \/ Tick

Spec == Init /\ [][Next]_vars
=============================================================================
