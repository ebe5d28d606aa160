------------------------- MODULE SessionsProperties -------------------------
(***************************************************************************)
(* Correctness of sessions under interleaved requests, clean-ups, stops    *)
(* and restores.                                                           *)
(***************************************************************************)
EXTENDS Sessions

Status(s) ==
  IF issued[s] = NotIssued THEN "unissued" ELSE IF Live(s) THEN "live" ELSE "ended"

Asked(r) ==
  IF lookups[r] = Idle THEN Idle
  ELSE [sid |-> lookups[r].sid, live |-> lookups[r].live, answer |-> lookups[r].answer]

Promise == INSTANCE SessionsAbstract
             WITH status <- [s \in Sids |-> Status(s)],
                  asked <- [r \in Requests |-> Asked(r)]

ASSUME AskedAssumption == Idle \notin Promise!Question

\* A token whose session has expired, was logged out, was invalidated or is older
\* than the last restore is never admitted again, and a live one is never
\* refused, whatever clean-ups, backups and restores run in between
\* (FF-AUTH-004, FF-AUTH-005-AC01, FF-AUTH-009-AC02).
ImplementsSessionsAbstract == Promise!Spec

\* A session that is live has its row, unrevoked: clean-ups, which delete by ids
\* they selected earlier with a clock they read even earlier, take dead sessions
\* only (FF-AUTH-006-AC01), and no restore makes a live one vanish.
LiveSessionsKept ==
  \A s \in Sids : Live(s) =>
    /\ sessions[s] # NoSession
    /\ sessions[s].revokedAt = NotRevoked

\* The application stays down during a restore, and once the runbook has seen a
\* clean-up report zero rows no session of the dump is left to be served.
RestoredEmpty ==
  /\ recovery # "none" => app = "down"
  /\ recovery = "emptied" => \A s \in Sids : sessions[s] = NoSession

-----------------------------------------------------------------------------
(* The inductive invariant.                                                *)

\* Rows, in the table and in the dump, carry the expiry their session was issued
\* with, and were not revoked in the future.
Recorded(table) ==
  \A s \in Sids : table[s] # NoSession =>
    table[s].expiresAt = issued[s] /\ table[s].revokedAt <= clock

\* Revocation is recorded where it happened; unless a restore has just brought it
\* back, no unrevoked row belongs to a session that was revoked or restored over.
TableInv ==
  /\ Recorded(sessions)
  /\ backup # NoBackup => Recorded(backup)
  /\ \A s \in ended : issued[s] # NotIssued
  /\ \A s \in Sids : sessions[s] # NoSession =>
       /\ sessions[s].revokedAt # NotRevoked => s \in ended
       /\ recovery # "restored" /\ s \in ended => sessions[s].revokedAt # NotRevoked

\* Only a serving application has requests, and what a lookup has read is good
\* exactly if its session was live then and has not expired since.
HandlerInv ==
  /\ app # "serving" => /\ lookups = NoneOf(Requests)
                        /\ creations = NoneOf(Requests)
                        /\ logouts = NoneOf(Requests)
  /\ \A r \in Requests : lookups[r] # Idle =>
       /\ Valid(lookups[r].row) => lookups[r].live
       /\ lookups[r].live => /\ lookups[r].row # NoSession
                             /\ lookups[r].row.revokedAt = NotRevoked
                             /\ lookups[r].row.expiresAt = issued[lookups[r].sid]
  /\ \A r \in Requests : logouts[r] # Idle => logouts[r].revokedAt <= clock
  /\ \A r \in Requests : creations[r] # Idle =>
       /\ issued[creations[r].sid] = NotIssued
       /\ \A q \in Requests \ {r} :
            creations[q] # Idle => creations[q].sid # creations[r].sid

\* What a clean-up has selected is dead for good.
CleanupInv ==
  /\ cleanups["startup"] # Idle <=> app = "booting"
  /\ \A c \in Cleaners : cleanups[c] # Idle =>
       /\ cleanups[c].now <= clock
       /\ \A s \in cleanups[c].ids : issued[s] # NotIssued /\ ~Live(s)

\* While the runbook runs, the rows of the dump are revoked before the command it
\* repeats reads its clock, so the command selects something as long as rows are
\* left.
RecoveryInv ==
  /\ RestoredEmpty
  /\ recovery \in {"restored", "emptied"} => cleanups["command"] = Idle
  /\ recovery = "restored" => \A s \in Sids : issued[s] # NotIssued => s \in ended
  /\ recovery = "invalidated" =>
       /\ \A s \in Sids : sessions[s] # NoSession => sessions[s].revokedAt # NotRevoked
       /\ cleanups["command"] # Idle =>
            /\ \A s \in Sids : sessions[s] # NoSession =>
                 sessions[s].revokedAt <= cleanups["command"].now
            /\ cleanups["command"].selected =>
                 /\ \A s \in cleanups["command"].ids : sessions[s] # NoSession
                 /\ cleanups["command"].ids = {} =>
                      \A s \in Sids : sessions[s] = NoSession

IInv ==
  /\ TypeOK
  /\ TableInv
  /\ LiveSessionsKept
  /\ HandlerInv
  /\ CleanupInv
  /\ RecoveryInv
=============================================================================
