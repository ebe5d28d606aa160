------------------------ MODULE OidcLoginProperties -------------------------
(***************************************************************************)
(* Correctness of OpenID logins.                                           *)
(***************************************************************************)
EXTENDS OidcLogin

\* Callback c has consumed the transaction of its login.
Past(c) == callbacks[c] # Idle /\ callbacks[c].phase \notin {"begun", "consuming"}

\* "State and nonce use a server-side, single-use OIDC transaction" (FF-AUTH-002):
\* however many callbacks race with the same state, with restarts and failures
\* after the consumption in between, a login establishes at most one session, and
\* each restore of an older table lets it establish at most one more.
SingleUse ==
  \A l \in Logins : established[l] <= 1 + restores

\* No callback that arrives when its login is ten minutes old, or later, gets past
\* the consumption (FF-AUTH-002-AC02).
FreshOnly ==
  \A c \in Callbacks :
    Past(c) => callbacks[c].startedAt < callbacks[c].expiresAt

\* Every callback is answered, with a session, an error page or the end of the
\* process, even when the discovery it waits for was begun by another request.
CallbacksAnswered ==
  \A c \in Callbacks : callbacks[c] # Idle ~> callbacks[c] = Idle

\* FF-AUTH-002-AC01: an unexpired single-use state and a provider that has been up
\* since the callback came in get as far as the code exchange.
ConsumedReachesExchange ==
  [][\A c \in Callbacks :
       (InPhase(c, "discovering") /\ callbacks[c].steady) => ~CallbackReject(c)]_vars

-----------------------------------------------------------------------------
(* The inductive invariant.                                                *)

\* Requests read the clock in the past, and only a redirected login is called back.
CallbackInv ==
  \A c \in Callbacks : callbacks[c] # Idle =>
    /\ callbacks[c].startedAt <= callbacks[c].now
    /\ callbacks[c].now <= clock
    /\ logins[callbacks[c].state].phase = "redirected"

\* A login whose row can still be consumed, and a login with a callback past the
\* consumption, have a session to spare; such a callback is alone and its row is
\* consumed.
SpareInv ==
  \A l \in Logins :
    /\ logins[l].phase \in {"idle", "inserting"} => established[l] = 0
    /\ transactions[l] # NoTransaction /\ transactions[l].consumedAt = NotConsumed
         => established[l] <= restores
    /\ \A c \in Callbacks : Past(c) /\ callbacks[c].state = l =>
         /\ transactions[l] # NoTransaction
         /\ transactions[l].consumedAt # NotConsumed
         /\ established[l] <= restores
         /\ \A d \in Callbacks : Past(d) /\ callbacks[d].state = l => d = c

IInv ==
  /\ TypeOK
  /\ SingleUse
  /\ FreshOnly
  /\ CallbackInv
  /\ SpareInv
=============================================================================
