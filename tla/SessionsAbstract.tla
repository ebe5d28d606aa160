-------------------------- MODULE SessionsAbstract --------------------------
(***************************************************************************)
(* What the session store promises its users: a session is live from its   *)
(* creation until it ends, ending is for good, and a request that asks     *)
(* with a session's token is admitted only if the session was live when it *)
(* asked, and refused only if it has ended by the time of the answer.      *)
(* Tables, clocks, clean-ups, backups and restores are out of sight.       *)
(***************************************************************************)
CONSTANTS Sids, Requests, Idle

VARIABLES
  status,   \* status[s]: whether session s was issued, and has ended since
  asked     \* asked[r]: the session request r asks with, and the answer it got

vars == <<status, asked>>

\* live: the session was live when the request asked.
Question == [sid : Sids, live : BOOLEAN, answer : {"none", "admitted", "refused"}]

Init ==
  /\ status = [s \in Sids |-> "unissued"]
  /\ asked = [r \in Requests |-> Idle]

\* An INSERT that takes longer than a lifetime issues a session that has ended.
Issue(s) ==
  /\ status[s] = "unissued"
  /\ \E new \in {"live", "ended"} : status' = [status EXCEPT ![s] = new]
  /\ UNCHANGED asked

\* A session ends alone, or all issued sessions end together.
End(S) ==
  /\ status' = [s \in Sids |->
                  IF s \in S /\ status[s] = "live" THEN "ended" ELSE status[s]]
  /\ UNCHANGED asked

Ask(r, s) ==
  /\ asked[r] = Idle
  /\ asked' = [asked EXCEPT ![r] = [sid |-> s, live |-> status[s] = "live",
                                    answer |-> "none"]]
  /\ UNCHANGED status

Answer(r, answer) ==
  /\ asked[r] # Idle
  /\ asked[r].answer = "none"
  /\ asked' = [asked EXCEPT ![r] = [@ EXCEPT !.answer = answer]]
  /\ UNCHANGED status

Admit(r) == Answer(r, "admitted") /\ asked[r].live

Refuse(r) ==
  /\ Answer(r, "refused")
  /\ asked[r].live => status[asked[r].sid] = "ended"

Done(r) ==
  /\ asked[r] # Idle
  /\ asked[r].answer # "none"
  /\ asked' = [asked EXCEPT ![r] = Idle]
  /\ UNCHANGED status

\* The process stops: no request it was serving gets an answer.
Abandon ==
  /\ asked' = [r \in Requests |-> Idle]
  /\ UNCHANGED status

Next ==
  \/ \E s \in Sids : Issue(s)
  \/ \E S \in SUBSET Sids : End(S)
  \/ \E r \in Requests : \/ \E s \in Sids : Ask(r, s)
                         \/ Admit(r)
                         \/ Refuse(r)
                         \/ Done(r)
  \/ Abandon

Spec == Init /\ [][Next]_vars
=============================================================================
