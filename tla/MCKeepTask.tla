----------------------------- MODULE MCKeepTask -----------------------------
(* Instances of KeepTask for TLC: a vote task and the daily sessions on one  *)
(* phone, with two daily sessions beside each other where no vote task was.  *)
EXTENDS KeepTask

CONSTANTS d1, a1

OneDevice == {d1}
OneAccount == {a1}
MCHolders == {Session(d) : d \in Devices} \cup {Daily(s) : s \in KSessions}
KeepFaults == {"connect", "eof", "timeout", "phone", "refused"}

\* Two modes: a vote task with one daily session on the phone, or two daily
\* sessions without vote task, on a phone that stays and never has to start its
\* script again.
VARIABLE beside

MCKInit ==
  /\ KInit /\ table["voted"] = {} /\ table["abnormal"] = {}
  /\ beside \in {"vote", "daily"}

\* No statement fails (VoteReturns looks at what that leaves); nothing goes on
\* after an undefined step nor after a restart, which leads to one of the initial
\* states but for the histories; there is one vote task.
\* The IO thread enters a session before any reset and refusal; after it, when
\* nothing is claimed of the accounts, they stay as they are.
MCKNext ==
  /\ KNext /\ UNCHANGED beside
  /\ ~ub /\ restarts = 0 /\ table' = accounts_pro'
  /\ target' # target => target = 0
  /\ phase = "none" /\ phase' # "none" => result = NoResult
  /\ IF beside = "vote" THEN \A s \in KSessions : s[2] = 1 \/ kpc'[s] = "none"
                        ELSE UNCHANGED taskVars /\ asked' = {} /\ connected' = Devices
  /\ ~entered /\ entered' => resetDue /\ refusals = 0
  /\ entered => UNCHANGED <<poolVars, connected, refusals, resetVars>>

MCKSpec == MCKInit /\ [][MCKNext]_<<kvars, beside>>
MCKFairSpec == MCKSpec /\ KFairness
=============================================================================
