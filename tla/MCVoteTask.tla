----------------------------- MODULE MCVoteTask -----------------------------
(* Instances of VoteTask for TLC: one session thread per device. *)
EXTENDS VoteTask

CONSTANTS d1, d2, a1, a2

TwoDevices == {d1, d2}
TwoAccounts == {a1, a2}
MCHolders == {Session(d) : d \in Devices}
MCSymmetry == Permutations(Devices) \cup Permutations(Accounts)

SafetyFaults == {"connect", "write", "eof", "timeout", "phone"}
AnswerFaults == {"stream"}
LeakFaults == {"write", "eof", "garbled"}

\* The daily flag plays no part in a vote, and an account that starts abnormal
\* is one that is not there.
MCInit == Init /\ table["daily"] = {} /\ table["abnormal"] = {}
MCSpec == MCInit /\ [][Next]_vars
\* What a failed statement leaves is looked at in VoteReturns.  A restart leads
\* to one of the initial states but for the histories: its successors are not
\* looked at again.
StatementsSucceed == table' = accounts_pro'
BeforeRestart == restarts = 0

\* The accounts are alike, so one order of the list is enough; the first votes
\* are those of the first task.
MCFreshInit == MCInit /\ idle = <<a1, a2>> /\ table["voted"] = {}
MCFairSpec == MCFreshInit /\ [][Next]_vars /\ Fairness
=============================================================================
