---------------------------- MODULE MCRestartLua ----------------------------
(* Instances of RestartLua for TLC: a phone's sessions one after the other.  *)
EXTENDS RestartLua

CONSTANTS s1, s2, c1, c2

TwoSessions == {s1, s2}
TwoConns == {c1, c2}

\* A phone gets its next session when it is idle again, its second connection is
\* its second.  Once a restart was taken up the app reports no other.
MCNext ==
  /\ Next
  /\ pc'[s2] # "none" => pc[s1] \in {"out", "destroyed"}
  /\ c2 \in called' => c1 \in called'
  /\ shared # {} => acks' \subseteq acks
MCSpec == Init /\ [][MCNext]_vars
=============================================================================
