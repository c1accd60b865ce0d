---------------------------- MODULE ScriptCalls ----------------------------
(***************************************************************************)
(* What a session relies on when it has a phone's script work on an         *)
(* account: it sends one account's commands at a time, and handle_read is   *)
(* called once for them, with the script's own answer or with none, before  *)
(* the next account's are sent.  VoteTask and KeepTask are written so.  No  *)
(* io_service, no timers, no socket: that is RestartLua.                    *)
(***************************************************************************)
CONSTANTS Sessions, Accounts,
  NoAccount    \* stands for no answer, too

VARIABLES
  waiting,     \* the accounts whose handle_read a session's thread waits for
  taken,       \* what handle_read took, until the thread goes on
  entered      \* the sessions that the IO thread has begun again

callVars == <<waiting, taken, entered>>

NothingTaken == [account |-> NoAccount, answer |-> NoAccount]

CallsInit ==
  /\ waiting = [s \in Sessions |-> {}]
  /\ taken = [s \in Sessions |-> NothingTaken]
  /\ entered = {}

SendCommands(s, a) ==
  /\ s \notin entered /\ waiting[s] = {} /\ taken[s] = NothingTaken
  /\ waiting' = [waiting EXCEPT ![s] = {a}]
  /\ UNCHANGED <<taken, entered>>

HandleRead(s, a) ==
  /\ waiting[s] = {a} /\ waiting' = [waiting EXCEPT ![s] = {}]
  /\ \E answer \in {a, NoAccount} :
        taken' = [taken EXCEPT ![s] = [account |-> a, answer |-> answer]]
  /\ UNCHANGED entered

GoOn(s) ==
  /\ waiting[s] = {} /\ taken' = [taken EXCEPT ![s] = NothingTaken]
  /\ UNCHANGED <<waiting, entered>>

\* The IO thread comes in; what the session waits for and takes from then on is
\* not told.
BeginAgain(s) ==
  /\ s \notin entered /\ entered' = entered \cup {s}
  /\ waiting' = [waiting EXCEPT ![s] = {}]
  /\ taken' = [taken EXCEPT ![s] = NothingTaken]

CallsNext ==
  \E s \in Sessions :
    \/ \E a \in Accounts : SendCommands(s, a) \/ HandleRead(s, a)
    \/ GoOn(s) \/ BeginAgain(s)

CallsSpec == CallsInit /\ [][CallsNext]_callVars
=============================================================================
