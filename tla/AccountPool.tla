---------------------------- MODULE AccountPool ----------------------------
(***************************************************************************)
(* wx_account_mgr seen from the session threads that use it: the list of   *)
(* idle accounts, the flags kept in accounts_pro and their copy in the     *)
(* database.  A session takes an account in two steps, because             *)
(* get_idle_not_vote_account and get_idle_not_daily_task_account drop the  *)
(* read lock between finding a list iterator and erasing it.  The lock     *)
(* itself is in AccountLock; every action here is one critical section.   *)
(***************************************************************************)
EXTENDS SequencesExt

CONSTANTS
  Accounts,    \* the rows of wx_accounts_info
  Holders,     \* the session threads
  NoAccount    \* no iterator, or no account held

ASSUME PoolAssumption ==
  /\ IsFiniteSet(Accounts)
  /\ NoAccount \notin Accounts

VARIABLES
  idle,           \* idle_accounts, in list order
  itor,           \* the account each thread's list iterator was found at
  dangling,       \* the threads whose iterator's node has been erased since
  held,           \* the account each thread has checked out
  accounts_pro,   \* the accounts with each flag set, in memory
  table,          \* the same flags in the database
  ub              \* a dangling iterator was erased and the process went on

poolVars == <<idle, itor, dangling, held, accounts_pro, table, ub>>

Flags == {"voted", "abnormal", "daily"}

PoolTypeOK ==
  /\ idle \in Seq(Accounts)
  /\ itor \in [Holders -> Accounts \cup {NoAccount}]
  /\ dangling \in SUBSET Holders
  /\ held \in [Holders -> Accounts \cup {NoAccount}]
  /\ accounts_pro \in [Flags -> SUBSET Accounts]
  /\ table \in [Flags -> SUBSET Accounts]
  /\ ub \in BOOLEAN

-----------------------------------------------------------------------------
\* Mutant of NotVoted: the lookup does not ask for the url.
NotVotedAnyUrl == Accounts \ accounts_pro["abnormal"]

\* Mutant of NotDaily: accounts whose daily task is done are not skipped.
NotDailyAnyMark == Accounts \ accounts_pro["abnormal"]

\* The accounts the two lookups do not skip.
NotVoted == Accounts \ (accounts_pro["voted"] \cup accounts_pro["abnormal"])
NotDaily == Accounts \ (accounts_pro["daily"] \cup accounts_pro["abnormal"])

\* i is the first position of the list with an account of E.
First(E, i) ==
  /\ i \in DOMAIN idle
  /\ idle[i] \in E
  /\ \A j \in 1..(i - 1) : idle[j] \notin E

NoneIdle(E) == \A i \in DOMAIN idle : idle[i] \notin E

IdleNotVoteCount == Cardinality({i \in DOMAIN idle : idle[i] \in NotVoted})

-----------------------------------------------------------------------------
\* The scan under the read lock, up to rlock.unlock().
Lookup(h, E) ==
  /\ itor[h] = NoAccount /\ held[h] = NoAccount
  /\ \E i \in DOMAIN idle : First(E, i) /\ itor' = [itor EXCEPT ![h] = idle[i]]
  /\ UNCHANGED <<idle, dangling, held, accounts_pro, table, ub>>

\* The threads other than h whose iterator is at the node of account a.
Sharing(h, a) == {g \in Holders \ {h} : itor[g] = a}

\* Mutant of TakeEntry: the entry is not erased.
TakeEntryUnerased(h, i) ==
  /\ held' = [held EXCEPT ![h] = idle[i]]
  /\ UNCHANGED <<idle, dangling>>

\* The erase under the write lock takes entry i of the list for h.
TakeEntry(h, i) ==
  /\ held' = [held EXCEPT ![h] = idle[i]]
  /\ idle' = RemoveAt(idle, i)
  /\ dangling' = (dangling \cup Sharing(h, idle[i])) \ {h}

\* The iterator is still good: its node is the first one with that account.
TakeValid(h) ==
  /\ itor[h] # NoAccount /\ h \notin dangling
  /\ \E i \in DOMAIN idle : First({itor[h]}, i) /\ TakeEntry(h, i)
  /\ itor' = [itor EXCEPT ![h] = NoAccount]
  /\ UNCHANGED <<accounts_pro, table, ub>>

\* Another thread erased the node in between: *itor and erase(itor) are
\* undefined.  Either the freed node still holds the old name, or its memory
\* is now the node of another entry; an abort of the process is Restart.
TakeDangling(h) ==
  /\ h \in dangling /\ itor[h] # NoAccount
  /\ \/ /\ held' = [held EXCEPT ![h] = itor[h]]
        /\ dangling' = dangling \ {h}
        /\ UNCHANGED idle
     \/ \E i \in DOMAIN idle : TakeEntry(h, i)
  /\ itor' = [itor EXCEPT ![h] = NoAccount]
  /\ ub' = TRUE
  /\ UNCHANGED <<accounts_pro, table>>

\* set_idle_account, by the thread that holds the account.
SetIdle(h) ==
  /\ held[h] # NoAccount
  /\ idle' = Append(idle, held[h])
  /\ held' = [held EXCEPT ![h] = NoAccount]
  /\ UNCHANGED <<itor, dangling, accounts_pro, table, ub>>

\* The thread goes on without set_idle_account: nobody knows the account.
Forget(h) ==
  /\ held[h] # NoAccount
  /\ held' = [held EXCEPT ![h] = NoAccount]
  /\ UNCHANGED <<idle, itor, dangling, accounts_pro, table, ub>>

\* Mutant of SetFlag: the database goes first and memory may be left out.
SetFlagInTable(f, a) ==
  /\ table' = [table EXCEPT ![f] = @ \cup {a}]
  /\ \/ accounts_pro' = [accounts_pro EXCEPT ![f] = @ \cup {a}]
     \/ UNCHANGED accounts_pro
  /\ UNCHANGED <<idle, itor, dangling, held, ub>>

\* A flag is set in memory and then in the database, where the statement may
\* fail: the SQLException is only printed.
SetFlag(f, a) ==
  /\ accounts_pro' = [accounts_pro EXCEPT ![f] = @ \cup {a}]
  /\ \/ table' = [table EXCEPT ![f] = @ \cup {a}]
     \/ UNCHANGED table
  /\ UNCHANGED <<idle, itor, dangling, held, ub>>

\* set_everyday_task(a, NOT_FINISHED), one step of reset_all_everyday_task.
ResetDaily(a) ==
  /\ accounts_pro' = [accounts_pro EXCEPT !["daily"] = @ \ {a}]
  /\ \/ table' = [table EXCEPT !["daily"] = @ \ {a}]
     \/ UNCHANGED table
  /\ UNCHANGED <<idle, itor, dangling, held, ub>>

\* The process is gone and started again: load_data reads every account back
\* as idle, in some order, with the flags of the database.
Load ==
  /\ idle' \in SetToSeqs(Accounts)
  /\ itor' = [h \in Holders |-> NoAccount]
  /\ held' = [h \in Holders |-> NoAccount]
  /\ dangling' = {}
  /\ accounts_pro' = table
  /\ ub' = FALSE
  /\ UNCHANGED table

-----------------------------------------------------------------------------
PoolInit ==
  /\ idle \in SetToSeqs(Accounts)
  /\ itor = [h \in Holders |-> NoAccount]
  /\ held = [h \in Holders |-> NoAccount]
  /\ dangling = {}
  /\ table \in [Flags -> SUBSET Accounts]
  /\ accounts_pro = table
  /\ ub = FALSE

PoolNext ==
  \/ \E h \in Holders : \E E \in {NotVoted, NotDaily} : Lookup(h, E)
  \/ \E h \in Holders :
        TakeValid(h) \/ TakeDangling(h) \/ SetIdle(h) \/ Forget(h)
  \/ \E a \in Accounts : (\E f \in Flags : SetFlag(f, a)) \/ ResetDaily(a)
  \/ Load

PoolSpec == PoolInit /\ [][PoolNext]_poolVars

-----------------------------------------------------------------------------
IdleAccounts == {idle[i] : i \in DOMAIN idle}

\* Until a dangling iterator is erased, no account is checked out by two
\* sessions, listed twice, or both checked out and listed: the unlocked gap in
\* the two get_idle_* functions is the only way to share an account.
ExclusiveCheckout ==
  ~ub => /\ \A i, j \in DOMAIN idle : i # j => idle[i] # idle[j]
         /\ \A h \in Holders : held[h] \notin IdleAccounts
         /\ \A g, h \in Holders :
               g # h /\ held[g] # NoAccount => held[g] # held[h]

\* An iterator that was found and whose node nobody erased is still in the
\* list, whatever other threads append and erase meanwhile.
IteratorsValid ==
  ~ub => \A h \in Holders :
            itor[h] # NoAccount /\ h \notin dangling => itor[h] \in IdleAccounts

\* A thread is at most in one of the two phases of a checkout.
IteratorOrAccount ==
  /\ \A h \in dangling : itor[h] # NoAccount
  /\ \A h \in Holders : itor[h] # NoAccount => held[h] = NoAccount

\* What makes ExclusiveCheckout inductive.
PoolInv == PoolTypeOK /\ IteratorOrAccount /\ IteratorsValid /\ ExclusiveCheckout
=============================================================================
