--------------------------- MODULE KeepTaskProofs ---------------------------
(***************************************************************************)
(* The daily sessions beside the vote sessions, for any number of phones,  *)
(* accounts and sessions of a phone.  The vote task's invariant holds on:  *)
(* a daily session's step is a step of the pool for a holder of its own.   *)
(* Then that no account's daily task is done twice but for a misread       *)
(* answer, and what the phones' statuses tell of their sessions.           *)
(***************************************************************************)
EXTENDS KeepTask, VoteTaskProofs

LEMMA DailyHolders ==
  /\ \A s \in KSessions : Daily(s) \in Holders /\ Phone(s) \in Devices
  /\ \A r, s \in KSessions : Daily(r) = Daily(s) => r = s
  /\ \A s \in KSessions, d \in Devices : Daily(s) # Session(d)
<1>1. \A s \in KSessions : s = <<s[1], s[2]>> /\ s[1] \in Devices
  BY DEF KSessions
<1>2. ASSUME NEW s \in KSessions, NEW d \in Devices PROVE Daily(s) # Session(d)
  <2>1. Daily(s)[1] # Session(d)[1]
    BY DEF Daily, Session
  <2> QED BY <2>1
<1>3. ASSUME NEW r \in KSessions, NEW s \in KSessions, Daily(r) = Daily(s) PROVE r = s
  <2>1. Daily(r)[2] = r[1] /\ Daily(r)[3] = r[2] /\ Daily(s)[2] = s[1] /\ Daily(s)[3] = s[2]
    BY DEF Daily
  <2> QED BY <1>1, <1>3, <2>1
<1> QED
  BY <1>1, <1>2, <1>3, KeepAssumption DEF Phone

\* The invariant: what a daily session has at each place of its code, and that
\* nobody else does the daily task of the account it has.
DailySide ==
  \A s \in KSessions :
     /\ itor[Daily(s)] # NoAccount <=> kpc[s] = "found"
     /\ held[Daily(s)] # NoAccount <=> kpc[s] \in KHolding

\* The accounts the daily sessions' lookup skips.
Skipped == accounts_pro["daily"] \cup accounts_pro["abnormal"]

Undone ==
  ~ub => \A s \in KSessions :
            /\ kpc[s] = "found" /\ Daily(s) \notin dangling => itor[Daily(s)] \notin Skipped
            /\ kpc[s] \in {"mark", "read"} => held[Daily(s)] \notin Skipped

KOwnTypeOK ==
  /\ kpc \in [KSessions -> KLocations]
  /\ ksock \in [KSessions -> {"open", "half", "closed"}]
  /\ resetDue \in BOOLEAN /\ resetting \in SUBSET Accounts
  /\ asked \in SUBSET Devices /\ iopc \in {"out", "begin", "inside"}
  /\ visited \in Names /\ entered \in BOOLEAN
  /\ chores \in [Accounts -> 0..2] /\ misread \in SUBSET Accounts
  /\ crossed \in SUBSET Devices

KOwnInv == KOwnTypeOK /\ DailySide /\ Undone
KInv == VoteInv /\ KOwnInv

LEMMA KInvParts ==
  /\ KInv => KeepInv
  /\ KInv => PoolTypeOK /\ PoolInv /\ DeviceTypeOK /\ refusals \in Nat /\ restarts \in Nat
BY DEF KInv, KOwnInv, KeepInv, KTypeOK, KOwnTypeOK, DailySide, VoteInv, TypeOK

LEMMA KInitInv == KInit => KInv
<1> SUFFICES ASSUME KInit PROVE KInv
  OBVIOUS
<1>1. VoteInv
  BY OwnInitInv, PoolInitInv, TypeOKParts DEF KInit, Init, VoteInv, OwnInv, PoolInv
<1>2. KOwnTypeOK
  <2>1. visited \in Names
    BY DEF KInit, Names
  <2>2. chores \in [Accounts -> 0..2]
    BY DEF KInit
  <2> QED BY <2>1, <2>2 DEF KInit, KOwnTypeOK, KLocations
<1>3. DailySide /\ Undone
  BY DailyHolders DEF KInit, Init, PoolInit, DailySide, Undone, KHolding
<1> QED
  BY <1>1, <1>2, <1>3 DEF KInv, KOwnInv

-----------------------------------------------------------------------------
\* What a step of holder h does to the pool besides the flags: nothing to the
\* other holders, but that their iterators may be left dangling.
LEMMA HolderStep ==
  ASSUME PoolTypeOK, NEW h \in Holders, NEW E \in {NotVoted, NotDaily},
         \/ Lookup(h, E) \/ TakeValid(h) \/ TakeDangling(h)
         \/ SetIdle(h) \/ Forget(h) \/ UNCHANGED poolVars
  PROVE  /\ [PoolNext]_poolVars
         /\ \A g \in Holders \ {h} : itor'[g] = itor[g] /\ held'[g] = held[g]
         /\ accounts_pro' = accounts_pro
         /\ ~ub' => ~ub /\ \A g \in Holders \ {h} : g \in dangling => g \in dangling'
<1>1. [PoolNext]_poolVars
  BY DEF PoolNext
<1>2. CASE Lookup(h, E) \/ SetIdle(h) \/ Forget(h) \/ UNCHANGED poolVars
  BY <1>1, <1>2 DEF PoolTypeOK, Lookup, SetIdle, Forget, poolVars
<1>3. CASE TakeValid(h)
  BY <1>1, <1>3 DEF PoolTypeOK, TakeValid, TakeEntry
<1>4. CASE TakeDangling(h)
  BY <1>1, <1>4 DEF PoolTypeOK, TakeDangling, TakeEntry
<1> QED
  BY <1>2, <1>3, <1>4

\* What the vote task's invariant asks of a step of anybody else.
Elsewhere ==
  /\ UNCHANGED voteOnly /\ DeviceTypeOK' /\ refusals' \in Nat /\ restarts' \in Nat
  /\ \A d \in Devices : /\ itor'[Session(d)] = itor[Session(d)]
                        /\ held'[Session(d)] = held[Session(d)]
  /\ accounts_pro'["voted"] = accounts_pro["voted"]
  /\ ~ub' => ~ub /\ \A d \in Devices : Session(d) \in dangling => Session(d) \in dangling'

LEMMA ElsewhereKeepsVotes ==
  ASSUME VoteInv, [PoolNext]_poolVars, Elsewhere
  PROVE  VoteInv'
<1>1. PoolInv'
  BY PoolStepInv DEF VoteInv
<1>2. OwnTypeOK'
  BY TypeOKParts DEF VoteInv, OwnTypeOK, Elsewhere, voteOnly, taskVars, sessionVars
<1>3. SessionInv' /\ Unvoted'
  BY DEF VoteInv, SessionInv, Unvoted, Elsewhere, voteOnly, taskVars, sessionVars
<1> QED
  BY <1>1, <1>2, <1>3, TypeOKParts DEF VoteInv, PoolInv, TypeOK, OwnTypeOK

\* The places of a daily session and the calls it makes between them.
PlainCall(s) ==
  \/ /\ UNCHANGED poolVars
     /\ kpc[s] = "found" <=> kpc'[s] = "found"
     /\ kpc[s] \in KHolding <=> kpc'[s] \in KHolding
     /\ kpc'[s] \in {"mark", "read"} => kpc[s] \in {"mark", "read"}
  \/ kpc'[s] = "found" /\ Lookup(Daily(s), NotDaily)
  \/ kpc'[s] = "mark" /\ (TakeValid(Daily(s)) \/ TakeDangling(Daily(s)))
  \/ kpc'[s] \notin KHolding \cup {"found"} /\ (SetIdle(Daily(s)) \/ Forget(Daily(s)))

FlagCall(s) ==
  /\ kpc[s] = "read" /\ kpc'[s] = "settle"
  /\ \E f \in {"daily", "abnormal"} : SetFlag(f, held[Daily(s)])

DailyCall(s) == PlainCall(s) \/ FlagCall(s)

LEMMA ChoreTypes ==
  ASSUME chores \in [Accounts -> 0..2], NEW a, Chore(a)
  PROVE  chores' \in [Accounts -> 0..2]
<1>1. chores' = [chores EXCEPT ![a] = IF chores[a] < 2 THEN chores[a] + 1 ELSE 2]
  BY DEF Chore
<1>2. \A b \in Accounts : chores'[b] \in 0..2
  BY <1>1
<1> QED
  BY <1>1, <1>2

LEMMA DailyMoves ==
  ASSUME KInv, NEW s \in KSessions, KSessionStep(s)
  PROVE  /\ DailyCall(s) /\ KOwnTypeOK'
         /\ \A r \in KSessions \ {s} : kpc'[r] = kpc[r]
         /\ UNCHANGED <<voteOnly, restarts, connected, ioVars, crossed>>
         /\ DeviceTypeOK' /\ refusals' \in Nat
         /\ \A d \in Devices \ {Phone(s)} : status'[d] = status[d]
<1> USE KInvParts, DailyHolders
    DEF KInv, KOwnInv, KOwnTypeOK, DailyCall, PlainCall, FlagCall, DeviceTypeOK, KGoto, SetStatus,
        Statuses, KLocations, KHolding, vars, voteOnly, counters, deviceVars, taskVars,
        sessionVars, envVars, ioVars, resetVars, visitVars, choreVars, Ask
<1>1. CASE KFindConnection(s) BY <1>1 DEF KFindConnection
<1>2. CASE KConnect(s) BY <1>2 DEF KConnect
<1>3. CASE KRestartTimeout(s) BY <1>3 DEF KRestartTimeout
<1>4. CASE KFinish(s) BY <1>4 DEF KFinish
<1>5. CASE KFindAccount(s) BY <1>5 DEF KFindAccount
<1>6. CASE KNoAccountLeft(s) BY <1>6 DEF KNoAccountLeft
<1>7. CASE KTakeAccount(s)
  <2>1. kpc'[s] = "mark" /\ DailyCall(s)
    BY <1>7 DEF KTakeAccount
  <2> QED
    BY <1>7, <2>1 DEF KTakeAccount
<1>8. CASE KSendCommands(s)
  <2>1. /\ kpc[s] = "mark" /\ kpc' = [kpc EXCEPT ![s] = kpc'[s]]
        /\ \/ UNCHANGED poolVars /\ kpc'[s] = "read"
           \/ Forget(Daily(s)) /\ kpc'[s] = "loop"
    BY <1>8 DEF KSendCommands
  <2>2. DailyCall(s)
    BY <2>1
  <2> QED
    BY <1>8, <2>1, <2>2 DEF KSendCommands
<1>9. CASE KReplySuccess(s)
  <2>1. kpc[s] = "read" /\ kpc' = [kpc EXCEPT ![s] = "settle"] /\ DailyCall(s)
    BY <1>9 DEF KReplySuccess
  <2>2. chores' \in [Accounts -> 0..2]
    BY <1>9, ChoreTypes DEF KReplySuccess
  <2> QED
    BY <1>9, <2>1, <2>2 DEF KReplySuccess
<1>10. CASE KReplyAbnormal(s)
  <2>1. kpc[s] = "read" /\ kpc' = [kpc EXCEPT ![s] = "settle"] /\ DailyCall(s)
    BY <1>10 DEF KReplyAbnormal
  <2>2. chores' \in [Accounts -> 0..2]
    BY <1>10, ChoreTypes DEF KReplyAbnormal
  <2> QED
    BY <1>10, <2>1, <2>2 DEF KReplyAbnormal
<1>11. CASE KReplyRefused(s)
  <2>1. /\ kpc[s] = "read" /\ kpc' = [kpc EXCEPT ![s] = "settle"] /\ UNCHANGED poolVars
        /\ refusals' = refusals + 1
    BY <1>11 DEF KReplyRefused
  <2>2. chores' \in [Accounts -> 0..2]
    BY <1>11, ChoreTypes DEF KReplyRefused
  <2>3. held[Daily(s)] \in Accounts
    BY <2>1 DEF DailySide, PoolTypeOK
  <2>4. misread' \in SUBSET Accounts
    BY <1>11, <2>3 DEF KReplyRefused
  <2> QED
    BY <1>11, <2>1, <2>2, <2>4 DEF KReplyRefused
<1>12. CASE KSetIdleAccount(s) BY <1>12 DEF KSetIdleAccount
<1>13. CASE KReadFailed(s)
  <2>1. kpc' = [kpc EXCEPT ![s] = "end"] /\ DailyCall(s)
    BY <1>13 DEF KReadFailed
  <2>2. chores' \in [Accounts -> 0..2]
    BY <1>13, ChoreTypes DEF KReadFailed
  <2> QED
    BY <1>13, <2>1, <2>2 DEF KReadFailed
<1>14. CASE KOnReadTimeout(s) BY <1>14 DEF KOnReadTimeout, CloseLate
<1>15. CASE KEnd(s) BY <1>15 DEF KEnd, CloseLate
<1> QED
  BY <1>1, <1>2, <1>3, <1>4, <1>5, <1>6, <1>7, <1>8, <1>9, <1>10, <1>11, <1>12,
     <1>13, <1>14, <1>15 DEF KSessionStep, KHandleRead

\* What the three kinds of calls leave the holder itself with.
LEMMA HolderEnds ==
  ASSUME PoolTypeOK, NEW h \in Holders
  PROVE  /\ Lookup(h, NotDaily) =>
              itor'[h] # NoAccount /\ held'[h] = NoAccount /\ itor'[h] \in NotDaily
         /\ TakeValid(h) \/ TakeDangling(h) =>
              /\ itor'[h] = NoAccount /\ held'[h] # NoAccount
              /\ ~ub' => h \notin dangling /\ held'[h] = itor[h]
         /\ SetIdle(h) \/ Forget(h) =>
              itor'[h] = itor[h] /\ held[h] # NoAccount /\ held'[h] = NoAccount
<1>1. \A i \in DOMAIN idle : idle[i] \in Accounts /\ idle[i] # NoAccount
  BY PoolAssumption, LenProperties DEF PoolTypeOK
<1>2. ASSUME Lookup(h, NotDaily)
      PROVE  itor'[h] # NoAccount /\ held'[h] = NoAccount /\ itor'[h] \in NotDaily
  BY <1>1, <1>2 DEF Lookup, First, PoolTypeOK
<1>3. ASSUME TakeValid(h)
      PROVE  /\ itor'[h] = NoAccount /\ held'[h] # NoAccount
             /\ h \notin dangling /\ held'[h] = itor[h]
  BY <1>1, <1>3 DEF TakeValid, TakeEntry, First, PoolTypeOK
<1>4. ASSUME TakeDangling(h)
      PROVE  itor'[h] = NoAccount /\ held'[h] # NoAccount /\ ub'
  BY <1>1, <1>4 DEF TakeDangling, TakeEntry, PoolTypeOK
<1>5. ASSUME SetIdle(h) \/ Forget(h)
      PROVE  itor'[h] = itor[h] /\ held[h] # NoAccount /\ held'[h] = NoAccount
  BY <1>5 DEF SetIdle, Forget, PoolTypeOK
<1> QED
  BY <1>2, <1>3, <1>4, <1>5

\* A daily session's step that sets no flag.
LEMMA DailyPlain ==
  ASSUME KInv, NEW s \in KSessions, KSessionStep(s), PlainCall(s)
  PROVE  [PoolNext]_poolVars /\ Elsewhere /\ KOwnInv' /\ accounts_pro' = accounts_pro
<1> DEFINE h == Daily(s)
<1>1. PoolTypeOK /\ h \in Holders
  BY KInvParts, DailyHolders
<1>2. /\ PlainCall(s) /\ KOwnTypeOK'
      /\ \A r \in KSessions \ {s} : kpc'[r] = kpc[r]
      /\ UNCHANGED <<voteOnly, restarts>> /\ DeviceTypeOK' /\ refusals' \in Nat
  BY DailyMoves
<1>3. \/ Lookup(h, NotDaily) \/ TakeValid(h) \/ TakeDangling(h)
      \/ SetIdle(h) \/ Forget(h) \/ UNCHANGED poolVars
  BY <1>2 DEF PlainCall
<1>4. /\ [PoolNext]_poolVars
      /\ \A g \in Holders \ {h} : itor'[g] = itor[g] /\ held'[g] = held[g]
      /\ accounts_pro' = accounts_pro
      /\ ~ub' => ~ub /\ \A g \in Holders \ {h} : g \in dangling => g \in dangling'
  BY <1>1, <1>3, HolderStep
<1>5. Elsewhere
  BY <1>2, <1>4, KInvParts, DailyHolders, SessionsAreHolders DEF Elsewhere
<1>6. \A r \in KSessions \ {s} : Daily(r) \in Holders \ {h}
  BY DailyHolders
<1>7. DailySide'
  <2>1. /\ itor'[h] # NoAccount <=> kpc'[s] = "found"
        /\ held'[h] # NoAccount <=> kpc'[s] \in KHolding
    BY <1>1, <1>2, <1>3, HolderEnds
    DEF PlainCall, KInv, KOwnInv, DailySide, KHolding, poolVars
  <2> QED
    BY <1>2, <1>4, <1>6, <2>1 DEF KInv, KOwnInv, DailySide
<1>8. Undone'
  <2> SUFFICES ASSUME ~ub'
               PROVE \A r \in KSessions :
                 /\ kpc'[r] = "found" /\ Daily(r) \notin dangling' =>
                       itor'[Daily(r)] \notin Skipped
                 /\ kpc'[r] \in {"mark", "read"} =>
                       held'[Daily(r)] \notin Skipped
    BY <1>4 DEF Undone, Skipped
  <2>1. \A r \in KSessions :
            /\ kpc[r] = "found" /\ Daily(r) \notin dangling =>
                  itor[Daily(r)] \notin Skipped
            /\ kpc[r] \in {"mark", "read"} => held[Daily(r)] \notin Skipped
    BY <1>4 DEF KInv, KOwnInv, Undone
  <2>2. CASE UNCHANGED poolVars
    <3>1. /\ kpc[s] = "found" <=> kpc'[s] = "found"
          /\ kpc'[s] \in {"mark", "read"} => kpc[s] \in {"mark", "read"}
      <4>1. ~Lookup(h, NotDaily) /\ ~TakeValid(h) /\ ~TakeDangling(h)
            /\ ~SetIdle(h) /\ ~Forget(h)
        BY <1>1, <2>2, HolderEnds DEF poolVars, Lookup, TakeValid, TakeDangling, SetIdle, Forget
      <4> QED BY <1>2, <4>1 DEF PlainCall
    <3> QED BY <1>2, <2>1, <2>2, <3>1 DEF poolVars
  <2>3. CASE Lookup(h, NotDaily)
    <3>1. itor'[h] \notin Skipped /\ held'[h] = NoAccount
      BY <1>1, <2>3, HolderEnds DEF NotDaily, Skipped
    <3>2. kpc'[s] \notin {"mark", "read"}
      BY <1>7, <3>1 DEF DailySide, KHolding
    <3> QED BY <1>2, <1>4, <1>6, <2>1, <3>1, <3>2
  <2>4. CASE TakeValid(h) \/ TakeDangling(h)
    <3>1. h \notin dangling /\ itor'[h] = NoAccount /\ held'[h] = itor[h] /\ itor[h] # NoAccount
      BY <1>1, <2>4, HolderEnds
    <3>2. kpc[s] = "found" /\ kpc'[s] # "found"
      BY <1>7, <3>1 DEF DailySide, KInv, KOwnInv
    <3> QED BY <1>2, <1>4, <1>6, <2>1, <3>1, <3>2
  <2>5. CASE SetIdle(h) \/ Forget(h)
    <3>1. itor'[h] = itor[h] /\ held[h] # NoAccount /\ held'[h] = NoAccount
      BY <1>1, <2>5, HolderEnds
    <3>2. kpc'[s] \notin {"found", "mark", "read"}
      BY <1>7, <3>1 DEF DailySide, KInv, KOwnInv, KHolding
    <3> QED BY <1>2, <1>4, <1>6, <2>1, <3>2
  <2> QED BY <1>3, <2>2, <2>3, <2>4, <2>5
<1> QED
  BY <1>2, <1>4, <1>5, <1>7, <1>8 DEF KOwnInv

\* The answer about the account a daily session has sets one of its flags.
LEMMA DailyFlags ==
  ASSUME KInv, NEW s \in KSessions, KSessionStep(s), FlagCall(s)
  PROVE  [PoolNext]_poolVars /\ Elsewhere /\ KOwnInv' /\ held[Daily(s)] \in Accounts
<1> DEFINE h == Daily(s)
           a == held[h]
<1>1. PoolTypeOK /\ PoolInv /\ h \in Holders
  BY KInvParts, DailyHolders
<1>2. /\ kpc[s] = "read" /\ kpc'[s] = "settle" /\ KOwnTypeOK'
      /\ \A r \in KSessions \ {s} : kpc'[r] = kpc[r]
      /\ UNCHANGED <<voteOnly, restarts>> /\ DeviceTypeOK' /\ refusals' \in Nat
  BY DailyMoves DEF FlagCall
<1>3. PICK f \in {"daily", "abnormal"} : SetFlag(f, a)
  BY DEF FlagCall
<1>4. a \in Accounts
  BY <1>1, <1>2 DEF KInv, KOwnInv, DailySide, KHolding, PoolTypeOK
<1>5. [PoolNext]_poolVars
  BY <1>3, <1>4 DEF PoolNext, Flags
<1>6. /\ UNCHANGED <<idle, itor, dangling, held, ub>>
      /\ accounts_pro'["voted"] = accounts_pro["voted"]
      /\ Skipped' \subseteq Skipped \cup {a}
  BY <1>1, <1>3 DEF SetFlag, PoolTypeOK, Flags, Skipped
<1>7. Elsewhere
  BY <1>2, <1>6, KInvParts DEF Elsewhere
<1>8. DailySide'
  BY <1>2, <1>6 DEF KInv, KOwnInv, DailySide, KHolding
<1>9. ASSUME ~ub, NEW r \in KSessions
      PROVE  /\ kpc'[r] = "found" /\ Daily(r) \notin dangling =>
                   itor[Daily(r)] \notin Skipped \cup {a}
             /\ kpc'[r] \in {"mark", "read"} =>
                   held[Daily(r)] \notin Skipped \cup {a}
  <2>1. CASE r = s
    BY <1>2, <2>1
  <2>2. CASE r # s
    <3>1. Daily(r) \in Holders /\ Daily(r) # h /\ kpc'[r] = kpc[r]
      BY <1>2, <2>2, DailyHolders
    <3>2. /\ kpc[r] = "found" => itor[Daily(r)] # NoAccount
          /\ kpc[r] \in {"mark", "read"} => held[Daily(r)] # NoAccount
      BY DEF KInv, KOwnInv, DailySide, KHolding
    <3>3. kpc[r] = "found" /\ Daily(r) \notin dangling => itor[Daily(r)] # a
      BY <1>1, <1>9, <3>1, <3>2 DEF PoolInv, IteratorsValid, ExclusiveCheckout
    <3>4. kpc[r] \in {"mark", "read"} => held[Daily(r)] # a
      BY <1>1, <1>9, <3>1, <3>2 DEF PoolInv, ExclusiveCheckout
    <3> QED BY <1>9, <3>1, <3>3, <3>4 DEF KInv, KOwnInv, Undone
  <2> QED BY <2>1, <2>2
<1>10. Undone'
  BY <1>6, <1>9 DEF Undone
<1> QED
  BY <1>2, <1>4, <1>5, <1>7, <1>8, <1>10 DEF KOwnInv

-----------------------------------------------------------------------------
\* The accounts a daily session has found or taken.
Has(s) ==
  ({held[Daily(s)]} \cup (IF Daily(s) \in dangling THEN {} ELSE {itor[Daily(s)]}))
    \ {NoAccount}

\* A step that takes no notice of the daily sessions, but for starting some.
Beside ==
  /\ \A s \in KSessions : kpc'[s] = kpc[s] \/ (kpc[s] = "none" /\ kpc'[s] = "start")
  /\ \A s \in KSessions : itor'[Daily(s)] = itor[Daily(s)] /\ held'[Daily(s)] = held[Daily(s)]
  /\ ~ub => \A s \in KSessions : Skipped' \cap Has(s) \subseteq Skipped
  /\ ~ub' => ~ub /\ \A s \in KSessions : Daily(s) \in dangling => Daily(s) \in dangling'

LEMMA BesideInv ==
  ASSUME KInv, Beside, KOwnTypeOK'
  PROVE  KOwnInv'
<1>1. DailySide'
  BY DEF KInv, KOwnInv, DailySide, Beside, KHolding
<1>2. Undone'
  <2> SUFFICES ASSUME ~ub', NEW s \in KSessions
               PROVE /\ kpc'[s] = "found" /\ Daily(s) \notin dangling' =>
                           itor'[Daily(s)] \notin Skipped'
                     /\ kpc'[s] \in {"mark", "read"} => held'[Daily(s)] \notin Skipped'
    BY DEF Undone
  <2>1. /\ ~ub /\ Skipped' \cap Has(s) \subseteq Skipped
        /\ itor'[Daily(s)] = itor[Daily(s)] /\ held'[Daily(s)] = held[Daily(s)]
        /\ Daily(s) \in dangling => Daily(s) \in dangling'
        /\ kpc'[s] = kpc[s] \/ kpc'[s] = "start"
    BY DEF Beside
  <2>2. /\ kpc[s] = "found" => itor[Daily(s)] # NoAccount
        /\ kpc[s] \in {"mark", "read"} => held[Daily(s)] # NoAccount
    BY DEF KInv, KOwnInv, DailySide, KHolding
  <2> QED
    BY <2>1, <2>2 DEF KInv, KOwnInv, Undone, Has
<1> QED
  BY <1>1, <1>2 DEF KOwnInv

\* A vote session's step does to the pool what its own account calls for.
LEMMA SessionBeside ==
  ASSUME VoteInv, NEW d \in Devices, SessionStep(d)
  PROVE  /\ \A s \in KSessions : /\ itor'[Daily(s)] = itor[Daily(s)]
                                 /\ held'[Daily(s)] = held[Daily(s)]
         /\ accounts_pro'["daily"] = accounts_pro["daily"] /\ Skipped \subseteq Skipped'
         /\ ~ub => \A s \in KSessions : Skipped' \cap Has(s) \subseteq Skipped
         /\ ~ub' => ~ub /\ \A s \in KSessions : Daily(s) \in dangling => Daily(s) \in dangling'
<1> DEFINE h == Session(d)
<1>1. PoolTypeOK /\ h \in Holders /\ NotVoted \in {NotVoted, NotDaily}
  BY SessionsAreHolders DEF VoteInv, TypeOK
<1>2. \A s \in KSessions : Daily(s) \in Holders \ {h}
  BY DailyHolders
<1>3. CASE \/ Lookup(h, NotVoted) \/ TakeValid(h) \/ TakeDangling(h)
           \/ SetIdle(h) \/ Forget(h) \/ UNCHANGED poolVars
  BY <1>1, <1>2, <1>3, HolderStep DEF Skipped
<1>4. CASE SetFlag("voted", held[h]) \/ SetFlag("abnormal", held[h])
  <2>1. /\ UNCHANGED <<idle, itor, dangling, held, ub>>
        /\ accounts_pro'["daily"] = accounts_pro["daily"]
        /\ Skipped \subseteq Skipped' /\ Skipped' \subseteq Skipped \cup {held[h]}
    BY <1>1, <1>4 DEF SetFlag, PoolTypeOK, Flags, Skipped
  <2>2. ASSUME ~ub, NEW s \in KSessions PROVE held[h] \notin Has(s)
    BY <1>1, <1>2, <2>2 DEF VoteInv, PoolInv, IteratorsValid, ExclusiveCheckout, Has
  <2> QED BY <2>1, <2>2
<1>5. \/ Lookup(h, NotVoted) \/ TakeValid(h) \/ TakeDangling(h)
      \/ SetIdle(h) \/ Forget(h) \/ UNCHANGED poolVars
      \/ SetFlag("voted", held[h]) \/ SetFlag("abnormal", held[h])
  BY QuietStepInv, FindAccountInv, TakeAccountInv, ReplySuccessInv, ReplyAbnormalInv,
     SetIdleAccountInv, ForgetStepInv
  DEF SessionStep, HandleRead, QuietStep, ForgetStep
<1> QED
  BY <1>3, <1>4, <1>5

LEMMA VoteInvStep ==
  ASSUME VoteInv, [Next]_vars
  PROVE  [PoolNext]_poolVars /\ VoteInv'
<1>1. [PoolNext]_poolVars /\ OwnInv'
  BY StepUsesPool
<1>2. PoolInv'
  BY <1>1, PoolStepInv DEF VoteInv
<1> QED
  BY <1>1, <1>2 DEF VoteInv, OwnInv, TypeOK, OwnTypeOK, PoolInv

\* The vote task's own steps, the phones and a restart are steps of VoteTask.
LEMMA VoteSideStep ==
  ASSUME KInv, \/ KSpawnSessions \/ VoteStep
               \/ \E d \in Devices : KPhoneConnects(d) \/ KPhoneLeaves(d)
  PROVE  [PoolNext]_poolVars /\ KInv'
<1>1. VoteInv /\ KOwnTypeOK
  BY DEF KInv, KOwnInv
<1>2. [PoolNext]_poolVars /\ VoteInv'
  <2>1. Next
    BY DEF KSpawnSessions, VoteStep, KPhoneConnects, KPhoneLeaves, Next, Task
  <2> QED
    BY <1>1, <2>1, VoteInvStep
<1>3. KOwnTypeOK' /\ kpc' = kpc
  <2>1. VoteAsked \subseteq Devices /\ IdlePhones \subseteq Devices
    BY KInvParts DEF VoteAsked, IdlePhones, DeviceTypeOK
  <2>2. UNCHANGED <<kpc, ksock, ioVars, choreVars>>
    BY DEF KSpawnSessions, VoteStep, KPhoneConnects, KPhoneLeaves
  <2>3. asked' \subseteq Devices /\ crossed' \subseteq Devices
    BY <1>1, <2>1 DEF KSpawnSessions, VoteStep, KPhoneConnects, KPhoneLeaves, Cross, KOwnTypeOK
  <2> QED
    BY <1>1, <2>2, <2>3 DEF KOwnTypeOK, ioVars, resetVars, visitVars, choreVars
<1>4. Beside
  <2>1. CASE UNCHANGED poolVars
    BY <1>3, <2>1 DEF Beside, poolVars, Skipped
  <2>2. ASSUME NEW d \in Devices, SessionStep(d) PROVE Beside
    BY <1>1, <1>3, <2>2, SessionBeside DEF Beside
  <2>3. UNCHANGED poolVars \/ \E d \in Devices : SessionStep(d)
    BY <1>1, TaskStep, PhoneStepInv
    DEF KSpawnSessions, VoteStep, KPhoneConnects, KPhoneLeaves, Task
  <2> QED BY <2>1, <2>2, <2>3
<1> QED
  BY <1>2, <1>3, <1>4, BesideInv DEF KInv

\* keep_wx_account_task on the IO thread.
LEMMA IoStep ==
  ASSUME KInv, DoTask \/ ResetTask \/ (\E a \in Accounts : ResetOne(a)) \/ KRestart
  PROVE  [PoolNext]_poolVars /\ KInv'
<1> USE KInvParts
<1>1. VoteInv /\ KOwnTypeOK
  BY DEF KInv, KOwnInv
<1>2. CASE DoTask
  <2>1. ASSUME NEW s \in KSessions
        PROVE  kpc'[s] = kpc[s] \/ (kpc[s] = "none" /\ kpc'[s] = "start")
    <3>1. s = <<Phone(s), s[2]>> /\ Phone(s) \in Devices
      BY DailyHolders DEF KSessions, Phone
    <3>2. CASE Phone(s) \in IdlePhones /\ s[2] = CHOOSE k \in FreeSlots(Phone(s)) : TRUE
      <4>1. s[2] \in FreeSlots(Phone(s))
        BY <1>2, <3>1, <3>2 DEF DoTask
      <4> QED BY <1>2, <3>1, <3>2, <4>1 DEF DoTask, FreeSlots
    <3> QED BY <1>2, <3>2 DEF DoTask
  <2>2. kpc' \in [KSessions -> KLocations]
    BY <1>1, <1>2 DEF DoTask, KOwnTypeOK, KLocations
  <2>3. KOwnTypeOK'
    BY <1>1, <1>2, <2>2
    DEF DoTask, Cross, IdlePhones, KOwnTypeOK, ioVars, resetVars, visitVars, choreVars
  <2>4. UNCHANGED <<poolVars, deviceVars, voteOnly, counters>>
    BY <1>2 DEF DoTask
  <2>5. Beside /\ Elsewhere
    BY <1>1, <2>1, <2>4
    DEF Beside, Elsewhere, poolVars, deviceVars, DeviceTypeOK, counters, Skipped
  <2> QED
    BY <1>1, <2>3, <2>4, <2>5, BesideInv, ElsewhereKeepsVotes DEF KInv
<1>3. CASE ResetTask
  <2>1. UNCHANGED vars /\ kpc' = kpc /\ KOwnTypeOK'
    BY <1>1, <1>3 DEF ResetTask, KOwnTypeOK, visitVars, choreVars
  <2>2. Beside /\ Elsewhere /\ UNCHANGED poolVars
    BY <1>1, <2>1
    DEF Beside, Elsewhere, vars, poolVars, deviceVars, DeviceTypeOK, envVars, voteOnly, Skipped
  <2> QED
    BY <1>1, <2>1, <2>2, BesideInv, ElsewhereKeepsVotes DEF KInv
<1>4. ASSUME NEW a \in Accounts, ResetOne(a)
      PROVE  [PoolNext]_poolVars /\ KInv'
  <2>1. [PoolNext]_poolVars
    BY <1>4 DEF ResetOne, PoolNext
  <2>2. KOwnTypeOK' /\ kpc' = kpc
    BY <1>1, <1>4 DEF ResetOne, KOwnTypeOK, visitVars
  <2>3. /\ UNCHANGED <<itor, held, dangling, ub, deviceVars, voteOnly, counters>>
        /\ accounts_pro'["voted"] = accounts_pro["voted"]
        /\ Skipped' \subseteq Skipped
    BY <1>4 DEF ResetOne, ResetDaily, PoolTypeOK, Flags, Skipped
  <2>4. Beside /\ Elsewhere
    BY <2>2, <2>3 DEF Beside, Elsewhere, deviceVars, DeviceTypeOK, counters
  <2> QED
    BY <1>1, <2>1, <2>2, <2>4, BesideInv, ElsewhereKeepsVotes DEF KInv
<1>5. CASE KRestart
  <2>1. [PoolNext]_poolVars /\ VoteInv'
    BY <1>1, <1>5, VoteInvStep DEF KRestart, Next
  <2>2. KOwnTypeOK'
    BY <1>1, <1>5 DEF KRestart, KOwnTypeOK, KLocations, choreVars
  <2>3. DailySide' /\ Undone'
    BY <1>5, DailyHolders DEF KRestart, Restart, Load, DailySide, Undone, KHolding
  <2> QED BY <2>1, <2>2, <2>3 DEF KInv, KOwnInv
<1> QED
  BY <1>2, <1>3, <1>4, <1>5

\* A visit of the IO thread to a session: the statuses it sets.
LEMMA VisitMoves ==
  ASSUME KInv, NEW d \in Devices, Visit(d)
  PROVE  /\ UNCHANGED <<poolVars, connected, voteOnly, counters, kpc, ksock, resetVars, choreVars>>
         /\ KOwnTypeOK' /\ DeviceTypeOK'
         /\ \A e \in Devices \ {d} : status'[e] = status[e]
<1>1. KOwnTypeOK /\ DeviceTypeOK
  BY KInvParts DEF KInv, KOwnInv
<1> USE <1>1 DEF KOwnTypeOK, DeviceTypeOK, Statuses, SetStatus, resetVars, choreVars, Ask
<1>2. CASE OnRestartLuaEnd(d)
  <2>1. Bound(d) \subseteq Names
    BY DEF Bound, Names, KLive
  <2> QED BY <1>2, <2>1 DEF OnRestartLuaEnd, Cross
<1>3. CASE VisitConnect(d) BY <1>3 DEF VisitConnect
<1>4. CASE VisitWork(d) BY <1>4 DEF VisitWork, ioVars, visitVars
<1>5. CASE VisitEnds(d) BY <1>5 DEF VisitEnds
<1> QED
  BY <1>2, <1>3, <1>4, <1>5 DEF Visit

LEMMA VisitStep ==
  ASSUME KInv, NEW d \in Devices, Visit(d)
  PROVE  UNCHANGED poolVars /\ KInv'
<1>1. /\ UNCHANGED <<poolVars, voteOnly, counters, kpc>>
      /\ KOwnTypeOK' /\ DeviceTypeOK'
  BY VisitMoves
<1>2. Beside /\ Elsewhere
  BY <1>1, KInvParts DEF Beside, Elsewhere, poolVars, counters, Skipped
<1> QED
  BY <1>1, <1>2, BesideInv, ElsewhereKeepsVotes DEF KInv

LEMMA KStep ==
  ASSUME KInv, [KNext]_kvars
  PROVE  [PoolNext]_poolVars /\ KInv'
<1>1. ASSUME NEW s \in KSessions, KSessionStep(s) PROVE [PoolNext]_poolVars /\ KInv'
  BY <1>1, DailyMoves, DailyPlain, DailyFlags, ElsewhereKeepsVotes DEF DailyCall, KInv
<1>2. CASE UNCHANGED kvars
  <2>1. Beside /\ KOwnTypeOK' /\ Elsewhere
    BY <1>2, KInvParts
    DEF kvars, vars, keepVars, ioVars, resetVars, visitVars, choreVars, poolVars, deviceVars,
        envVars, voteOnly, KInv, KOwnInv, KOwnTypeOK, Beside, Elsewhere, DeviceTypeOK, Skipped
  <2>2. UNCHANGED poolVars
    BY <1>2 DEF kvars, vars
  <2> QED
    BY <2>1, <2>2, BesideInv, ElsewhereKeepsVotes DEF KInv
<1> QED
  BY <1>1, <1>2, VoteSideStep, IoStep, VisitStep DEF KNext

\* A daily session has what its place in the code says, beside any vote task:
\* the two kinds of session never hold one account, as long as the IO thread
\* has not entered one of them.
THEOREM KeepInvariant == KSpec => []KeepInv
<1>1. KSpec => []KInv
  BY KInitInv, KStep, PTL DEF KSpec
<1>2. KInv => KeepInv
  BY KInvParts
<1> QED
  BY <1>1, <1>2, PTL

\* Together they use the pool as AccountPool allows, until the IO thread enters
\* one of them.
THEOREM KeepImplementsPool == KSpec => KImplementsPool
<1>1. KInit => PoolInit
  BY DEF KInit, Init
<1>2. KSpec => []KInv
  BY KInitInv, KStep, PTL DEF KSpec
<1>3. KInv /\ [KNext]_kvars => [entered \/ PoolNext]_poolVars
  BY KStep
<1> QED
  BY <1>1, <1>2, <1>3, PTL DEF KSpec, KImplementsPool

-----------------------------------------------------------------------------
\* An account whose daily task was reported or whose answer was lost is marked,
\* or out of everybody's reach; or the answer was read as another phone's.
Kept(a) == chores[a] <= 1 /\ (chores[a] = 1 => a \in Skipped \/ Spent(a))

ChoreInv == ~ub /\ restarts = 0 => \A a \in Accounts : a \in misread \/ Kept(a)

\* A step that does no daily task, takes no mark off and brings no spent
\* account back.
NoChore ==
  /\ UNCHANGED <<chores, misread, restarts>>
  /\ Skipped \subseteq Skipped'
  /\ ~ub' => /\ ~ub
             /\ IdleAccounts' \subseteq IdleAccounts \cup {held[h] : h \in Holders}
             /\ \A h \in Holders : held'[h] \in IdleAccounts \cup {held[h], NoAccount}

LEMMA NoChoreInv ==
  ASSUME ChoreInv, NoChore
  PROVE  ChoreInv'
<1> SUFFICES ASSUME ~ub', restarts' = 0, NEW a \in Accounts, a \notin misread'
             PROVE  Kept(a)'
  BY DEF ChoreInv
<1>1. Kept(a)
  BY DEF ChoreInv, NoChore
<1>2. Spent(a) => Spent(a)'
  BY PoolAssumption DEF NoChore, Spent
<1> QED
  BY <1>1, <1>2 DEF NoChore, Kept

\* A step that leaves the list and what is held alone does no harm to it.
LEMMA OnlyFlags ==
  ASSUME UNCHANGED <<idle, held, ub, chores, misread, restarts>>,
         Skipped \subseteq Skipped'
  PROVE  NoChore
BY DEF NoChore, IdleAccounts

\* The answer, or the end without one, is about an account that is unmarked and
\* held, hence done for the first time; then it is marked, its session forgets
\* it, or the answer was misread.
LEMMA ChoringInv ==
  ASSUME KInv, ChoreInv, NEW s \in KSessions, KHandleRead(s)
  PROVE  ChoreInv'
<1> DEFINE c == held[Daily(s)]
           Once == chores' = [chores EXCEPT ![c] = IF chores[c] < 2 THEN chores[c] + 1 ELSE 2]
<1>1. PoolInv /\ PoolTypeOK /\ Daily(s) \in Holders
  BY KInvParts, DailyHolders
<1>2. /\ kpc[s] = "read" /\ restarts' = restarts /\ ub' = ub
      /\ chores' = chores \/ Once
      /\ misread \subseteq misread'
      /\ \/ SetFlag("daily", c) \/ SetFlag("abnormal", c) \/ Forget(Daily(s))
         \/ UNCHANGED poolVars /\ (chores' = chores \/ c \in misread')
  <2>1. CASE KReplySuccess(s)
    BY <2>1 DEF KReplySuccess, KGoto, Chore, SetFlag, counters
  <2>2. CASE KReplyAbnormal(s)
    BY <2>2 DEF KReplyAbnormal, KGoto, Chore, SetFlag, counters
  <2>3. CASE KReplyRefused(s)
    BY <2>3 DEF KReplyRefused, KGoto, Chore, poolVars, choreVars
  <2>4. CASE KReadFailed(s)
    BY <2>4 DEF KReadFailed, KGoto, Chore, Forget, counters
  <2> QED BY <2>1, <2>2, <2>3, <2>4 DEF KHandleRead
<1>3. c \in Accounts
  BY <1>1, <1>2 DEF KInv, KOwnInv, DailySide, KHolding, PoolTypeOK
<1> SUFFICES ASSUME ~ub, restarts = 0, NEW a \in Accounts, a \notin misread'
             PROVE  Kept(a)'
  BY <1>2 DEF ChoreInv
<1>4. c \notin Skipped /\ ~Spent(c)
  BY <1>1, <1>2 DEF KInv, KOwnInv, Undone, Spent
<1>5. chores \in [Accounts -> 0..2] /\ Kept(a)
  BY <1>2 DEF ChoreInv, KInv, KOwnInv, KOwnTypeOK
<1>6. /\ a # c => chores'[a] = chores[a]
      /\ chores'[a] <= 1
      /\ chores' = chores => chores'[a] = chores[a]
  <2>1. a = c => chores[a] = 0
    BY <1>4, <1>5 DEF Kept
  <2>2. chores[a] <= 1
    BY <1>5 DEF Kept
  <2> QED BY <1>2, <1>3, <1>5, <2>1, <2>2
<1>7. ASSUME Spent(a) => Spent(a)', Skipped \subseteq Skipped',
             a = c => a \in Skipped' \/ Spent(a)' \/ chores' = chores
      PROVE  Kept(a)'
  BY <1>4, <1>5, <1>6, <1>7 DEF Kept
<1>8. CASE SetFlag("daily", c) \/ SetFlag("abnormal", c)
  <2>1. Skipped' = Skipped \cup {c}
    BY <1>1, <1>8 DEF SetFlag, PoolTypeOK, Flags, Skipped
  <2>2. Spent(a) => Spent(a)'
    BY <1>8 DEF SetFlag, Spent, IdleAccounts
  <2> QED BY <1>7, <2>1, <2>2
<1>9. CASE Forget(Daily(s))
  <2>1. /\ held' = [held EXCEPT ![Daily(s)] = NoAccount]
        /\ IdleAccounts' = IdleAccounts /\ Skipped' = Skipped
    BY <1>9 DEF Forget, IdleAccounts, Skipped
  <2>2. Spent(a) => Spent(a)'
    BY <1>1, <2>1, PoolAssumption DEF Spent, PoolTypeOK
  <2>3. a = c => Spent(a)'
    BY <1>1, <1>3, <2>1, PoolAssumption DEF Spent, PoolInv, PoolTypeOK, ExclusiveCheckout
  <2> QED BY <1>7, <2>1, <2>2, <2>3
<1>10. CASE UNCHANGED poolVars /\ (chores' = chores \/ c \in misread')
  <2>1. Skipped' = Skipped /\ (Spent(a) => Spent(a)')
    BY <1>10 DEF poolVars, Skipped, Spent, IdleAccounts
  <2> QED BY <1>7, <1>10, <2>1
<1> QED
  BY <1>2, <1>8, <1>9, <1>10

LEMMA DailyChore ==
  ASSUME KInv, ChoreInv, NEW s \in KSessions, KSessionStep(s)
  PROVE  ChoreInv'
<1>1. CASE KHandleRead(s)
  BY <1>1, ChoringInv
<1>2. CASE ~KHandleRead(s)
  <2> DEFINE h == Daily(s)
  <2>1. UNCHANGED <<chores, misread, restarts>>
    BY <1>2
    DEF KSessionStep, KFindConnection, KConnect, KRestartTimeout, KFinish,
        KFindAccount, KNoAccountLeft, KTakeAccount, KSendCommands,
        KSetIdleAccount, KOnReadTimeout, KEnd, vars, envVars, counters, choreVars
  <2>2. PoolInv /\ PoolTypeOK /\ h \in Holders
    BY KInvParts, DailyHolders
  <2>3. CASE PlainCall(s)
    <3>1. \/ Lookup(h, NotDaily) \/ TakeValid(h) \/ TakeDangling(h) \/ SetIdle(h)
          \/ Forget(h) \/ UNCHANGED poolVars
      BY <2>3 DEF PlainCall
    <3>2. accounts_pro' = accounts_pro /\ (~ub' => ~ub)
      BY <2>2, <3>1, HolderStep
    <3> QED
      BY <2>1, <2>2, <3>1, <3>2, PoolStepsKeepSpent, NoChoreInv DEF NoChore, Skipped
  <2>4. CASE FlagCall(s)
    <3>1. PICK f \in {"daily", "abnormal"} : SetFlag(f, held[h])
      BY <2>4 DEF FlagCall
    <3>2. /\ UNCHANGED <<idle, held, ub>>
          /\ Skipped \subseteq Skipped'
      BY <2>2, <3>1 DEF SetFlag, PoolTypeOK, Flags, Skipped
    <3> QED BY <2>1, <3>2, OnlyFlags, NoChoreInv
  <2> QED BY <2>3, <2>4, DailyMoves DEF DailyCall
<1> QED
  BY <1>1, <1>2

\* A vote session has its own flags and leaves the spent accounts where they are.
LEMMA VoteChore ==
  ASSUME KInv, ChoreInv, NEW d \in Devices, SessionStep(d), UNCHANGED choreVars
  PROVE  ChoreInv'
<1> DEFINE h == Session(d)
<1>1. VoteInv /\ PoolInv /\ PoolTypeOK /\ h \in Holders
      /\ UNCHANGED <<chores, misread>>
  BY KInvParts, SessionsAreHolders DEF KInv, choreVars
<1>2. restarts' = restarts
  BY DEF SessionStep, HandleRead, FindConnection, Connect, RestartTimeout, Finish,
     FindAccount, NoAccountLeft, TakeAccount, NeedWaitVote, NeedVote, SendCommands,
     ReplySuccess, ReplyAbnormal, ReplyRefused, ReplyGarbled, ReadFailed,
     OnReadTimeout, AddSucCount, SetIdleAccount, VoteEnd, envVars
<1>3. Skipped \subseteq Skipped' /\ (~ub' => ~ub)
  BY <1>1, SessionBeside
<1>4. CASE \/ Lookup(h, NotVoted) \/ TakeValid(h) \/ TakeDangling(h)
           \/ SetIdle(h) \/ Forget(h) \/ UNCHANGED poolVars
  BY <1>1, <1>2, <1>3, <1>4, PoolStepsKeepSpent, NoChoreInv DEF NoChore
<1>5. CASE SetFlag("voted", held[h]) \/ SetFlag("abnormal", held[h])
  BY <1>1, <1>2, <1>3, <1>5, OnlyFlags, NoChoreInv DEF SetFlag
<1> QED
  BY <1>1, <1>4, <1>5, QuietStepInv, FindAccountInv, TakeAccountInv, ReplySuccessInv,
     ReplyAbnormalInv, SetIdleAccountInv, ForgetStepInv
  DEF SessionStep, HandleRead, QuietStep, ForgetStep

\* A reset takes the mark and the count of one account back together.
LEMMA ResetChore ==
  ASSUME KInv, ChoreInv, NEW a \in Accounts, ResetOne(a)
  PROVE  ChoreInv'
<1>1. /\ chores \in [Accounts -> 0..2] /\ chores' = [chores EXCEPT ![a] = 0]
      /\ misread' = misread \ {a}
      /\ UNCHANGED <<idle, held, ub, restarts>>
  BY DEF ResetOne, ResetDaily, KInv, KOwnInv, KOwnTypeOK, counters
<1>2. Skipped \ {a} \subseteq Skipped'
  BY KInvParts DEF ResetOne, ResetDaily, PoolTypeOK, Flags, Skipped
<1>3. \A b \in Accounts : Spent(b)' = Spent(b)
  BY <1>1 DEF Spent, IdleAccounts
<1>4. ASSUME NEW b \in Accounts, b = a \/ Kept(b) PROVE Kept(b)'
  BY <1>1, <1>2, <1>3, <1>4 DEF Kept
<1> QED
  BY <1>1, <1>4 DEF ChoreInv

LEMMA ChoreStep ==
  ASSUME KInv, ChoreInv, [KNext]_kvars
  PROVE  ChoreInv'
<1>1. ASSUME UNCHANGED poolVars, UNCHANGED <<choreVars, restarts>> PROVE ChoreInv'
  BY <1>1, OnlyFlags, NoChoreInv DEF poolVars, choreVars, Skipped
<1>2. CASE DoTask \/ ResetTask \/ UNCHANGED kvars
  BY <1>1, <1>2 DEF DoTask, ResetTask, kvars, keepVars, vars, envVars, counters
<1>3. CASE KSpawnSessions \/ \E d \in Devices : KPhoneConnects(d) \/ KPhoneLeaves(d)
  BY <1>1, <1>3
  DEF KSpawnSessions, SpawnSessions, KPhoneConnects, KPhoneLeaves, PhoneConnects,
      PhoneLeaves, envVars
<1>4. CASE VoteStep
  <2>1. CASE (\E t \in Targets : StartTask(t)) \/ JoinSessions
    BY <1>1, <1>4, <2>1 DEF VoteStep, StartTask, JoinSessions, envVars
  <2>2. ASSUME NEW d \in Devices, SessionStep(d) PROVE ChoreInv'
    BY <1>4, <2>2, VoteChore DEF VoteStep
  <2> QED BY <1>4, <2>1, <2>2 DEF VoteStep
<1>5. CASE KRestart
  BY <1>5, KInvParts DEF KRestart, Restart, ChoreInv
<1>6. ASSUME NEW d \in Devices, Visit(d) PROVE ChoreInv'
  BY <1>1, <1>6, VisitMoves DEF counters
<1> QED
  BY <1>2, <1>3, <1>4, <1>5, <1>6, DailyChore, ResetChore DEF KNext

\* Between two resets an account's daily task is done once, however the daily
\* sessions, the vote sessions and the resets interleave: done again it is only
\* after its success was read as another phone's failure, or once the IO thread
\* has entered a session.
THEOREM ChoresAreSingle == KSpec => []ChoreOnce
<1>1. KInit => ChoreInv
  BY DEF KInit, Init, PoolInit, ChoreInv, Kept, Skipped
<1>2. KSpec => []KInv
  BY KInitInv, KStep, PTL DEF KSpec
<1>3. ChoreInv => ChoreOnce
  BY DEF ChoreInv, Kept, ChoreOnce
<1> QED
  BY <1>1, <1>2, <1>3, ChoreStep, PTL DEF KSpec

-----------------------------------------------------------------------------
\* What a phone's status tells of its sessions.  A phone nobody has crossed has
\* one session at most, which has marked it busy or is about to; and no session
\* and no visit, which crosses the phone, ends without leaving it idle.
Visiting(d) == iopc # "out" /\ visited[2] = d

PhoneSide(d) ==
  /\ Visiting(d) => d \in crossed
  /\ d \in connected /\ ~Live(d) /\ KLive(d) = {} /\ ~Visiting(d) =>
       status[d] = "ONLINE_IDLE"
  /\ d \notin crossed =>
       /\ \A r, s \in KLive(d) : r = s
       /\ Live(d) => KLive(d) = {}
       /\ Live(d) \/ KLive(d) # {} => InGap(d) \/ status[d] # "ONLINE_IDLE"

PhonesInv == \A d \in Devices : PhoneSide(d)

LEMMA CountSessions ==
  ASSUME NEW d \in Devices
  PROVE  /\ SessionsOn(d) = 0 => ~Live(d) /\ KLive(d) = {}
         /\ ~Live(d) /\ KLive(d) = {} => SessionsOn(d) = 0
         /\ SessionsOn(d) > 1 => ~(/\ \A r, s \in KLive(d) : r = s
                                   /\ Live(d) => KLive(d) = {})
<1>1. IsFiniteSet(KLive(d))
  <2>1. IsFiniteSet(KSessions)
    BY FS_Product, KeepAssumption, VoteAssumption DEF KSessions
  <2> QED BY <2>1, FS_Subset DEF KLive
<1>2. Cardinality(KLive(d)) \in Nat
  BY <1>1, FS_CardinalityType
<1>3. Cardinality(KLive(d)) = 0 <=> KLive(d) = {}
  BY <1>1, FS_EmptySet
<1>4. ASSUME \A r, s \in KLive(d) : r = s PROVE Cardinality(KLive(d)) <= 1
  <2>1. CASE KLive(d) = {}
    BY <1>3, <2>1
  <2>2. ASSUME NEW r \in KLive(d) PROVE Cardinality(KLive(d)) <= 1
    <3>1. KLive(d) = {r}
      BY <1>4, <2>2
    <3> QED BY <3>1, FS_Singleton
  <2> QED BY <2>1, <2>2
<1> QED
  BY <1>2, <1>3, <1>4 DEF SessionsOn

\* How a session of either kind goes on: it leaves a connected phone idle, or
\* it marks the phone busy, or it touches no status and stays on its side of
\* the gap.
Ends(d, last) == last /\ (d \notin connected \/ status'[d] = "ONLINE_IDLE")
Marks(d, last) == ~last /\ status'[d] # "ONLINE_IDLE"
Keeps(d, last, gap, after) == ~last /\ status'[d] = status[d] /\ (gap <=> after)

LEMMA DailyWay ==
  ASSUME KInv, NEW s \in KSessions, KSessionStep(s)
  PROVE  /\ kpc[s] # "none"
         /\ \/ Ends(Phone(s), kpc'[s] = "none") \/ Marks(Phone(s), kpc'[s] = "none")
            \/ Keeps(Phone(s), kpc'[s] = "none",
                     kpc[s] \in {"start", "begin"}, kpc'[s] \in {"start", "begin"})
<1> USE KInvParts, DailyHolders
    DEF KInv, KOwnInv, KOwnTypeOK, DeviceTypeOK, KGoto, SetStatus,
        Ends, Marks, Keeps, vars, deviceVars
<1>1. CASE KFindConnection(s) BY <1>1 DEF KFindConnection
<1>2. CASE KConnect(s) BY <1>2 DEF KConnect
<1>3. CASE KRestartTimeout(s) BY <1>3 DEF KRestartTimeout
<1>4. CASE KFinish(s) BY <1>4 DEF KFinish
<1>5. CASE KFindAccount(s) BY <1>5 DEF KFindAccount
<1>6. CASE KNoAccountLeft(s) BY <1>6 DEF KNoAccountLeft
<1>7. CASE KTakeAccount(s) BY <1>7 DEF KTakeAccount
<1>8. CASE KSendCommands(s) BY <1>8 DEF KSendCommands
<1>9. CASE KReplySuccess(s) BY <1>9 DEF KReplySuccess
<1>10. CASE KReplyAbnormal(s) BY <1>10 DEF KReplyAbnormal
<1>11. CASE KReplyRefused(s) BY <1>11 DEF KReplyRefused
<1>12. CASE KSetIdleAccount(s) BY <1>12 DEF KSetIdleAccount
<1>13. CASE KReadFailed(s) BY <1>13 DEF KReadFailed
<1>14. CASE KOnReadTimeout(s) BY <1>14 DEF KOnReadTimeout
<1>15. CASE KEnd(s) BY <1>15 DEF KEnd
<1> QED
  BY <1>1, <1>2, <1>3, <1>4, <1>5, <1>6, <1>7, <1>8, <1>9, <1>10, <1>11, <1>12,
     <1>13, <1>14, <1>15 DEF KSessionStep, KHandleRead

LEMMA VoteWay ==
  ASSUME VoteInv, NEW d \in Devices, SessionStep(d)
  PROVE  /\ Live(d) /\ connected' = connected
         /\ \/ Ends(d, ~Live(d)') \/ Marks(d, ~Live(d)')
            \/ Keeps(d, ~Live(d)', pc[d] \in {"start", "begin"}, pc'[d] \in {"start", "begin"})
<1> USE TypeOKParts
    DEF VoteInv, OwnTypeOK, DeviceTypeOK, Goto, SetStatus,
        Live, Ends, Marks, Keeps, deviceVars
<1>1. CASE FindConnection(d) BY <1>1 DEF FindConnection
<1>2. CASE Connect(d) BY <1>2 DEF Connect
<1>3. CASE RestartTimeout(d) BY <1>3 DEF RestartTimeout
<1>4. CASE Finish(d) BY <1>4 DEF Finish
<1>5. CASE FindAccount(d) BY <1>5 DEF FindAccount
<1>6. CASE NoAccountLeft(d) BY <1>6 DEF NoAccountLeft
<1>7. CASE TakeAccount(d) BY <1>7 DEF TakeAccount
<1>8. CASE NeedWaitVote(d) BY <1>8 DEF NeedWaitVote
<1>9. CASE NeedVote(d) BY <1>9 DEF NeedVote
<1>10. CASE SendCommands(d) BY <1>10 DEF SendCommands
<1>11. CASE ReplySuccess(d) BY <1>11 DEF ReplySuccess
<1>12. CASE ReplyAbnormal(d) BY <1>12 DEF ReplyAbnormal
<1>13. CASE ReplyRefused(d) BY <1>13 DEF ReplyRefused
<1>14. CASE ReplyGarbled(d) BY <1>14 DEF ReplyGarbled
<1>15. CASE ReadFailed(d) BY <1>15 DEF ReadFailed
<1>16. CASE OnReadTimeout(d) BY <1>16 DEF OnReadTimeout
<1>17. CASE AddSucCount(d) BY <1>17 DEF AddSucCount
<1>18. CASE SetIdleAccount(d) BY <1>18 DEF SetIdleAccount
<1>19. CASE VoteEnd(d) BY <1>19 DEF VoteEnd
<1> QED
  BY <1>1, <1>2, <1>3, <1>4, <1>5, <1>6, <1>7, <1>8, <1>9, <1>10, <1>11, <1>12,
     <1>13, <1>14, <1>15, <1>16, <1>17, <1>18, <1>19 DEF SessionStep, HandleRead

LEMMA DailyPhones ==
  ASSUME KInv, PhonesInv, NEW s \in KSessions, KSessionStep(s)
  PROVE  PhonesInv'
<1> SUFFICES ASSUME NEW d \in Devices PROVE PhoneSide(d)'
  BY DEF PhonesInv
<1>1. /\ \A r \in KSessions \ {s} : kpc'[r] = kpc[r]
      /\ UNCHANGED <<connected, crossed, pc, iopc, visited>>
      /\ \A e \in Devices \ {Phone(s)} : status'[e] = status[e]
  BY DailyMoves DEF voteOnly, sessionVars, ioVars, visitVars
<1>2. PhoneSide(d) /\ Phone(s) \in Devices
  BY DailyHolders DEF PhonesInv
<1>3. CASE d # Phone(s)
  BY <1>1, <1>2, <1>3 DEF PhoneSide, Visiting, KLive, Live, InGap
<1>4. CASE d = Phone(s)
  <2>1. s \in KLive(d) /\ KLive(d)' = {r \in KLive(d) : r # s \/ kpc'[s] # "none"}
    BY <1>1, <1>4, DailyWay DEF KLive
  <2>2. CASE Ends(d, kpc'[s] = "none")
    BY <1>1, <1>2, <2>1, <2>2 DEF PhoneSide, Visiting, Live, Ends
  <2>3. CASE Marks(d, kpc'[s] = "none")
    BY <1>1, <1>2, <2>1, <2>3 DEF PhoneSide, Visiting, Live, Marks
  <2>4. CASE Keeps(d, kpc'[s] = "none",
                   kpc[s] \in {"start", "begin"}, kpc'[s] \in {"start", "begin"})
    <3>1. KLive(d)' = KLive(d)
      BY <2>1, <2>4 DEF Keeps
    <3>2. \A r \in KLive(d) : kpc[r] \in {"start", "begin"} <=> kpc'[r] \in {"start", "begin"}
      BY <1>1, <2>4 DEF Keeps, KLive
    <3>3. InGap(d)' <=> InGap(d)
      BY <1>1, <3>1, <3>2 DEF InGap
    <3> QED BY <1>1, <1>2, <2>1, <2>4, <3>1, <3>3 DEF PhoneSide, Visiting, Live, Keeps
  <2> QED BY <1>4, <2>2, <2>3, <2>4, DailyWay
<1> QED
  BY <1>3, <1>4

LEMMA VotePhones ==
  ASSUME KInv, PhonesInv, NEW e \in Devices, SessionStep(e), UNCHANGED <<kpc, ioVars, crossed>>
  PROVE  PhonesInv'
<1> SUFFICES ASSUME NEW d \in Devices PROVE PhoneSide(d)'
  BY DEF PhonesInv
<1>1. /\ UNCHANGED <<kpc, crossed, connected, iopc, visited>> /\ Live(e)
      /\ \A f \in Devices \ {e} : pc'[f] = pc[f] /\ status'[f] = status[f]
  BY SessionFrame, VoteWay DEF KInv, ioVars, visitVars
<1>2. PhoneSide(d) /\ KLive(d)' = KLive(d)
  BY <1>1 DEF PhonesInv, KLive
<1>3. CASE d # e
  BY <1>1, <1>2, <1>3 DEF PhoneSide, Visiting, Live, InGap
<1>4. CASE d = e
  <2>1. \/ Ends(d, ~Live(d)') \/ Marks(d, ~Live(d)')
        \/ Keeps(d, ~Live(d)', pc[d] \in {"start", "begin"}, pc'[d] \in {"start", "begin"})
    BY <1>4, VoteWay DEF KInv
  <2>2. CASE Ends(d, ~Live(d)') \/ Marks(d, ~Live(d)')
    BY <1>1, <1>2, <1>4, <2>2 DEF PhoneSide, Visiting, Ends, Marks
  <2>3. CASE Keeps(d, ~Live(d)', pc[d] \in {"start", "begin"}, pc'[d] \in {"start", "begin"})
    <3>1. InGap(d)' <=> InGap(d)
      BY <1>1, <1>2, <2>3 DEF Keeps, InGap
    <3> QED BY <1>1, <1>2, <1>4, <2>3, <3>1 DEF PhoneSide, Visiting, Keeps
  <2> QED BY <2>1, <2>2, <2>3
<1> QED
  BY <1>3, <1>4

\* A phone that is idle and in no gap is given one session: do_task and the
\* vote task's loop both go by its status.
LEMMA StartPhones ==
  ASSUME KInv, PhonesInv, DoTask \/ KSpawnSessions
  PROVE  PhonesInv'
<1> SUFFICES ASSUME NEW d \in Devices PROVE PhoneSide(d)'
  BY DEF PhonesInv
<1>1. PhoneSide(d)
  BY DEF PhonesInv
<1>2. CASE DoTask
  <2>1. /\ UNCHANGED <<status, connected, pc, iopc, visited>>
        /\ crossed' = crossed \cup {e \in IdlePhones : InGap(e)}
        /\ \A s \in KSessions : Phone(s) \notin IdlePhones => kpc'[s] = kpc[s]
    BY <1>2 DEF DoTask, Cross, deviceVars, voteOnly, sessionVars, ioVars, visitVars
  <2>2. CASE d \notin IdlePhones
    <3>1. KLive(d)' = KLive(d) /\ (InGap(d)' <=> InGap(d))
      BY <2>1, <2>2 DEF KLive, InGap
    <3> QED BY <1>1, <2>1, <2>2, <3>1 DEF PhoneSide, Visiting, Live
  <2>3. CASE d \in IdlePhones
    <3>1. PICK k \in FreeSlots(d) : k = CHOOSE j \in FreeSlots(d) : TRUE
      BY <1>2, <2>3 DEF DoTask
    <3>2. /\ <<d, k>> \in KSessions /\ kpc'[<<d, k>>] = "start"
          /\ \A s \in KSessions \ {<<d, k>>} : Phone(s) = d => kpc'[s] = kpc[s]
      <4>1. \A s \in KSessions : Phone(s) = d /\ s[2] = k => s = <<d, k>>
        BY DEF KSessions, Phone
      <4>2. /\ <<d, k>> \in KSessions /\ Phone(<<d, k>>) = d /\ <<d, k>>[2] = k
        BY DEF FreeSlots, KSessions, Phone
      <4> QED BY <1>2, <2>3, <3>1, <4>1, <4>2 DEF DoTask
    <3>3. <<d, k>> \in KLive(d)' /\ KLive(d)' = KLive(d) \cup {<<d, k>>} /\ InGap(d)'
      BY <3>2 DEF KLive, InGap, Phone
    <3>4. d \notin crossed' => ~InGap(d) /\ ~Live(d) /\ KLive(d) = {}
      BY <1>1, <2>1, <2>3 DEF PhoneSide, Visiting, IdlePhones
    <3> QED BY <1>1, <2>1, <3>3, <3>4 DEF PhoneSide, Visiting, Live
  <2> QED BY <2>2, <2>3
<1>3. CASE KSpawnSessions
  <2>1. /\ UNCHANGED <<status, connected, kpc, iopc, visited>>
        /\ crossed' = crossed \cup {e \in IdlePhones : InGap(e)}
        /\ pc' = [e \in Devices |-> IF status[e] = "ONLINE_IDLE" THEN "start" ELSE "none"]
        /\ phase = "spawn"
    BY <1>3 DEF KSpawnSessions, SpawnSessions, Cross, deviceVars, ioVars, visitVars
  <2>2. pc[d] = "none" /\ KLive(d)' = KLive(d)
    BY <2>1 DEF KInv, VoteInv, SessionInv, KLive
  <2>3. CASE d \notin IdlePhones
    <3>1. pc'[d] = "none" /\ (InGap(d)' <=> InGap(d))
      BY <2>1, <2>2, <2>3 DEF InGap, IdlePhones
    <3> QED BY <1>1, <2>1, <2>2, <2>3, <3>1 DEF PhoneSide, Visiting, Live
  <2>4. CASE d \in IdlePhones
    <3>1. pc'[d] = "start" /\ InGap(d)'
      BY <2>1, <2>4 DEF InGap, IdlePhones
    <3>2. d \notin crossed' => ~InGap(d) /\ KLive(d) = {}
      BY <1>1, <2>1, <2>4 DEF PhoneSide, Visiting, IdlePhones
    <3> QED BY <1>1, <2>1, <2>2, <3>1, <3>2 DEF PhoneSide, Visiting, Live
  <2> QED BY <2>3, <2>4
<1> QED
  BY <1>2, <1>3

\* A phone that calls in is idle, whatever sessions it has: the second session
\* this may bring is the one crossed tells of.
LEMMA CallPhones ==
  ASSUME KInv, PhonesInv, NEW e \in Devices, KPhoneConnects(e) \/ KPhoneLeaves(e)
  PROVE  PhonesInv'
<1> SUFFICES ASSUME NEW d \in Devices PROVE PhoneSide(d)'
  BY DEF PhonesInv
<1>1. PhoneSide(d) /\ DeviceTypeOK
  BY KInvParts DEF PhonesInv
<1>2. UNCHANGED <<kpc, pc, iopc, visited>>
  BY DEF KPhoneConnects, KPhoneLeaves, PhoneConnects, PhoneLeaves, sessionVars, ioVars, visitVars
<1>3. KLive(d)' = KLive(d) /\ (InGap(d)' <=> InGap(d)) /\ (Live(d)' <=> Live(d))
  BY <1>2 DEF KLive, InGap, Live
<1>4. CASE KPhoneConnects(e)
  <2>1. /\ status' = [status EXCEPT ![e] = "ONLINE_IDLE"]
        /\ connected' = connected \cup {e}
        /\ crossed' = crossed \cup (IF SessionsOn(e) > 0 THEN {e} ELSE {})
    BY <1>4 DEF KPhoneConnects, PhoneConnects, PhoneStart, SetStatus, Cross
  <2>2. CASE d # e
    BY <1>1, <1>2, <1>3, <2>1, <2>2 DEF PhoneSide, Visiting, DeviceTypeOK
  <2>3. CASE d = e
    <3>1. status'[d] = "ONLINE_IDLE"
      BY <1>1, <2>1, <2>3 DEF DeviceTypeOK
    <3>2. SessionsOn(d) \in Nat
      <4>1. IsFiniteSet(KSessions)
        BY FS_Product, KeepAssumption, VoteAssumption DEF KSessions
      <4>2. IsFiniteSet(KLive(d))
        BY <4>1, FS_Subset DEF KLive
      <4> QED BY <4>2, FS_CardinalityType DEF SessionsOn
    <3>3. d \notin crossed' => ~Live(d) /\ KLive(d) = {}
      BY <2>1, <2>3, <3>2, CountSessions
    <3> QED BY <1>1, <1>2, <1>3, <2>1, <3>1, <3>3 DEF PhoneSide, Visiting
  <2> QED BY <2>2, <2>3
<1>5. CASE KPhoneLeaves(e)
  <2>1. /\ status' = [status EXCEPT ![e] = "OFFLINE"]
        /\ connected' = connected \ {e} /\ crossed' = crossed
    BY <1>5 DEF KPhoneLeaves, PhoneLeaves, PhoneStop, SetStatus
  <2> QED
    BY <1>1, <1>2, <1>3, <2>1 DEF PhoneSide, Visiting, DeviceTypeOK
<1> QED
  BY <1>4, <1>5

\* A visit crosses its phone when it begins and leaves it idle when it ends.
LEMMA VisitPhones ==
  ASSUME KInv, PhonesInv, NEW e \in Devices, Visit(e)
  PROVE  PhonesInv'
<1> SUFFICES ASSUME NEW d \in Devices PROVE PhoneSide(d)'
  BY DEF PhonesInv
<1>1. /\ UNCHANGED <<kpc, pc, connected>> /\ DeviceTypeOK
      /\ \A f \in Devices \ {e} : status'[f] = status[f]
      /\ PhoneSide(d) /\ PhoneSide(e)
  BY VisitMoves, KInvParts DEF voteOnly, sessionVars, PhonesInv
<1>2. KLive(d)' = KLive(d) /\ (InGap(d)' <=> InGap(d)) /\ (Live(d)' <=> Live(d))
  BY <1>1 DEF KLive, InGap, Live
<1>3. CASE OnRestartLuaEnd(e)
  <2>1. \A h \in Bound(e) : h[2] = e
    BY DEF Bound, KLive, Daily, Phone, Session
  <2>2. /\ visited'[2] = e /\ iopc = "out" /\ crossed' = crossed \cup {e}
        /\ status'[e] = "ONLINE_IDLE"
    BY <1>1, <1>3, <2>1 DEF OnRestartLuaEnd, IoFree, Cross, SetStatus, DeviceTypeOK
  <2>3. CASE d = e
    BY <2>2, <2>3 DEF PhoneSide
  <2>4. CASE d # e
    BY <1>1, <1>2, <2>2, <2>4 DEF PhoneSide, Visiting
  <2> QED BY <2>3, <2>4
<1>4. CASE VisitConnect(e) \/ VisitWork(e)
  <2>1. visited' = visited /\ visited[2] = e /\ iopc # "out" /\ iopc' # "out" /\ crossed' = crossed
    BY <1>4 DEF VisitConnect, VisitWork, ioVars, visitVars
  <2> QED BY <1>1, <1>2, <2>1 DEF PhoneSide, Visiting
<1>5. CASE VisitEnds(e)
  <2>1. /\ visited' = visited /\ visited[2] = e /\ iopc # "out" /\ iopc' = "out"
        /\ crossed' = crossed /\ status'[e] = "ONLINE_IDLE"
    BY <1>1, <1>5 DEF VisitEnds, SetStatus, DeviceTypeOK
  <2> QED BY <1>1, <1>2, <2>1 DEF PhoneSide, Visiting
<1> QED
  BY <1>3, <1>4, <1>5 DEF Visit

LEMMA PhonesStep ==
  ASSUME KInv, PhonesInv, [KNext]_kvars
  PROVE  PhonesInv'
<1>1. ASSUME UNCHANGED <<status, connected, kpc, crossed, iopc, visited>>,
             \A d \in Devices : Live(d)' <=> Live(d),
             \A d \in Devices : pc[d] \in {"start", "begin"} <=> pc'[d] \in {"start", "begin"}
      PROVE  PhonesInv'
  <2>1. \A d \in Devices : KLive(d)' = KLive(d) /\ (InGap(d)' <=> InGap(d))
    BY <1>1 DEF KLive, InGap
  <2> QED BY <1>1, <2>1 DEF PhonesInv, PhoneSide, Visiting
<1>2. CASE ResetTask \/ (\E a \in Accounts : ResetOne(a)) \/ UNCHANGED kvars
  BY <1>1, <1>2
  DEF ResetTask, ResetOne, kvars, keepVars, ioVars, visitVars, vars, deviceVars, voteOnly,
      sessionVars, Live
<1>3. CASE VoteStep
  <2>1. CASE \E t \in Targets : StartTask(t)
    BY <1>1, <1>3, <2>1 DEF VoteStep, StartTask, ioVars, visitVars, deviceVars, sessionVars,
        Live
  <2>2. CASE JoinSessions
    <3>1. \A d \in Devices : ~Live(d) /\ pc'[d] = "none"
      BY <2>2 DEF JoinSessions
    <3> QED BY <1>1, <1>3, <2>2, <3>1 DEF VoteStep, JoinSessions, ioVars, visitVars,
             deviceVars, Live
  <2>3. ASSUME NEW d \in Devices, SessionStep(d) PROVE PhonesInv'
    BY <1>3, <2>3, VotePhones DEF VoteStep
  <2> QED BY <1>3, <2>1, <2>2, <2>3 DEF VoteStep
<1>4. CASE KRestart
  BY <1>4 DEF KRestart, Restart, PhonesInv, PhoneSide, Visiting, KLive, Live
<1> QED
  BY <1>2, <1>3, <1>4, DailyPhones, StartPhones, CallPhones, VisitPhones DEF KNext

LEMMA PhonesInvariant == KSpec => []PhonesInv
<1>1. KInit => PhonesInv
  BY DEF KInit, Init, DeviceInit, PhonesInv, PhoneSide, Visiting, KLive, Live
<1>2. KSpec => []KInv
  BY KInitInv, KStep, PTL DEF KSpec
<1> QED
  BY <1>1, <1>2, PhonesStep, PTL DEF KSpec

\* Whichever session or visit of a phone ends last leaves the connected phone
\* idle: none is lost to the next tasks.
THEOREM LastLeavesIdle == KSpec => []LastSessionFreesPhone
<1>1. KSpec => []KInv
  BY KInitInv, KStep, PTL DEF KSpec
<1>2. KInv /\ PhonesInv => LastSessionFreesPhone
  BY KInvParts, CountSessions
  DEF LastSessionFreesPhone, PhonesInv, PhoneSide, Visiting, DeviceTypeOK
<1> QED
  BY <1>1, <1>2, PhonesInvariant, PTL

\* A second session on a phone takes a call of the phone during the first, the
\* time before the first has marked the phone busy, or an on_restart_lua_end.
THEOREM SecondNeedsRace == KSpec => []SecondSessionNeedsRace
<1>1. PhonesInv => SecondSessionNeedsRace
  BY CountSessions DEF SecondSessionNeedsRace, PhonesInv, PhoneSide
<1> QED
  BY <1>1, PhonesInvariant, PTL

-----------------------------------------------------------------------------
\* What the vote task promises holds beside the daily sessions, until the IO
\* thread enters a session.  A daily session's step is one that votes with
\* nothing and counts nothing, OffVotes, and marks no phone as voting, which a
\* visit may do; every other step is one of VoteTask.
OffVotes ==
  /\ UNCHANGED <<voteOnly, restarts>>
  /\ accounts_pro'["voted"] = accounts_pro["voted"]
  /\ ub \in BOOLEAN /\ ub' \in {ub, TRUE}
  /\ ~ub' => /\ IdleAccounts' \subseteq IdleAccounts \cup {held[h] : h \in Holders}
             /\ \A h \in Holders : held'[h] \in IdleAccounts \cup {held[h], NoAccount}

MarksNone == \A d \in Devices : status'[d] = "WX_VOTING" => status[d] = "WX_VOTING"

LEMMA DailyOffVotes ==
  ASSUME KInv, NEW s \in KSessions, KSessionStep(s)
  PROVE  OffVotes /\ MarksNone
<1> DEFINE h == Daily(s)
<1>1. /\ PoolInv /\ PoolTypeOK /\ DeviceTypeOK /\ h \in Holders
      /\ Phone(s) \in Devices
  BY KInvParts, DailyHolders
<1>2. /\ UNCHANGED <<voteOnly, restarts>>
      /\ \A d \in Devices \ {Phone(s)} : status'[d] = status[d]
  BY DailyMoves
<1>3. status'[Phone(s)] = "WX_VOTING" => status[Phone(s)] = "WX_VOTING"
  BY <1>1
  DEF DeviceTypeOK, SetStatus, KSessionStep, KHandleRead, KFindConnection, KConnect,
      KRestartTimeout, KFinish, KFindAccount, KNoAccountLeft, KTakeAccount, KSendCommands,
      KReplySuccess, KReplyAbnormal, KReplyRefused, KReadFailed, KSetIdleAccount, CloseLate,
      KOnReadTimeout, KEnd, vars, deviceVars
<1>4. CASE PlainCall(s)
  <2>1. \/ Lookup(h, NotDaily) \/ TakeValid(h) \/ TakeDangling(h) \/ SetIdle(h)
        \/ Forget(h) \/ UNCHANGED poolVars
    BY <1>4 DEF PlainCall
  <2> QED
    BY <1>1, <1>2, <1>3, <2>1, PoolStepsKeepVotes, PoolStepsKeepSpent DEF OffVotes, MarksNone
<1>5. CASE FlagCall(s)
  <2>1. PICK f \in {"daily", "abnormal"} : SetFlag(f, held[h])
    BY <1>5 DEF FlagCall
  <2>2. /\ UNCHANGED <<idle, held, ub>> /\ ub \in BOOLEAN
        /\ accounts_pro'["voted"] = accounts_pro["voted"]
    BY <1>1, <2>1 DEF SetFlag, PoolTypeOK, Flags
  <2> QED
    BY <1>2, <1>3, <2>2 DEF OffVotes, MarksNone, IdleAccounts
<1> QED
  BY <1>4, <1>5, DailyMoves DEF DailyCall

\* While the IO thread is in a session, that is known.
Inside == iopc # "out" => entered

LEMMA VisitFrame ==
  ASSUME KInv, Inside, [KNext]_kvars
  PROVE  /\ Inside'
         /\ KRestart \/ (entered => entered')
         /\ (\E d \in Devices : Visit(d)) => entered'
<1>1. ASSUME NEW s \in KSessions, KSessionStep(s) PROVE UNCHANGED <<iopc, entered>>
  BY <1>1, DailyMoves DEF ioVars, visitVars
<1>2. ASSUME NEW d \in Devices, Visit(d) PROVE entered'
  BY <1>2 DEF Visit, OnRestartLuaEnd, VisitConnect, VisitWork, VisitEnds, ioVars, visitVars, Inside
<1>3. CASE KRestart
  BY <1>2, <1>3 DEF KRestart, Inside
<1>4. UNCHANGED <<iopc, entered>> \/ entered' \/ KRestart
  BY <1>1, <1>2
  DEF KNext, DoTask, ResetTask, ResetOne, KSpawnSessions, VoteStep, KPhoneConnects,
      KPhoneLeaves, ioVars, visitVars, kvars, keepVars
<1> QED
  BY <1>2, <1>3, <1>4 DEF Inside

LEMMA StepSides ==
  ASSUME KInv, Inside, [KNext]_kvars
  PROVE  [Next]_vars \/ (OffVotes /\ (entered' \/ MarksNone))
<1>1. ASSUME NEW s \in KSessions, KSessionStep(s) PROVE OffVotes /\ MarksNone
  BY <1>1, DailyOffVotes
<1>2. ASSUME NEW a \in Accounts, ResetOne(a) PROVE OffVotes /\ MarksNone
  BY <1>2, KInvParts
  DEF ResetOne, ResetDaily, OffVotes, MarksNone, PoolTypeOK, Flags, IdleAccounts, deviceVars, counters
<1>3. CASE DoTask \/ ResetTask \/ UNCHANGED kvars
  <2>1. UNCHANGED <<poolVars, deviceVars, voteOnly, counters>>
    BY <1>3 DEF DoTask, ResetTask, kvars, vars, envVars, voteOnly, counters
  <2>2. UNCHANGED vars
    BY <2>1 DEF vars, envVars, voteOnly, counters
  <2> QED BY <2>2
<1>4. CASE \/ KSpawnSessions \/ VoteStep \/ KRestart
           \/ \E d \in Devices : KPhoneConnects(d) \/ KPhoneLeaves(d)
  BY <1>4 DEF KSpawnSessions, VoteStep, KRestart, KPhoneConnects, KPhoneLeaves, Next, Task
<1>5. ASSUME NEW d \in Devices, Visit(d) PROVE OffVotes /\ entered'
  <2>1. entered'
    BY <1>5, VisitFrame
  <2>2. OffVotes
    BY <1>5, VisitMoves, KInvParts DEF OffVotes, IdleAccounts, poolVars, counters, PoolTypeOK
  <2> QED BY <2>1, <2>2
<1> QED
  BY <1>1, <1>2, <1>3, <1>4, <1>5 DEF KNext

\* The invariants of the vote task's theorems, each kept by both sides.
KVotesInv == CountInv /\ BallotInv /\ DbBehindMemory /\ Inside /\ (~entered => StatusInv)

LEMMA OffVotesInv ==
  ASSUME CountInv, BallotInv, OffVotes
  PROVE  /\ CountInv' /\ BallotInv'
         /\ StatusInv /\ MarksNone => StatusInv'
<1>1. UNCHANGED <<phase, target, success, result, pc, votedBefore, ballots, restarts>>
  BY DEF OffVotes, voteOnly, taskVars, sessionVars
<1>2. NotCounting /\ NoBallot
  BY <1>1 DEF OffVotes, NotCounting, NoBallot, Uncounted
<1>3. StatusInv /\ MarksNone => StatusInv'
  BY <1>1 DEF MarksNone, StatusInv, VotingBelongsToSession, LoneSession, Short
<1> QED
  BY <1>2, <1>3, NotCountingInv, NoBallotInv

\* Only a restart of the process takes the IO thread's visits back.
LEMMA EnteredStays ==
  ASSUME KInv, KVotesInv, [KNext]_kvars, ~entered'
  PROVE  StatusInv \/ StatusInv'
<1>1. CASE KRestart
  BY <1>1 DEF KRestart, Restart, StatusInv, VotingBelongsToSession
<1>2. CASE ~entered
  BY <1>2 DEF KVotesInv
<1> QED
  BY <1>1, <1>2, VisitFrame DEF KVotesInv

LEMMA KVotesStep ==
  ASSUME KInv, KVotesInv, [KNext]_kvars
  PROVE  KVotesInv'
<1>1. DbBehindMemory' /\ Inside'
  BY KStep, KInvParts, PoolKeepsDbBehind, VisitFrame DEF KVotesInv
<1>2. CASE [Next]_vars
  <2>1. CountInv' /\ BallotInv' /\ (StatusInv => StatusInv')
    BY <1>2, CountStep, BallotStep, StatusStep DEF KInv, KVotesInv
  <2> QED
    BY <1>1, <2>1, EnteredStays DEF KVotesInv
<1>3. CASE OffVotes /\ (entered' \/ MarksNone)
  <2>1. CountInv' /\ BallotInv' /\ (StatusInv /\ MarksNone => StatusInv')
    BY <1>3, OffVotesInv DEF KVotesInv
  <2> QED
    BY <1>1, <1>3, <2>1, EnteredStays DEF KVotesInv
<1> QED
  BY <1>2, <1>3, StepSides DEF KVotesInv

LEMMA KVotesInvariant == KSpec => [](KInv /\ KVotesInv)
<1>1. KInit => KVotesInv
  <2> SUFFICES ASSUME KInit PROVE KVotesInv
    OBVIOUS
  <2>1. Uncounted = {} /\ NewlyVoted = {}
    BY DEF KInit, Init, PoolInit, Uncounted, NewlyVoted
  <2>2. CountInv
    BY <2>1, FS_EmptySet DEF KInit, Init, PoolInit, CountInv, VotesCounted, NoResult
  <2>3. BallotInv /\ StatusInv /\ DbBehindMemory /\ Inside
    BY DEF KInit, Init, PoolInit, DeviceInit, BallotInv, StatusInv, Inside,
       VotingBelongsToSession, DbBehindMemory
  <2> QED BY <2>2, <2>3 DEF KVotesInv
<1>2. KSpec => []KInv
  BY KInitInv, KStep, PTL DEF KSpec
<1> QED
  BY <1>1, <1>2, KVotesStep, PTL DEF KSpec

\* The count a vote task reports is right with daily sessions that take accounts
\* from the same list and overwrite the phones' statuses, until the IO thread
\* enters a session.
THEOREM VotesCountedBesideDaily == KSpec => [](~entered => VotesCounted)
<1>1. KVotesInv => (~entered => VotesCounted)
  BY DEF KVotesInv, CountInv
<1> QED
  BY <1>1, KVotesInvariant, PTL

\* No account votes twice because a daily session had it in between, until the
\* IO thread enters a session.
THEOREM BallotsSingleBesideDaily == KSpec => [](~entered => NoDoubleBallot)
<1>1. KVotesInv => (~entered => NoDoubleBallot)
  BY DEF KVotesInv, BallotInv, NoDoubleBallot
<1> QED
  BY <1>1, KVotesInvariant, PTL

\* A phone marked voting has a vote session that runs: a daily session of the
\* same phone takes the mark off and never puts it on.  A visit of the IO thread
\* may put it on when the vote session has ended.
THEOREM MarksHaveSessionsBesideDaily == KSpec => [](~entered => VotingBelongsToSession)
<1>1. KVotesInv => (~entered => VotingBelongsToSession)
  BY DEF KVotesInv, StatusInv
<1> QED
  BY <1>1, KVotesInvariant, PTL

\* A daily session holds no vote task up, and lets a task that started a single
\* vote session count no vote too many, though it may take that session's mark
\* off its phone; the mark that a visit leaves could do either.
THEOREM TargetBesideDaily ==
  KSpec => [](~entered => StandstillHasStaleMark /\ OnePhoneMeetsTarget)
<1>1. KInv /\ KVotesInv => (~entered => StandstillHasStaleMark /\ OnePhoneMeetsTarget)
  BY StandstillFromInv, LoneTargetFromInv DEF KInv, KVotesInv
<1> QED
  BY <1>1, KVotesInvariant, PTL

\* The resets of the daily marks leave the database behind memory as well, until
\* the IO thread enters a session.
THEOREM DatabaseBehindBesideDaily == KSpec => [](~entered => DbBehindMemory)
<1>1. KVotesInv => (~entered => DbBehindMemory)
  BY DEF KVotesInv
<1> QED
  BY <1>1, KVotesInvariant, PTL
=============================================================================
