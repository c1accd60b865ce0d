--------------------------- MODULE VoteTaskProofs ---------------------------
(***************************************************************************)
(* What holds of vote tasks for any number of phones and accounts, any     *)
(* targets and any of the faults.  First the pool alone: while no dangling *)
(* iterator is erased, a checked-out account belongs to one session and is *)
(* in no list.  Then every step of VoteTask is a step of the pool or       *)
(* leaves it alone, so the pool's theorems hold here; then what each       *)
(* session has, where its code is; then that votes are counted right and   *)
(* cast once.                                                              *)
(***************************************************************************)
EXTENDS VoteTask, SequenceTheorems, FiniteSetTheorems, TLAPS

\* erase at a position of the list: the entries behind it move up by one.
LEMMA RemoveAtProperties ==
  ASSUME NEW S, NEW s \in Seq(S), NEW i \in DOMAIN s
  PROVE  /\ RemoveAt(s, i) \in Seq(S)
         /\ DOMAIN RemoveAt(s, i) = 1..(Len(s) - 1)
         /\ \A j \in 1..(Len(s) - 1) :
               RemoveAt(s, i)[j] = IF j < i THEN s[j] ELSE s[j + 1]
<1> DEFINE p == SubSeq(s, 1, i - 1)
           q == SubSeq(s, i + 1, Len(s))
<1>1. Len(s) \in Nat /\ DOMAIN s = 1..Len(s) /\ i \in 1..Len(s)
  BY LenProperties
<1>2. /\ p \in Seq(S) /\ Len(p) = i - 1
      /\ \A j \in 1..(i - 1) : p[j] = s[j]
  BY <1>1, SubSeqProperties, ElementOfSeq
<1>3. /\ q \in Seq(S) /\ Len(q) = Len(s) - i
      /\ \A j \in 1..(Len(s) - i) : q[j] = s[j + i]
  BY <1>1, SubSeqProperties, ElementOfSeq
<1> DEFINE r == p \o q
<1>4. /\ r \in Seq(S)
      /\ Len(r) = Len(p) + Len(q)
      /\ DOMAIN r = 1..Len(r)
      /\ \A j \in 1..(Len(p) + Len(q)) :
            r[j] = IF j <= Len(p) THEN p[j] ELSE q[j - Len(p)]
  BY <1>2, <1>3, ConcatProperties, LenProperties
<1>5. RemoveAt(s, i) = r
  BY DEF RemoveAt
<1> HIDE DEF p, q, r
<1>6. Len(r) = Len(s) - 1
  BY <1>1, <1>2, <1>3, <1>4
<1>7. ASSUME NEW j \in 1..(Len(s) - 1)
      PROVE  r[j] = IF j < i THEN s[j] ELSE s[j + 1]
  <2>1. r[j] = IF j <= i - 1 THEN p[j] ELSE q[j - (i - 1)]
    BY <1>1, <1>2, <1>3, <1>4
  <2>2. CASE j < i
    BY <1>1, <1>2, <2>1, <2>2
  <2>3. CASE ~(j < i)
    <3>1. j - (i - 1) \in 1..(Len(s) - i) /\ (j - (i - 1)) + i = j + 1
      BY <1>1, <2>3
    <3>2. q[j - (i - 1)] = s[j + 1]
      BY <1>3, <3>1
    <3> QED BY <1>1, <2>1, <2>3, <3>2
  <2> QED BY <2>2, <2>3
<1> QED
  BY <1>4, <1>5, <1>6, <1>7

\* The list without repetitions, which is what ~ub gives.
NoRepeats(s) == \A i, j \in DOMAIN s : i # j => s[i] # s[j]

Listed(s) == {s[i] : i \in DOMAIN s}

\* What erase does to the set of listed accounts, and that it repeats none.
LEMMA TakenFromList ==
  ASSUME NEW S, NEW s \in Seq(S), NEW i \in DOMAIN s, NoRepeats(s)
  PROVE  /\ NoRepeats(RemoveAt(s, i))
         /\ Listed(RemoveAt(s, i)) = Listed(s) \ {s[i]}
<1> DEFINE r == RemoveAt(s, i)
<1>1. Len(s) \in Nat /\ DOMAIN s = 1..Len(s) /\ i \in 1..Len(s)
  BY LenProperties
<1>2. /\ r \in Seq(S) /\ DOMAIN r = 1..(Len(s) - 1)
      /\ \A j \in 1..(Len(s) - 1) : r[j] = IF j < i THEN s[j] ELSE s[j + 1]
  BY RemoveAtProperties
<1> HIDE DEF r
<1>3. ASSUME NEW j \in DOMAIN r, NEW k \in DOMAIN r, j # k
      PROVE  r[j] # r[k]
  <2> USE DEF NoRepeats
  <2> DEFINE at(n) == IF n < i THEN n ELSE n + 1
  <2>1. /\ at(j) \in DOMAIN s /\ r[j] = s[at(j)]
        /\ at(k) \in DOMAIN s /\ r[k] = s[at(k)]
    BY <1>1, <1>2
  <2>2. at(j) # at(k)
    BY <1>1, <1>2, <1>3
  <2> QED BY <2>1, <2>2
<1>4. ASSUME NEW j \in DOMAIN r
      PROVE  r[j] \in {s[k] : k \in DOMAIN s} \ {s[i]}
  <2>1. CASE j < i
    BY <1>1, <1>2, <2>1 DEF NoRepeats
  <2>2. CASE ~(j < i)
    <3>1. j + 1 \in DOMAIN s /\ j + 1 # i /\ r[j] = s[j + 1]
      BY <1>1, <1>2, <2>2
    <3> QED BY <3>1 DEF NoRepeats
  <2> QED BY <2>1, <2>2
<1>5. ASSUME NEW k \in DOMAIN s, s[k] # s[i]
      PROVE  \E j \in DOMAIN r : r[j] = s[k]
  <2>1. CASE k < i
    <3>1. k \in DOMAIN r /\ r[k] = s[k]
      BY <1>1, <1>2, <2>1
    <3> QED BY <3>1
  <2>2. CASE k > i
    <3>1. k - 1 \in DOMAIN r /\ r[k - 1] = s[k]
      BY <1>1, <1>2, <2>2
    <3> QED BY <3>1
  <2> QED BY <1>1, <1>5, <2>1, <2>2
<1>6. Listed(r) = Listed(s) \ {s[i]}
  BY <1>4, <1>5 DEF Listed
<1> QED
  BY <1>3, <1>6 DEF NoRepeats, r

\* push_back at the end of the list.
LEMMA GivenToList ==
  ASSUME NEW S, NEW s \in Seq(S), NEW a \in S, NoRepeats(s), a \notin Listed(s)
  PROVE  /\ NoRepeats(Append(s, a))
         /\ Listed(Append(s, a)) = Listed(s) \cup {a}
<1> DEFINE r == Append(s, a)
<1>1. Len(s) \in Nat /\ DOMAIN s = 1..Len(s)
  BY LenProperties
<1>2. /\ r \in Seq(S) /\ DOMAIN r = 1..(Len(s) + 1)
      /\ \A j \in 1..Len(s) : r[j] = s[j]
      /\ r[Len(s) + 1] = a
  BY AppendProperties, LenProperties
<1> HIDE DEF r
<1>3. ASSUME NEW j \in DOMAIN r, NEW k \in DOMAIN r, j # k
      PROVE  r[j] # r[k]
  BY <1>1, <1>2, <1>3 DEF NoRepeats, Listed
<1>4. {r[j] : j \in DOMAIN r} = {s[j] : j \in DOMAIN s} \cup {a}
  <2>1. ASSUME NEW j \in DOMAIN r
        PROVE  r[j] \in {s[k] : k \in DOMAIN s} \cup {a}
    BY <1>1, <1>2
  <2>2. ASSUME NEW k \in DOMAIN s
        PROVE  k \in DOMAIN r /\ r[k] = s[k]
    BY <1>1, <1>2
  <2>3. Len(s) + 1 \in DOMAIN r /\ r[Len(s) + 1] = a
    BY <1>1, <1>2
  <2> QED BY <2>1, <2>2, <2>3
<1> QED
  BY <1>3, <1>4 DEF NoRepeats, Listed, r

\* load_data lists every account once.
LEMMA LoadedList ==
  ASSUME NEW s \in SetToSeqs(Accounts)
  PROVE  s \in Seq(Accounts) /\ NoRepeats(s)
<1>1. Cardinality(Accounts) \in Nat
  BY PoolAssumption, FS_CardinalityType
<1>2. s \in [1..Cardinality(Accounts) -> Accounts]
  BY DEF SetToSeqs
<1> QED
  BY <1>1, <1>2, SeqDef DEF SetToSeqs, NoRepeats

-----------------------------------------------------------------------------
LEMMA ListedAreAccounts ==
  ASSUME PoolTypeOK
  PROVE  /\ IdleAccounts \subseteq Accounts
         /\ NoAccount \notin IdleAccounts
BY PoolAssumption, LenProperties DEF PoolTypeOK, IdleAccounts

LEMMA PoolInitInv == PoolInit => PoolInv
<1> SUFFICES ASSUME PoolInit PROVE PoolInv
  OBVIOUS
<1>1. idle \in Seq(Accounts) /\ NoRepeats(idle)
  BY LoadedList DEF PoolInit
<1>2. PoolTypeOK
  BY <1>1 DEF PoolInit, PoolTypeOK
<1> QED
  BY <1>1, <1>2, ListedAreAccounts
  DEF PoolInit, PoolInv, IteratorOrAccount, IteratorsValid, ExclusiveCheckout, NoRepeats

\* A scan finds an account in the list, so the new iterator is valid.
LEMMA LookupInv ==
  ASSUME PoolInv, NEW h \in Holders, NEW E, Lookup(h, E)
  PROVE  PoolInv'
<1>1. PICK i \in DOMAIN idle : itor' = [itor EXCEPT ![h] = idle[i]]
  BY DEF Lookup
<1>2. idle[i] \in IdleAccounts /\ idle[i] \in Accounts /\ IdleAccounts' = IdleAccounts
  BY ListedAreAccounts DEF IdleAccounts, PoolInv, Lookup
<1>3. PoolTypeOK'
  BY <1>1, <1>2 DEF PoolInv, PoolTypeOK, Lookup
<1>4. IteratorOrAccount'
  BY <1>1, <1>2, PoolAssumption DEF PoolInv, PoolTypeOK, IteratorOrAccount, Lookup
<1>5. IteratorsValid'
  BY <1>1, <1>2 DEF PoolInv, PoolTypeOK, IteratorsValid, Lookup
<1>6. ExclusiveCheckout'
  BY <1>2 DEF PoolInv, ExclusiveCheckout, Lookup
<1> QED
  BY <1>3, <1>4, <1>5, <1>6 DEF PoolInv

\* An erase moves one account from the list to one session and leaves the
\* iterators that were at the same entry dangling.
LEMMA TakeValidInv ==
  ASSUME PoolInv, NEW h \in Holders, TakeValid(h)
  PROVE  PoolInv'
<1> DEFINE a == itor[h]
<1>1. PICK i \in DOMAIN idle :
         /\ idle[i] = a
         /\ held' = [held EXCEPT ![h] = a]
         /\ idle' = RemoveAt(idle, i)
         /\ dangling' = (dangling \cup Sharing(h, a)) \ {h}
  BY DEF TakeValid, TakeEntry, First
<1>2. /\ itor' = [itor EXCEPT ![h] = NoAccount]
      /\ h \notin dangling /\ a # NoAccount
      /\ ub' = ub /\ accounts_pro' = accounts_pro /\ table' = table
  BY DEF TakeValid
<1>3. PoolTypeOK
  BY DEF PoolInv
<1>4. a \in IdleAccounts /\ a \in Accounts
  BY <1>1, <1>3, ListedAreAccounts DEF IdleAccounts
<1>5. PoolTypeOK'
  <2>1. idle' \in Seq(Accounts)
    BY <1>1, <1>3, RemoveAtProperties DEF PoolTypeOK
  <2> QED BY <1>1, <1>2, <1>3, <1>4, <2>1 DEF PoolTypeOK, Sharing
<1>6. IteratorOrAccount'
  BY <1>1, <1>2, <1>3 DEF PoolInv, PoolTypeOK, IteratorOrAccount, Sharing
<1>7. ASSUME ~ub
      PROVE  NoRepeats(idle') /\ IdleAccounts' = IdleAccounts \ {a}
  <2>1. NoRepeats(idle) /\ idle \in Seq(Accounts)
    BY <1>3, <1>7 DEF PoolInv, PoolTypeOK, ExclusiveCheckout, NoRepeats
  <2>2. /\ NoRepeats(RemoveAt(idle, i))
        /\ Listed(RemoveAt(idle, i)) = Listed(idle) \ {idle[i]}
    BY <2>1, TakenFromList
  <2> QED BY <1>1, <2>2 DEF Listed, IdleAccounts
<1>8. IteratorsValid'
  BY <1>1, <1>2, <1>3, <1>7 DEF PoolInv, PoolTypeOK, IteratorsValid, Sharing
<1>9. ExclusiveCheckout'
  <2> SUFFICES ASSUME ~ub'
               PROVE  /\ NoRepeats(idle)'
                      /\ \A g \in Holders : held'[g] \notin IdleAccounts'
                      /\ \A f, g \in Holders :
                            f # g /\ held'[f] # NoAccount => held'[f] # held'[g]
    BY DEF ExclusiveCheckout, NoRepeats
  <2>1. ~ub /\ IdleAccounts' = IdleAccounts \ {a} /\ NoRepeats(idle)'
    BY <1>2, <1>7 DEF NoRepeats
  <2>2. /\ \A g \in Holders : held[g] \notin IdleAccounts
        /\ \A f, g \in Holders :
              f # g /\ held[f] # NoAccount => held[f] # held[g]
    BY <2>1 DEF PoolInv, ExclusiveCheckout
  <2>3. \A g \in Holders : held'[g] = IF g = h THEN a ELSE held[g]
    BY <1>1, <1>3 DEF PoolTypeOK
  <2> QED BY <1>4, <2>1, <2>2, <2>3
<1> QED
  BY <1>5, <1>6, <1>8, <1>9 DEF PoolInv

\* A dangling erase ends what is promised: only the types go on to hold.
LEMMA TakeDanglingInv ==
  ASSUME PoolInv, NEW h \in Holders, TakeDangling(h)
  PROVE  PoolInv'
<1>1. PoolTypeOK
  BY DEF PoolInv
<1>2. /\ idle' \in Seq(Accounts)
      /\ held' \in [Holders -> Accounts \cup {NoAccount}]
      /\ dangling' \in SUBSET Holders /\ h \notin dangling'
      /\ \A g \in Holders \ {h} : held'[g] = held[g]
      /\ \A g \in dangling' : itor[g] # NoAccount
  <2>1. CASE /\ held' = [held EXCEPT ![h] = itor[h]]
             /\ dangling' = dangling \ {h}
             /\ idle' = idle
    BY <1>1, <2>1 DEF PoolInv, PoolTypeOK, IteratorOrAccount
  <2>2. CASE \E i \in DOMAIN idle : TakeEntry(h, i)
    <3>1. PICK i \in DOMAIN idle : TakeEntry(h, i)
      BY <2>2
    <3>2. idle[i] \in Accounts
      BY <1>1, LenProperties DEF PoolTypeOK
    <3>3. RemoveAt(idle, i) \in Seq(Accounts)
      BY <1>1, RemoveAtProperties DEF PoolTypeOK
    <3>4. idle[i] # NoAccount
      BY <3>2, PoolAssumption
    <3> QED
      BY <1>1, <3>1, <3>2, <3>3, <3>4
      DEF PoolInv, PoolTypeOK, IteratorOrAccount, TakeEntry, Sharing
  <2> QED BY <2>1, <2>2 DEF TakeDangling
<1>3. /\ itor' = [itor EXCEPT ![h] = NoAccount] /\ ub' = TRUE
      /\ accounts_pro' = accounts_pro /\ table' = table
  BY DEF TakeDangling
<1>4. PoolTypeOK'
  BY <1>1, <1>2, <1>3 DEF PoolTypeOK
<1>5. IteratorOrAccount'
  BY <1>1, <1>2, <1>3 DEF PoolInv, PoolTypeOK, IteratorOrAccount
<1> QED
  BY <1>3, <1>4, <1>5 DEF PoolInv, IteratorsValid, ExclusiveCheckout

\* The holder of an account appends it: it was in no list and with no other.
LEMMA SetIdleInv ==
  ASSUME PoolInv, NEW h \in Holders, SetIdle(h)
  PROVE  PoolInv'
<1> DEFINE a == held[h]
<1>1. /\ a # NoAccount
      /\ idle' = Append(idle, a)
      /\ held' = [held EXCEPT ![h] = NoAccount]
      /\ itor' = itor /\ dangling' = dangling /\ ub' = ub
      /\ accounts_pro' = accounts_pro /\ table' = table
  BY DEF SetIdle
<1>2. PoolTypeOK /\ a \in Accounts
  BY <1>1 DEF PoolInv, PoolTypeOK
<1>3. PoolTypeOK'
  <2>1. idle' \in Seq(Accounts)
    BY <1>1, <1>2, AppendProperties DEF PoolTypeOK
  <2> QED BY <1>1, <1>2, <2>1 DEF PoolTypeOK
<1>4. IteratorOrAccount'
  BY <1>1, <1>2 DEF PoolInv, PoolTypeOK, IteratorOrAccount
<1>5. ASSUME ~ub
      PROVE  NoRepeats(idle') /\ IdleAccounts' = IdleAccounts \cup {a}
  <2>1. NoRepeats(idle) /\ idle \in Seq(Accounts) /\ a \notin Listed(idle)
    BY <1>2, <1>5
    DEF PoolInv, PoolTypeOK, ExclusiveCheckout, NoRepeats, IdleAccounts, Listed
  <2>2. /\ NoRepeats(Append(idle, a))
        /\ Listed(Append(idle, a)) = Listed(idle) \cup {a}
    BY <1>2, <2>1, GivenToList
  <2> QED BY <1>1, <2>2 DEF Listed, IdleAccounts
<1>6. IteratorsValid'
  BY <1>1, <1>5 DEF PoolInv, IteratorsValid
<1>7. ExclusiveCheckout'
  <2> SUFFICES ASSUME ~ub'
               PROVE  /\ NoRepeats(idle)'
                      /\ \A g \in Holders : held'[g] \notin IdleAccounts'
                      /\ \A f, g \in Holders :
                            f # g /\ held'[f] # NoAccount => held'[f] # held'[g]
    BY DEF ExclusiveCheckout, NoRepeats
  <2>1. ~ub /\ IdleAccounts' = IdleAccounts \cup {a} /\ NoRepeats(idle)'
    BY <1>1, <1>5 DEF NoRepeats
  <2>2. /\ \A g \in Holders : held[g] \notin IdleAccounts
        /\ \A f, g \in Holders :
              f # g /\ held[f] # NoAccount => held[f] # held[g]
    BY <2>1 DEF PoolInv, ExclusiveCheckout
  <2>3. \A g \in Holders : held'[g] = IF g = h THEN NoAccount ELSE held[g]
    BY <1>1, <1>2 DEF PoolTypeOK
  <2>4. NoAccount \notin IdleAccounts
    BY <1>2, ListedAreAccounts
  <2> QED BY <1>1, <2>1, <2>2, <2>3, <2>4
<1> QED
  BY <1>3, <1>4, <1>6, <1>7 DEF PoolInv

LEMMA ForgetInv ==
  ASSUME PoolInv, NEW h \in Holders, Forget(h)
  PROVE  PoolInv'
<1>1. /\ held' = [held EXCEPT ![h] = NoAccount]
      /\ IdleAccounts' = IdleAccounts
      /\ UNCHANGED <<idle, itor, dangling, accounts_pro, table, ub>>
  BY DEF Forget, IdleAccounts
<1>2. PoolTypeOK /\ NoAccount \notin IdleAccounts
  BY ListedAreAccounts DEF PoolInv
<1>3. PoolTypeOK'
  BY <1>1, <1>2 DEF PoolTypeOK
<1>4. IteratorOrAccount' /\ IteratorsValid'
  BY <1>1, <1>2 DEF PoolInv, PoolTypeOK, IteratorOrAccount, IteratorsValid
<1>5. ExclusiveCheckout'
  BY <1>1, <1>2 DEF PoolInv, PoolTypeOK, ExclusiveCheckout
<1> QED
  BY <1>3, <1>4, <1>5 DEF PoolInv

\* The flags have no part in who holds what.
LEMMA FlagsInv ==
  ASSUME PoolInv, NEW a \in Accounts,
         (\E f \in Flags : SetFlag(f, a)) \/ ResetDaily(a)
  PROVE  PoolInv'
<1>1. /\ UNCHANGED <<idle, itor, dangling, held, ub>>
      /\ IdleAccounts' = IdleAccounts
  BY DEF SetFlag, ResetDaily, IdleAccounts
<1>2. PoolTypeOK
  BY DEF PoolInv
<1>3. accounts_pro' \in [Flags -> SUBSET Accounts] /\ table' \in [Flags -> SUBSET Accounts]
  <2>1. CASE \E f \in Flags : SetFlag(f, a)
    BY <1>2, <2>1 DEF PoolTypeOK, SetFlag
  <2>2. CASE ResetDaily(a)
    BY <1>2, <2>2 DEF PoolTypeOK, ResetDaily, Flags
  <2> QED BY <2>1, <2>2
<1> QED
  BY <1>1, <1>2, <1>3
  DEF PoolInv, PoolTypeOK, IteratorOrAccount, IteratorsValid, ExclusiveCheckout

LEMMA LoadInv ==
  ASSUME PoolInv, Load
  PROVE  PoolInv'
<1>1. idle' \in Seq(Accounts) /\ NoRepeats(idle')
  BY LoadedList DEF Load
<1>2. PoolTypeOK'
  BY <1>1 DEF PoolInv, PoolTypeOK, Load
<1>3. NoAccount \notin IdleAccounts'
  BY <1>1, PoolAssumption, LenProperties DEF IdleAccounts
<1> QED
  BY <1>1, <1>2, <1>3
  DEF PoolInv, Load, IteratorOrAccount, IteratorsValid, ExclusiveCheckout, NoRepeats

LEMMA PoolStepInv == PoolInv /\ [PoolNext]_poolVars => PoolInv'
<1> SUFFICES ASSUME PoolInv, [PoolNext]_poolVars PROVE PoolInv'
  OBVIOUS
<1>1. ASSUME NEW h \in Holders, NEW E, Lookup(h, E) PROVE PoolInv'
  BY <1>1, LookupInv
<1>2. ASSUME NEW h \in Holders, TakeValid(h) PROVE PoolInv'
  BY <1>2, TakeValidInv
<1>3. ASSUME NEW h \in Holders, TakeDangling(h) PROVE PoolInv'
  BY <1>3, TakeDanglingInv
<1>4. ASSUME NEW h \in Holders, SetIdle(h) PROVE PoolInv'
  BY <1>4, SetIdleInv
<1>5. ASSUME NEW h \in Holders, Forget(h) PROVE PoolInv'
  BY <1>5, ForgetInv
<1>6. ASSUME NEW a \in Accounts, (\E f \in Flags : SetFlag(f, a)) \/ ResetDaily(a)
      PROVE  PoolInv'
  BY <1>6, FlagsInv
<1>7. CASE Load
  BY <1>7, LoadInv
<1>8. CASE UNCHANGED poolVars
  BY <1>8 DEF poolVars, PoolInv, PoolTypeOK, IteratorOrAccount, IteratorsValid,
              ExclusiveCheckout, IdleAccounts
<1> QED
  BY <1>1, <1>2, <1>3, <1>4, <1>5, <1>6, <1>7, <1>8 DEF PoolNext

\* The pool keeps its inductive invariant, whoever uses it.
THEOREM PoolInvariant == PoolSpec => []PoolInv
<1>1. PoolInit => PoolInv
  BY PoolInitInv
<1>2. PoolInv /\ [PoolNext]_poolVars => PoolInv'
  BY PoolStepInv
<1> QED
  BY <1>1, <1>2, PTL DEF PoolSpec

\* No account is checked out twice, or listed while checked out, before a
\* dangling iterator is erased.
THEOREM PoolExclusive == PoolSpec => []ExclusiveCheckout
<1>1. PoolInv => ExclusiveCheckout
  BY DEF PoolInv
<1> QED
  BY <1>1, PoolInvariant, PTL

-----------------------------------------------------------------------------
\* TypeOK without the part of the pool.
OwnTypeOK ==
  /\ DeviceTypeOK
  /\ phase \in {"none", "spawn", "join"}
  /\ target \in Nat /\ success \in Nat
  /\ result \in [code : {0, -1}, count : Nat]
  /\ pc \in [Devices -> Locations]
  /\ sock \in [Devices -> {"open", "half", "closed"}]
  /\ votedBefore \in SUBSET Accounts
  /\ ballots \in [Accounts -> 0..2]
  /\ refusals \in Nat /\ restarts \in Nat

LEMMA TypeOKParts == TypeOK <=> PoolTypeOK /\ OwnTypeOK
BY DEF TypeOK, OwnTypeOK

LEMMA SessionsAreHolders ==
  /\ \A d \in Devices : Session(d) \in Holders
  /\ \A d, e \in Devices : Session(d) = Session(e) => d = e
BY VoteAssumption DEF Session

\* A step that leaves the pool alone, and what it must keep.
OwnInv == OwnTypeOK /\ SessionInv /\ Unvoted

LEMMA OwnInitInv == Init => OwnInv
<1> SUFFICES ASSUME Init PROVE OwnInv
  OBVIOUS
<1>1. OwnTypeOK
  BY DEF Init, PoolInit, DeviceInit, OwnTypeOK, DeviceTypeOK, Statuses, Locations,
         NoResult, Flags
<1>2. SessionInv
  BY SessionsAreHolders DEF Init, PoolInit, SessionInv, Holding, Unanswered
<1>3. Unvoted
  BY DEF Init, Unvoted, Unanswered
<1> QED
  BY <1>1, <1>2, <1>3 DEF OwnInv

-----------------------------------------------------------------------------
\* The thread of the work queue: no session is there before SpawnSessions and
\* after JoinSessions.
LEMMA TaskStep ==
  ASSUME VoteInv, Task
  PROVE  UNCHANGED poolVars /\ OwnInv'
<1> USE TypeOKParts DEF VoteInv
<1>1. ASSUME NEW t \in Targets, StartTask(t)
      PROVE  UNCHANGED poolVars /\ OwnInv'
  <2> USE <1>1 DEF StartTask, poolVars, deviceVars, sessionVars
  <2>1. OwnTypeOK'
    BY VoteAssumption
    DEF OwnTypeOK, DeviceTypeOK, PoolTypeOK, Result, Flags
  <2>2. SessionInv' /\ Unvoted'
    BY DEF SessionInv, Unvoted
  <2> QED BY <2>1, <2>2 DEF OwnInv
<1>2. ASSUME SpawnSessions
      PROVE  UNCHANGED poolVars /\ OwnInv'
  <2> USE <1>2 DEF SpawnSessions, poolVars, deviceVars, envVars
  <2>1. OwnTypeOK'
    BY DEF OwnTypeOK, DeviceTypeOK, Locations
  <2>2. SessionInv' /\ Unvoted'
    BY DEF SessionInv, Unvoted, Holding, Unanswered
  <2> QED BY <2>1, <2>2 DEF OwnInv
<1>3. ASSUME JoinSessions
      PROVE  UNCHANGED poolVars /\ OwnInv'
  <2> USE <1>3 DEF JoinSessions, poolVars, deviceVars, sessionVars, envVars
  <2>1. OwnTypeOK'
    BY DEF OwnTypeOK, DeviceTypeOK, Locations, Result
  <2>2. SessionInv' /\ Unvoted'
    BY DEF Live, SessionInv, Unvoted, Holding, Unanswered
  <2> QED BY <2>1, <2>2 DEF OwnInv
<1> QED
  BY <1>1, <1>2, <1>3 DEF Task

\* The steps of a session that only move on, or change statuses and sockets.
QuietStep(d) ==
  \/ FindConnection(d) \/ Connect(d) \/ RestartTimeout(d) \/ Finish(d)
  \/ NoAccountLeft(d) \/ NeedWaitVote(d) \/ ReplyRefused(d) \/ OnReadTimeout(d)
  \/ AddSucCount(d) \/ VoteEnd(d)

LEMMA QuietTypes ==
  ASSUME VoteInv, NEW d \in Devices, QuietStep(d)
  PROVE  OwnTypeOK'
<1> USE TypeOKParts
    DEF VoteInv, OwnTypeOK, DeviceTypeOK, Goto, SetStatus, Statuses, Locations,
        taskVars, deviceVars, envVars, poolVars
<1>1. CASE FindConnection(d) BY <1>1 DEF FindConnection
<1>2. CASE Connect(d) BY <1>2 DEF Connect
<1>3. CASE RestartTimeout(d) BY <1>3 DEF RestartTimeout
<1>4. CASE Finish(d) BY <1>4 DEF Finish
<1>5. CASE NoAccountLeft(d) BY <1>5 DEF NoAccountLeft
<1>6. CASE NeedWaitVote(d) BY <1>6 DEF NeedWaitVote
<1>7. CASE ReplyRefused(d) BY <1>7 DEF ReplyRefused, Cast, Uncast
<1>8. CASE OnReadTimeout(d) BY <1>8 DEF OnReadTimeout
<1>9. CASE AddSucCount(d) BY <1>9 DEF AddSucCount
<1>10. CASE VoteEnd(d) BY <1>10 DEF VoteEnd
<1> QED
  BY <1>1, <1>2, <1>3, <1>4, <1>5, <1>6, <1>7, <1>8, <1>9, <1>10 DEF QuietStep

\* They neither reach a place where a session has an account nor leave one,
\* but for the way from "wait" to the answer.
LEMMA QuietMoves ==
  ASSUME VoteInv, NEW d \in Devices, QuietStep(d)
  PROVE  /\ UNCHANGED poolVars
         /\ phase = "join" /\ phase' = phase
         /\ \A e \in Devices \ {d} : pc'[e] = pc[e]
         /\ pc[d] = "found" <=> pc'[d] = "found"
         /\ pc[d] \in Holding <=> pc'[d] \in Holding
         /\ pc'[d] \in Unanswered => pc[d] \in Unanswered
<1> USE TypeOKParts
    DEF VoteInv, OwnTypeOK, SessionInv, Goto, Holding, Unanswered, taskVars
<1>1. CASE FindConnection(d) BY <1>1 DEF FindConnection
<1>2. CASE Connect(d) BY <1>2 DEF Connect
<1>3. CASE RestartTimeout(d) BY <1>3 DEF RestartTimeout
<1>4. CASE Finish(d) BY <1>4 DEF Finish
<1>5. CASE NoAccountLeft(d) BY <1>5 DEF NoAccountLeft
<1>6. CASE NeedWaitVote(d) BY <1>6 DEF NeedWaitVote
<1>7. CASE ReplyRefused(d) BY <1>7 DEF ReplyRefused
<1>8. CASE OnReadTimeout(d) BY <1>8 DEF OnReadTimeout
<1>9. CASE AddSucCount(d) BY <1>9 DEF AddSucCount
<1>10. CASE VoteEnd(d) BY <1>10 DEF VoteEnd
<1> QED
  BY <1>1, <1>2, <1>3, <1>4, <1>5, <1>6, <1>7, <1>8, <1>9, <1>10 DEF QuietStep

LEMMA QuietStepInv ==
  ASSUME VoteInv, NEW d \in Devices, QuietStep(d)
  PROVE  UNCHANGED poolVars /\ OwnInv'
<1>1. SessionInv /\ Unvoted
  BY DEF VoteInv
<1>2. SessionInv' /\ Unvoted'
  BY <1>1, QuietMoves DEF SessionInv, Unvoted, poolVars
<1> QED
  BY <1>2, QuietTypes, QuietMoves DEF OwnInv

-----------------------------------------------------------------------------
\* The steps that change the pool: what each does to it, and that the session
\* is afterwards where it should be.
LEMMA FindAccountInv ==
  ASSUME VoteInv, NEW d \in Devices, FindAccount(d)
  PROVE  Lookup(Session(d), NotVoted) /\ OwnInv'
<1> USE TypeOKParts, SessionsAreHolders DEF VoteInv
<1>1. /\ Lookup(Session(d), NotVoted)
      /\ pc[d] = "loop" /\ pc' = [pc EXCEPT ![d] = "found"]
      /\ UNCHANGED <<deviceVars, taskVars, sock, envVars>>
  BY DEF FindAccount, Goto
<1>2. PICK i \in DOMAIN idle : /\ idle[i] \in NotVoted
                             /\ itor' = [itor EXCEPT ![Session(d)] = idle[i]]
  BY <1>1 DEF Lookup, First
<1>3. OwnTypeOK'
  BY <1>1 DEF OwnTypeOK, DeviceTypeOK, Locations, deviceVars, taskVars, envVars
<1>4. idle[i] # NoAccount /\ idle[i] \notin accounts_pro["voted"]
  BY <1>2, PoolAssumption DEF NotVoted
<1>5. SessionInv'
  BY <1>1, <1>2, <1>4
  DEF SessionInv, Lookup, Holding, Unanswered, OwnTypeOK, PoolTypeOK, taskVars
<1>6. Unvoted'
  BY <1>1, <1>2, <1>4 DEF Unvoted, Lookup, Unanswered, OwnTypeOK, PoolTypeOK
<1> QED
  BY <1>1, <1>3, <1>5, <1>6 DEF OwnInv

LEMMA TakeAccountInv ==
  ASSUME VoteInv, NEW d \in Devices, TakeAccount(d)
  PROVE  (TakeValid(Session(d)) \/ TakeDangling(Session(d))) /\ OwnInv'
<1> DEFINE h == Session(d)
<1> USE TypeOKParts, SessionsAreHolders DEF VoteInv
<1>1. /\ TakeValid(h) \/ TakeDangling(h)
      /\ pc[d] = "found" /\ pc' = [pc EXCEPT ![d] = "wait"]
      /\ UNCHANGED <<deviceVars, taskVars, sock, envVars>>
  BY DEF TakeAccount, Goto
<1>2. OwnTypeOK'
  BY <1>1 DEF OwnTypeOK, DeviceTypeOK, Locations, deviceVars, taskVars, envVars
<1>3. /\ itor' = [itor EXCEPT ![h] = NoAccount]
      /\ accounts_pro' = accounts_pro
      /\ \E a \in Accounts :
            /\ held' = [held EXCEPT ![h] = a]
            /\ ~ub' => /\ h \notin dangling /\ a = itor[h]
                       /\ dangling' = (dangling \cup Sharing(h, a)) \ {h}
  <2>1. CASE TakeValid(h)
    <3>1. PICK i \in DOMAIN idle : idle[i] = itor[h] /\ TakeEntry(h, i)
      BY <2>1 DEF TakeValid, First
    <3>2. idle[i] \in Accounts
      BY LenProperties DEF PoolTypeOK
    <3> QED BY <2>1, <3>1, <3>2 DEF TakeValid, TakeEntry
  <2>2. CASE TakeDangling(h)
    <3>1. itor[h] \in Accounts
      BY <2>2 DEF TakeDangling, PoolTypeOK
    <3>2. \A i \in DOMAIN idle : idle[i] \in Accounts
      BY LenProperties DEF PoolTypeOK
    <3> QED BY <2>2, <3>1, <3>2 DEF TakeDangling, TakeEntry
  <2> QED BY <1>1, <2>1, <2>2
<1>4. PICK a \in Accounts :
        /\ held' = [held EXCEPT ![h] = a]
        /\ ~ub' => /\ h \notin dangling /\ a = itor[h]
                   /\ dangling' = (dangling \cup Sharing(h, a)) \ {h}
  BY <1>3
<1>5. SessionInv'
  BY <1>1, <1>3, <1>4, PoolAssumption
  DEF SessionInv, Holding, Unanswered, OwnTypeOK, PoolTypeOK, taskVars
<1>6. ~ub' => ~ub
  BY <1>1 DEF TakeValid, TakeDangling
<1>7. Unvoted'
  BY <1>1, <1>3, <1>4, <1>6 DEF Unvoted, Unanswered, OwnTypeOK, PoolTypeOK
<1> QED
  BY <1>1, <1>2, <1>5, <1>7 DEF OwnInv

\* Only this session's account becomes voted: it is listed nowhere else and
\* no other session has it.
LEMMA ReplySuccessInv ==
  ASSUME VoteInv, NEW d \in Devices, ReplySuccess(d)
  PROVE  /\ held[Session(d)] \in Accounts
         /\ SetFlag("voted", held[Session(d)])
         /\ OwnInv'
<1> DEFINE a == held[Session(d)]
<1> USE TypeOKParts, SessionsAreHolders DEF VoteInv
<1>1. /\ SetFlag("voted", a)
      /\ pc[d] = "read" /\ pc' = [pc EXCEPT ![d] = "voted"]
      /\ Cast(a) \/ Uncast
      /\ UNCHANGED <<deviceVars, taskVars, sock, votedBefore, refusals, restarts>>
  BY DEF ReplySuccess, Goto
<1>2. a \in Accounts
  BY <1>1 DEF SessionInv, Holding, Unanswered, PoolTypeOK
<1>3. OwnTypeOK'
  <2>1. ballots' \in [Accounts -> 0..2]
    BY <1>1, <1>2 DEF OwnTypeOK, Cast, Uncast
  <2> QED
    BY <1>1, <2>1 DEF OwnTypeOK, DeviceTypeOK, Locations, deviceVars, taskVars
<1>4. SessionInv'
  BY <1>1 DEF SessionInv, SetFlag, Holding, Unanswered, OwnTypeOK, taskVars
<1>5. ASSUME ~ub, NEW e \in Devices
      PROVE  /\ pc'[e] = "found" /\ Session(e) \notin dangling =>
                   itor[Session(e)] \notin accounts_pro["voted"] \cup {a}
             /\ pc'[e] \in Unanswered =>
                   held[Session(e)] \notin accounts_pro["voted"] \cup {a}
  <2>1. CASE e = d
    BY <1>1, <2>1 DEF OwnTypeOK, Unanswered
  <2>2. CASE e # d
    <3>1. pc'[e] = pc[e]
      BY <1>1, <2>2 DEF OwnTypeOK
    <3>2. pc[e] = "found" /\ Session(e) \notin dangling => itor[Session(e)] # a
      BY <1>2, <1>5, PoolAssumption
      DEF PoolInv, IteratorsValid, ExclusiveCheckout, SessionInv
    <3>3. pc[e] \in Unanswered => held[Session(e)] # a
      BY <1>2, <1>5, <2>2, PoolAssumption DEF PoolInv, ExclusiveCheckout
    <3> QED BY <1>5, <3>1, <3>2, <3>3 DEF Unvoted
  <2> QED BY <2>1, <2>2
<1>6. accounts_pro'["voted"] = accounts_pro["voted"] \cup {a}
  BY <1>1 DEF SetFlag, PoolTypeOK, Flags
<1>7. Unvoted'
  BY <1>1, <1>5, <1>6 DEF Unvoted, SetFlag
<1> QED
  BY <1>1, <1>2, <1>3, <1>4, <1>7 DEF OwnInv

LEMMA ReplyAbnormalInv ==
  ASSUME VoteInv, NEW d \in Devices, ReplyAbnormal(d)
  PROVE  /\ held[Session(d)] \in Accounts
         /\ SetFlag("abnormal", held[Session(d)])
         /\ OwnInv'
<1> DEFINE a == held[Session(d)]
<1> USE TypeOKParts, SessionsAreHolders DEF VoteInv
<1>1. /\ SetFlag("abnormal", a)
      /\ pc[d] = "read" /\ pc' = [pc EXCEPT ![d] = "settle"]
      /\ Cast(a) \/ Uncast
      /\ UNCHANGED <<deviceVars, taskVars, sock, votedBefore, refusals, restarts>>
  BY DEF ReplyAbnormal, Goto
<1>2. a \in Accounts
  BY <1>1 DEF SessionInv, Holding, Unanswered, PoolTypeOK
<1>3. OwnTypeOK'
  <2>1. ballots' \in [Accounts -> 0..2]
    BY <1>1, <1>2 DEF OwnTypeOK, Cast, Uncast
  <2> QED
    BY <1>1, <2>1 DEF OwnTypeOK, DeviceTypeOK, Locations, deviceVars, taskVars
<1>4. SessionInv'
  BY <1>1 DEF SessionInv, SetFlag, Holding, Unanswered, OwnTypeOK, taskVars
<1>5. accounts_pro'["voted"] = accounts_pro["voted"]
  BY <1>1 DEF SetFlag, PoolTypeOK, Flags
<1>6. Unvoted'
  BY <1>1, <1>5 DEF Unvoted, SetFlag, OwnTypeOK, Unanswered
<1> QED
  BY <1>1, <1>2, <1>3, <1>4, <1>6 DEF OwnInv

LEMMA SetIdleAccountInv ==
  ASSUME VoteInv, NEW d \in Devices, SetIdleAccount(d)
  PROVE  SetIdle(Session(d)) /\ OwnInv'
<1> USE TypeOKParts, SessionsAreHolders DEF VoteInv
<1>1. /\ SetIdle(Session(d))
      /\ pc[d] = "settle" /\ pc' = [pc EXCEPT ![d] = "end"]
      /\ UNCHANGED <<deviceVars, taskVars, sock, envVars>>
  BY DEF SetIdleAccount, Goto
<1>2. OwnTypeOK'
  BY <1>1 DEF OwnTypeOK, DeviceTypeOK, Locations, deviceVars, taskVars, envVars
<1>3. SessionInv'
  BY <1>1 DEF SessionInv, SetIdle, Holding, Unanswered, OwnTypeOK, PoolTypeOK, taskVars
<1>4. Unvoted'
  BY <1>1 DEF Unvoted, SetIdle, OwnTypeOK, PoolTypeOK, Unanswered
<1> QED
  BY <1>1, <1>2, <1>3, <1>4 DEF OwnInv

\* The ways out of a session's iteration that keep the account.
ForgetStep(d) == NeedVote(d) \/ SendCommands(d) \/ ReplyGarbled(d) \/ ReadFailed(d)

LEMMA ForgetStepInv ==
  ASSUME VoteInv, NEW d \in Devices, ForgetStep(d)
  PROVE  (Forget(Session(d)) \/ UNCHANGED poolVars) /\ OwnInv'
<1> USE TypeOKParts, SessionsAreHolders DEF VoteInv
<1>1. OwnTypeOK'
  <2> USE DEF OwnTypeOK, DeviceTypeOK, Goto, SetStatus, Statuses, Locations,
              taskVars, deviceVars, envVars
  <2>1. CASE NeedVote(d) BY <2>1 DEF NeedVote
  <2>2. CASE SendCommands(d) BY <2>2 DEF SendCommands
  <2>3. CASE ReplyGarbled(d) BY <2>3 DEF ReplyGarbled, Cast, Uncast
  <2>4. CASE ReadFailed(d) BY <2>4 DEF ReadFailed, Cast, Uncast
  <2> QED BY <2>1, <2>2, <2>3, <2>4 DEF ForgetStep
<1>2. /\ \A e \in Devices \ {d} : pc'[e] = pc[e]
      /\ pc[d] \in Unanswered /\ phase' = phase
      /\ \/ UNCHANGED poolVars /\ pc'[d] \in Unanswered
         \/ Forget(Session(d)) /\ pc'[d] \in {"finish", "loop", "end"}
  <2> USE DEF OwnTypeOK, Goto, Unanswered, taskVars
  <2>1. CASE NeedVote(d) BY <2>1 DEF NeedVote
  <2>2. CASE SendCommands(d) BY <2>2 DEF SendCommands
  <2>3. CASE ReplyGarbled(d) BY <2>3 DEF ReplyGarbled
  <2>4. CASE ReadFailed(d) BY <2>4 DEF ReadFailed
  <2> QED BY <2>1, <2>2, <2>3, <2>4 DEF ForgetStep
<1>3. SessionInv' /\ Unvoted'
  <2>1. CASE UNCHANGED poolVars /\ pc'[d] \in Unanswered
    BY <1>2, <2>1 DEF SessionInv, Unvoted, Holding, Unanswered, poolVars
  <2>2. CASE Forget(Session(d)) /\ pc'[d] \in {"finish", "loop", "end"}
    BY <1>2, <2>2 DEF SessionInv, Unvoted, Forget, Holding, Unanswered, PoolTypeOK
  <2> QED BY <1>2, <2>1, <2>2
<1> QED
  BY <1>1, <1>2, <1>3 DEF OwnInv

\* Phones come and go whatever the sessions do.
LEMMA PhoneStepInv ==
  ASSUME VoteInv, NEW d \in Devices, PhoneConnects(d) \/ PhoneLeaves(d)
  PROVE  UNCHANGED poolVars /\ OwnInv'
<1> USE TypeOKParts
    DEF VoteInv, PhoneConnects, PhoneLeaves, PhoneStart, PhoneStop, SetStatus
<1>1. UNCHANGED <<poolVars, taskVars, sessionVars, envVars>>
  OBVIOUS
<1>2. OwnTypeOK'
  BY DEF OwnTypeOK, DeviceTypeOK, Statuses, taskVars, sessionVars, envVars
<1>3. SessionInv' /\ Unvoted'
  BY <1>1 DEF SessionInv, Unvoted, poolVars, taskVars, sessionVars
<1> QED
  BY <1>1, <1>2, <1>3 DEF OwnInv

LEMMA RestartInv ==
  ASSUME VoteInv, Restart
  PROVE  Load /\ OwnInv'
<1> USE TypeOKParts, SessionsAreHolders DEF VoteInv, Restart
<1>1. Load
  OBVIOUS
<1>2. OwnTypeOK'
  BY VoteAssumption
  DEF OwnTypeOK, DeviceTypeOK, PoolTypeOK, Statuses, Locations, NoResult, Flags
<1>3. SessionInv' /\ Unvoted'
  BY DEF SessionInv, Unvoted, Load, Holding, Unanswered
<1> QED
  BY <1>1, <1>2, <1>3 DEF OwnInv

-----------------------------------------------------------------------------
\* Every step is a step of the pool or leaves the pool alone.
LEMMA StepUsesPool ==
  ASSUME VoteInv, [Next]_vars
  PROVE  [PoolNext]_poolVars /\ OwnInv'
<1>1. CASE Task
  BY <1>1, TaskStep
<1>2. ASSUME NEW d \in Devices, SessionStep(d)
      PROVE  [PoolNext]_poolVars /\ OwnInv'
  <2> USE SessionsAreHolders
  <2>1. CASE QuietStep(d)
    BY <2>1, QuietStepInv
  <2>2. CASE FindAccount(d)
    BY <2>2, FindAccountInv DEF PoolNext
  <2>3. CASE TakeAccount(d)
    BY <2>3, TakeAccountInv DEF PoolNext
  <2>4. CASE ReplySuccess(d)
    BY <2>4, ReplySuccessInv DEF PoolNext, Flags
  <2>5. CASE ReplyAbnormal(d)
    BY <2>5, ReplyAbnormalInv DEF PoolNext, Flags
  <2>6. CASE SetIdleAccount(d)
    BY <2>6, SetIdleAccountInv DEF PoolNext
  <2>7. CASE ForgetStep(d)
    BY <2>7, ForgetStepInv DEF PoolNext
  <2> QED
    BY <1>2, <2>1, <2>2, <2>3, <2>4, <2>5, <2>6, <2>7
    DEF SessionStep, HandleRead, QuietStep, ForgetStep
<1>3. ASSUME NEW d \in Devices, PhoneConnects(d) \/ PhoneLeaves(d)
      PROVE  [PoolNext]_poolVars /\ OwnInv'
  BY <1>3, PhoneStepInv
<1>4. CASE Restart
  BY <1>4, RestartInv DEF PoolNext
<1>5. CASE UNCHANGED vars
  BY <1>5 DEF vars, poolVars, deviceVars, taskVars, sessionVars, envVars, VoteInv,
              TypeOK, OwnInv, OwnTypeOK, DeviceTypeOK, SessionInv, Unvoted
<1> QED
  BY <1>1, <1>2, <1>3, <1>4, <1>5 DEF Next

\* Each session has what its place in the code says, and the account of a vote
\* that is not cast yet is unvoted and with nobody else.
THEOREM VoteInvariant == Spec => []VoteInv
<1>1. Init => VoteInv
  BY OwnInitInv, PoolInitInv, TypeOKParts DEF Init, VoteInv, OwnInv, PoolInv
<1>2. VoteInv /\ [Next]_vars => VoteInv'
  <2> SUFFICES ASSUME VoteInv, [Next]_vars PROVE VoteInv'
    OBVIOUS
  <2>1. [PoolNext]_poolVars /\ OwnInv'
    BY StepUsesPool
  <2>2. PoolInv'
    BY <2>1, PoolStepInv DEF VoteInv
  <2> QED
    BY <2>1, <2>2 DEF VoteInv, OwnInv, TypeOK, OwnTypeOK, PoolInv
<1> QED
  BY <1>1, <1>2, PTL DEF Spec

\* The sessions of a vote task use the pool as AccountPool says.
THEOREM VoteTaskImplementsPool == Spec => ImplementsPool
<1>1. Init => PoolInit
  BY DEF Init
<1>2. VoteInv /\ [Next]_vars => [PoolNext]_poolVars
  BY StepUsesPool
<1> QED
  BY <1>1, <1>2, VoteInvariant, PTL DEF Spec, ImplementsPool, PoolSpec

\* So no account votes from two phones at a time before a dangling erase.
THEOREM VoteExclusive == Spec => []ExclusiveCheckout
BY VoteTaskImplementsPool, PoolExclusive, PTL DEF ImplementsPool

-----------------------------------------------------------------------------
\* What the sessions do to statuses and to the counter on their way.  A session
\* alone on its task has not reached the target when it is about to vote, nor
\* while its phone is marked and no answer has been read.
LoneSession(d) == pc[d] # "none" /\ \A e \in Devices \ {d} : pc[e] = "none"

Short(d) ==
  /\ success <= target
  /\ pc[d] \in {"mark", "read", "voted"} => success < target
  /\ pc[d] \in {"loop", "found", "wait", "need"} /\ status[d] = "WX_VOTING"
        => success < target

\* No vote is counted outside the sessions' time, where none is marked voting.
StatusInv ==
  /\ VotingBelongsToSession
  /\ phase # "join" => success = 0
  /\ phase = "join" => \A d \in Devices : LoneSession(d) => Short(d)

LEMMA LoneVoting ==
  ASSUME VotingBelongsToSession, NEW d \in Devices, LoneSession(d)
  PROVE  Voting = IF status[d] = "WX_VOTING" THEN 1 ELSE 0
<1> DEFINE Marked == {e \in Devices : status[e] = "WX_VOTING"}
<1>1. Voting = Cardinality(Marked)
  BY DEF Voting, GetStatusCount
<1>2. Marked = IF status[d] = "WX_VOTING" THEN {d} ELSE {}
  BY DEF VotingBelongsToSession, LoneSession
<1> QED
  BY <1>1, <1>2, FS_Singleton, FS_EmptySet

\* The task's thread: its sessions begin with no phone marked and no vote
\* counted, and are joined when each has left its phone.
LEMMA TaskStatus ==
  ASSUME VoteInv, StatusInv, Task
  PROVE  StatusInv'
<1> USE TypeOKParts DEF VoteInv, OwnTypeOK, SessionInv, StatusInv
<1>1. ASSUME NEW t \in Targets, StartTask(t) PROVE StatusInv'
  BY <1>1 DEF StartTask, VotingBelongsToSession, deviceVars, sessionVars
<1>2. CASE SpawnSessions
  <2>1. VotingBelongsToSession'
    BY <1>2 DEF SpawnSessions, VotingBelongsToSession, deviceVars
  <2>2. phase' = "join" /\ success' = 0 /\ target' \in Nat
    BY <1>2 DEF SpawnSessions
  <2>3. \A d \in Devices : pc'[d] \in {"start", "none"}
    BY <1>2 DEF SpawnSessions
  <2> QED
    BY <2>1, <2>2, <2>3 DEF Short
<1>3. CASE JoinSessions
  BY <1>3 DEF JoinSessions, Live, VotingBelongsToSession, deviceVars
<1> QED
  BY <1>1, <1>2, <1>3 DEF Task

\* A session changes its own place and its own phone's status only.
LEMMA SessionFrame ==
  ASSUME VoteInv, NEW d \in Devices, SessionStep(d)
  PROVE  /\ phase = "join" /\ phase' = phase /\ target' = target
         /\ pc[d] # "none" /\ pc'[d] # "none"
         /\ \A e \in Devices \ {d} : pc'[e] = pc[e] /\ status'[e] = status[e]
<1> USE TypeOKParts
    DEF VoteInv, OwnTypeOK, DeviceTypeOK, SessionInv, Goto, SetStatus,
        taskVars, deviceVars
<1>1. CASE FindConnection(d) BY <1>1 DEF FindConnection
<1>2. CASE Connect(d) BY <1>2 DEF Connect
<1>3. CASE RestartTimeout(d) BY <1>3 DEF RestartTimeout
<1>4. CASE Finish(d) BY <1>4 DEF Finish
<1>5. CASE FindAccount(d) BY <1>5 DEF FindAccount
<1>6. CASE NoAccountLeft(d) BY <1>6 DEF NoAccountLeft
<1>7. CASE TakeAccount(d) BY <1>7 DEF TakeAccount
<1>8. CASE NeedWaitVote(d) BY <1>8 DEF NeedWaitVote
<1>9. CASE NeedVote(d) BY <1>9 DEF NeedVote
<1>10. CASE SendCommands(d) BY <1>10 DEF SendCommands
<1>11. CASE ReplySuccess(d) BY <1>11 DEF ReplySuccess
<1>12. CASE ReplyAbnormal(d) BY <1>12 DEF ReplyAbnormal
<1>13. CASE ReplyRefused(d) BY <1>13 DEF ReplyRefused
<1>14. CASE ReplyGarbled(d) BY <1>14 DEF ReplyGarbled
<1>15. CASE ReadFailed(d) BY <1>15 DEF ReadFailed
<1>16. CASE OnReadTimeout(d) BY <1>16 DEF OnReadTimeout
<1>17. CASE AddSucCount(d) BY <1>17 DEF AddSucCount
<1>18. CASE SetIdleAccount(d) BY <1>18 DEF SetIdleAccount
<1>19. CASE VoteEnd(d) BY <1>19 DEF VoteEnd
<1> QED
  BY <1>1, <1>2, <1>3, <1>4, <1>5, <1>6, <1>7, <1>8, <1>9, <1>10, <1>11, <1>12,
     <1>13, <1>14, <1>15, <1>16, <1>17, <1>18, <1>19 DEF SessionStep, HandleRead

\* It sets its phone to WX_VOTING after the target was looked at, and to another
\* status before it ends.
LEMMA SessionMarks ==
  ASSUME VoteInv, StatusInv, NEW d \in Devices, SessionStep(d)
  PROVE  /\ status'[d] = "WX_VOTING" => pc'[d] \notin {"none", "start", "restart", "done"}
         /\ LoneSession(d) => Short(d)'
<1>1. LoneSession(d) => Voting = IF status[d] = "WX_VOTING" THEN 1 ELSE 0
  BY LoneVoting DEF StatusInv
<1>2. status[d] = "WX_VOTING" => pc[d] \notin {"none", "start", "restart", "done"}
  BY DEF StatusInv, VotingBelongsToSession
<1>3. LoneSession(d) => Short(d)
  BY SessionFrame DEF StatusInv
<1> USE <1>2, <1>3, TypeOKParts
    DEF VoteInv, OwnTypeOK, DeviceTypeOK, Goto, SetStatus, Short, taskVars, deviceVars
<1>4. CASE FindConnection(d) BY <1>4 DEF FindConnection
<1>5. CASE Connect(d) BY <1>5 DEF Connect
<1>6. CASE RestartTimeout(d) BY <1>6 DEF RestartTimeout
<1>7. CASE Finish(d) BY <1>7 DEF Finish
<1>8. CASE FindAccount(d) BY <1>8 DEF FindAccount
<1>9. CASE NoAccountLeft(d) BY <1>9 DEF NoAccountLeft
<1>10. CASE TakeAccount(d) BY <1>10 DEF TakeAccount
<1>11. CASE NeedWaitVote(d) BY <1>1, <1>11 DEF NeedWaitVote, NeedWait
<1>12. CASE NeedVote(d) BY <1>12 DEF NeedVote
<1>13. CASE SendCommands(d) BY <1>13 DEF SendCommands
<1>14. CASE ReplySuccess(d) BY <1>14 DEF ReplySuccess
<1>15. CASE ReplyAbnormal(d) BY <1>15 DEF ReplyAbnormal
<1>16. CASE ReplyRefused(d) BY <1>16 DEF ReplyRefused
<1>17. CASE ReplyGarbled(d) BY <1>17 DEF ReplyGarbled
<1>18. CASE ReadFailed(d) BY <1>18 DEF ReadFailed
<1>19. CASE OnReadTimeout(d) BY <1>19 DEF OnReadTimeout
<1>20. CASE AddSucCount(d) BY <1>20 DEF AddSucCount
<1>21. CASE SetIdleAccount(d) BY <1>21 DEF SetIdleAccount
<1>22. CASE VoteEnd(d) BY <1>22 DEF VoteEnd
<1> QED
  BY <1>4, <1>5, <1>6, <1>7, <1>8, <1>9, <1>10, <1>11, <1>12, <1>13, <1>14, <1>15,
     <1>16, <1>17, <1>18, <1>19, <1>20, <1>21, <1>22 DEF SessionStep, HandleRead

LEMMA StatusStep ==
  ASSUME VoteInv, StatusInv, [Next]_vars
  PROVE  StatusInv'
<1>1. ASSUME NEW d \in Devices, SessionStep(d) PROVE StatusInv'
  <2>1. VotingBelongsToSession'
    BY <1>1, SessionFrame, SessionMarks DEF StatusInv, VotingBelongsToSession
  <2>2. ASSUME NEW e \in Devices, LoneSession(e)' PROVE e = d /\ LoneSession(d)
    BY <1>1, <2>2, SessionFrame DEF LoneSession
  <2> QED
    BY <1>1, <2>1, <2>2, SessionFrame, SessionMarks DEF StatusInv
<1>2. ASSUME NEW d \in Devices, PhoneConnects(d) \/ PhoneLeaves(d) PROVE StatusInv'
  <2>1. /\ \A e \in Devices : status'[e] = "WX_VOTING" => status[e] = "WX_VOTING"
        /\ UNCHANGED <<phase, target, success, pc>>
    BY <1>2, TypeOKParts
    DEF PhoneConnects, PhoneLeaves, PhoneStart, PhoneStop, SetStatus, taskVars,
        sessionVars, VoteInv, OwnTypeOK, DeviceTypeOK
  <2> QED
    BY <2>1 DEF StatusInv, VotingBelongsToSession, LoneSession, Short
<1>3. CASE Restart
  BY <1>3 DEF Restart, StatusInv, VotingBelongsToSession
<1>4. CASE UNCHANGED vars
  BY <1>4 DEF vars, deviceVars, taskVars, sessionVars, StatusInv,
              VotingBelongsToSession, LoneSession, Short
<1> QED
  BY <1>1, <1>2, <1>3, <1>4, TaskStatus DEF Next

LEMMA StatusInvariant == Spec => []StatusInv
<1>1. Init => StatusInv
  BY DEF Init, DeviceInit, StatusInv, VotingBelongsToSession
<1> QED
  BY <1>1, StatusStep, VoteInvariant, PTL DEF Spec

\* No phone is left marked as voting by a session that is over: the marks that
\* need_wait_vote counts are those of sessions that still run.
THEOREM MarksHaveSessions == Spec => []VotingBelongsToSession
<1>1. StatusInv => VotingBelongsToSession
  BY DEF StatusInv
<1> QED
  BY <1>1, StatusInvariant, PTL

LEMMA StandstillFromInv ==
  ASSUME VoteInv, StatusInv
  PROVE  StandstillHasStaleMark
<1> DEFINE Marked == {d \in Devices : status[d] = "WX_VOTING"}
<1> SUFFICES ASSUME Standstill
             PROVE  \E d \in Devices : pc[d] \in {"wait", "need"} /\ status[d] = "WX_VOTING"
  BY DEF StandstillHasStaleMark
<1>1. Marked # {}
  <2> SUFFICES ASSUME Marked = {} PROVE FALSE
    OBVIOUS
  <2>1. Voting = 0
    BY FS_EmptySet DEF Voting, GetStatusCount
  <2> QED
    BY <2>1, TypeOKParts DEF Standstill, NeedWait, VoteInv, OwnTypeOK
<1>2. PICK d \in Devices : status[d] = "WX_VOTING"
  BY <1>1
<1>3. pc[d] \in {"wait", "need"}
  BY <1>2 DEF StatusInv, VotingBelongsToSession, Standstill, Live
<1> QED
  BY <1>2, <1>3

\* A task whose sessions all poll waits for marks, and each mark is a polling
\* session's own: nothing but a failed write of its own can hold it up.
THEOREM StandstillIsOwnMark == Spec => []StandstillHasStaleMark
<1>1. VoteInv /\ StatusInv => StandstillHasStaleMark
  BY StandstillFromInv
<1> QED
  BY <1>1, VoteInvariant, StatusInvariant, PTL

LEMMA LoneTargetFromInv ==
  ASSUME StatusInv
  PROVE  OnePhoneMeetsTarget
<1> DEFINE Begun == {d \in Devices : pc[d] # "none"}
<1> SUFFICES ASSUME phase = "join", Cardinality(Begun) = 1 PROVE success <= target
  BY DEF OnePhoneMeetsTarget
<1>1. IsFiniteSet(Begun)
  BY FS_Subset, VoteAssumption
<1>2. PICK d : Begun = {d}
  BY <1>1, FS_Singleton
<1>3. d \in Devices /\ LoneSession(d)
  BY <1>2 DEF LoneSession
<1> QED
  BY <1>3 DEF StatusInv, Short

\* A task with one session never counts more votes than it was asked for.
THEOREM LoneSessionMeetsTarget == Spec => []OnePhoneMeetsTarget
<1>1. StatusInv => OnePhoneMeetsTarget
  BY LoneTargetFromInv
<1> QED
  BY <1>1, StatusInvariant, PTL

-----------------------------------------------------------------------------
\* The database is not ahead of memory: each step of the pool that sets the
\* mark in the table sets it in memory, and a restart takes it from the table.
LEMMA PoolKeepsDbBehind ==
  ASSUME PoolTypeOK, DbBehindMemory, [PoolNext]_poolVars
  PROVE  DbBehindMemory'
<1> USE DEF PoolTypeOK, Flags, DbBehindMemory
<1>1. ASSUME UNCHANGED <<accounts_pro, table>> PROVE DbBehindMemory'
  BY <1>1
<1>2. ASSUME NEW h \in Holders PROVE
        /\ (\E E \in {NotVoted, NotDaily} : Lookup(h, E)) => DbBehindMemory'
        /\ TakeValid(h) \/ TakeDangling(h) \/ SetIdle(h) \/ Forget(h) => DbBehindMemory'
  BY <1>1 DEF Lookup, TakeValid, TakeDangling, SetIdle, Forget
<1>3. ASSUME NEW f \in Flags, NEW a \in Accounts, SetFlag(f, a) PROVE DbBehindMemory'
  BY <1>3 DEF SetFlag
<1>4. ASSUME NEW a \in Accounts, ResetDaily(a) PROVE DbBehindMemory'
  BY <1>4 DEF ResetDaily
<1>5. CASE Load
  BY <1>5 DEF Load
<1>6. CASE UNCHANGED poolVars
  BY <1>6 DEF poolVars
<1> QED
  BY <1>2, <1>3, <1>4, <1>5, <1>6 DEF PoolNext

\* A restart may forget votes whose statement failed and makes none up.
THEOREM DatabaseIsBehind == Spec => []DbBehindMemory
<1>1. Init => DbBehindMemory
  BY DEF Init, PoolInit, DbBehindMemory
<1>2. VoteInv /\ DbBehindMemory /\ [Next]_vars => DbBehindMemory'
  BY StepUsesPool, PoolKeepsDbBehind DEF VoteInv, PoolInv
<1> QED
  BY <1>1, <1>2, VoteInvariant, PTL DEF Spec

-----------------------------------------------------------------------------
\* The count a vote task reports is the number of accounts it marked voted, and
\* each of these has cast one ballot.
CountInv == votedBefore \subseteq accounts_pro["voted"] /\ VotesCounted

LEMMA CountedSetsFinite ==
  ASSUME VoteInv
  PROVE  /\ IsFiniteSet(NewlyVoted) /\ Cardinality(NewlyVoted) \in Nat
         /\ IsFiniteSet(Uncounted) /\ Cardinality(Uncounted) \in Nat
<1>1. accounts_pro["voted"] \subseteq Accounts
  BY DEF VoteInv, TypeOK, PoolTypeOK, Flags
<1>2. NewlyVoted \subseteq Accounts /\ Uncounted \subseteq Devices
  BY <1>1 DEF NewlyVoted, Uncounted
<1> QED
  BY <1>2, PoolAssumption, VoteAssumption, FS_Subset, FS_CardinalityType

\* A step that neither marks nor counts a vote.
NotCounting ==
  /\ Uncounted' = Uncounted
  /\ UNCHANGED <<success, phase, result, votedBefore, restarts>>
  /\ accounts_pro'["voted"] = accounts_pro["voted"]
  /\ ub \in BOOLEAN /\ ub' \in {ub, TRUE}

LEMMA NotCountingInv ==
  ASSUME CountInv, NotCounting
  PROVE  CountInv'
BY DEF CountInv, NotCounting, VotesCounted, NewlyVoted

LEMMA PoolStepsKeepVotes ==
  ASSUME PoolTypeOK, NEW h \in Holders, NEW E,
         \/ Lookup(h, E) \/ TakeValid(h) \/ TakeDangling(h) \/ SetIdle(h)
         \/ Forget(h) \/ UNCHANGED poolVars
         \/ \E a \in Accounts : SetFlag("abnormal", a)
  PROVE  /\ accounts_pro'["voted"] = accounts_pro["voted"]
         /\ ub \in BOOLEAN /\ ub' \in {ub, TRUE}
BY DEF PoolTypeOK, Lookup, TakeValid, TakeDangling, SetIdle, Forget, SetFlag,
       Flags, poolVars

LEMMA SessionNotCounting ==
  ASSUME VoteInv, NEW d \in Devices, SessionStep(d),
         ~ReplySuccess(d), ~AddSucCount(d)
  PROVE  NotCounting
<1> USE TypeOKParts, SessionsAreHolders DEF VoteInv
<1>1. /\ accounts_pro'["voted"] = accounts_pro["voted"]
      /\ ub \in BOOLEAN /\ ub' \in {ub, TRUE}
  <2>1. CASE QuietStep(d)
    BY <2>1, QuietMoves, PoolStepsKeepVotes
  <2>2. CASE ~QuietStep(d)
    BY <2>2, FindAccountInv, TakeAccountInv, ReplyAbnormalInv, SetIdleAccountInv,
       ForgetStepInv, PoolStepsKeepVotes
    DEF SessionStep, HandleRead, QuietStep, ForgetStep
  <2> QED BY <2>1, <2>2
<1>2. /\ UNCHANGED <<success, phase, result, votedBefore, restarts>>
      /\ \A e \in Devices \ {d} : pc'[e] = pc[e]
      /\ pc[d] # "voted" /\ pc'[d] # "voted"
  <2> USE DEF OwnTypeOK, Goto, taskVars, envVars
  <2>1. CASE FindConnection(d) BY <2>1 DEF FindConnection
  <2>2. CASE Connect(d) BY <2>2 DEF Connect
  <2>3. CASE RestartTimeout(d) BY <2>3 DEF RestartTimeout
  <2>4. CASE Finish(d) BY <2>4 DEF Finish
  <2>5. CASE FindAccount(d) BY <2>5 DEF FindAccount
  <2>6. CASE NoAccountLeft(d) BY <2>6 DEF NoAccountLeft
  <2>7. CASE TakeAccount(d) BY <2>7 DEF TakeAccount
  <2>8. CASE NeedWaitVote(d) BY <2>8 DEF NeedWaitVote
  <2>9. CASE NeedVote(d) BY <2>9 DEF NeedVote
  <2>10. CASE SendCommands(d) BY <2>10 DEF SendCommands
  <2>11. CASE ReplyAbnormal(d) BY <2>11 DEF ReplyAbnormal
  <2>12. CASE ReplyRefused(d) BY <2>12 DEF ReplyRefused
  <2>13. CASE ReplyGarbled(d) BY <2>13 DEF ReplyGarbled
  <2>14. CASE ReadFailed(d) BY <2>14 DEF ReadFailed
  <2>15. CASE OnReadTimeout(d) BY <2>15 DEF OnReadTimeout
  <2>16. CASE SetIdleAccount(d) BY <2>16 DEF SetIdleAccount
  <2>17. CASE VoteEnd(d) BY <2>17 DEF VoteEnd
  <2> QED
    BY <2>1, <2>2, <2>3, <2>4, <2>5, <2>6, <2>7, <2>8, <2>9, <2>10, <2>11, <2>12,
       <2>13, <2>14, <2>15, <2>16, <2>17
    DEF SessionStep, HandleRead
<1> QED
  BY <1>1, <1>2 DEF NotCounting, Uncounted

\* A mark and its session's way to "voted" go together.
LEMMA ReplySuccessCounted ==
  ASSUME VoteInv, CountInv, NEW d \in Devices, ReplySuccess(d)
  PROVE  CountInv'
<1> DEFINE a == held[Session(d)]
<1>1. /\ a \in Accounts
      /\ accounts_pro' = [accounts_pro EXCEPT !["voted"] = @ \cup {a}]
      /\ ub' = ub
  BY ReplySuccessInv DEF SetFlag
<1>2. accounts_pro'["voted"] = accounts_pro["voted"] \cup {a}
  BY <1>1 DEF VoteInv, TypeOK, PoolTypeOK, Flags
<1>3. /\ pc[d] = "read" /\ pc' = [pc EXCEPT ![d] = "voted"]
      /\ UNCHANGED <<success, phase, result, votedBefore>>
  BY DEF ReplySuccess, Goto, taskVars
<1>4. votedBefore' \subseteq accounts_pro'["voted"]
  BY <1>2, <1>3 DEF CountInv
<1>5. phase = "join"
  BY <1>3 DEF VoteInv, SessionInv
<1>6. ASSUME ~ub
      PROVE  success' + Cardinality(Uncounted)' = Cardinality(NewlyVoted)'
  <2>1. a \notin accounts_pro["voted"]
    BY <1>3, <1>6 DEF VoteInv, Unvoted, Unanswered
  <2>2. NewlyVoted' = NewlyVoted \cup {a} /\ a \notin NewlyVoted
    BY <1>2, <1>3, <2>1 DEF NewlyVoted, CountInv
  <2>3. Uncounted' = Uncounted \cup {d} /\ d \notin Uncounted
    BY <1>3 DEF Uncounted, VoteInv, TypeOK
  <2>4. /\ Cardinality(NewlyVoted)' = Cardinality(NewlyVoted) + 1
        /\ Cardinality(Uncounted)' = Cardinality(Uncounted) + 1
    BY <2>2, <2>3, CountedSetsFinite, FS_AddElement
  <2>5. success + Cardinality(Uncounted) = Cardinality(NewlyVoted)
    BY <1>5, <1>6 DEF CountInv, VotesCounted
  <2> QED
    BY <1>3, <2>4, <2>5, CountedSetsFinite DEF VoteInv, TypeOK
<1> QED
  BY <1>1, <1>3, <1>4, <1>5, <1>6 DEF CountInv, VotesCounted

LEMMA AddSucCountCounted ==
  ASSUME VoteInv, CountInv, NEW d \in Devices, AddSucCount(d)
  PROVE  CountInv'
<1>1. /\ pc[d] = "voted" /\ pc' = [pc EXCEPT ![d] = "settle"]
      /\ success' = success + 1
      /\ UNCHANGED <<phase, result, votedBefore, accounts_pro, ub>>
  BY DEF AddSucCount, Goto, poolVars, envVars
<1>2. phase = "join" /\ NewlyVoted' = NewlyVoted
  BY <1>1 DEF VoteInv, SessionInv, NewlyVoted
<1>3. Uncounted' = Uncounted \ {d} /\ d \in Uncounted
  BY <1>1 DEF Uncounted, VoteInv, TypeOK
<1>4. Cardinality(Uncounted)' = Cardinality(Uncounted) - 1
  BY <1>3, CountedSetsFinite, FS_RemoveElement
<1> QED
  BY <1>1, <1>2, <1>4, CountedSetsFinite DEF CountInv, VotesCounted, VoteInv, TypeOK

\* Without a session nothing is waiting to be counted.
LEMMA TaskCounted ==
  ASSUME VoteInv, CountInv, Task
  PROVE  CountInv'
<1>1. ub' = ub /\ accounts_pro' = accounts_pro
  BY TaskStep DEF poolVars
<1>2. ASSUME NEW t \in Targets, StartTask(t)
      PROVE  CountInv'
  <2>1. /\ phase = "none" /\ success' = 0 /\ pc' = pc
        /\ votedBefore' = accounts_pro["voted"]
        /\ phase' = "none" => result' = Result(-1, 0)
    BY <1>2 DEF StartTask, sessionVars
  <2>2. Uncounted' = {} /\ NewlyVoted' = {}
    BY <1>1, <2>1 DEF Uncounted, NewlyVoted, VoteInv, SessionInv
  <2> QED
    BY <1>1, <2>1, <2>2, FS_EmptySet DEF CountInv, VotesCounted, Result
<1>3. CASE SpawnSessions
  <2>1. /\ phase = "spawn" /\ phase' = "join" /\ Uncounted' = {}
        /\ UNCHANGED <<success, votedBefore>>
    BY <1>3 DEF SpawnSessions, Uncounted, envVars
  <2>2. Uncounted = {} /\ NewlyVoted' = NewlyVoted
    BY <1>1, <2>1 DEF Uncounted, NewlyVoted, VoteInv, SessionInv
  <2> QED
    BY <1>1, <2>1, <2>2 DEF CountInv, VotesCounted
<1>4. CASE JoinSessions
  <2>1. /\ phase = "join" /\ phase' = "none" /\ success' = 0
        /\ \A d \in Devices : pc[d] # "voted" /\ pc'[d] # "voted"
        /\ result' = Result(0, success) /\ votedBefore' = votedBefore
    BY <1>4 DEF JoinSessions, Live, envVars
  <2>2. Uncounted = {} /\ Uncounted' = {} /\ NewlyVoted' = NewlyVoted
    BY <1>1, <2>1 DEF Uncounted, NewlyVoted
  <2>3. Cardinality({}) = 0
    BY FS_EmptySet
  <2> QED
    BY <1>1, <2>1, <2>2, <2>3 DEF CountInv, VotesCounted, Result, VoteInv, TypeOK
<1> QED
  BY <1>2, <1>3, <1>4 DEF Task

LEMMA CountStep ==
  ASSUME VoteInv, CountInv, [Next]_vars
  PROVE  CountInv'
<1>1. CASE Task
  BY <1>1, TaskCounted
<1>2. ASSUME NEW d \in Devices, SessionStep(d)
      PROVE  CountInv'
  BY <1>2, ReplySuccessCounted, AddSucCountCounted, SessionNotCounting, NotCountingInv
<1>3. ASSUME NEW d \in Devices, PhoneConnects(d) \/ PhoneLeaves(d)
      PROVE  CountInv'
  <2>1. NotCounting
    BY <1>3 DEF PhoneConnects, PhoneLeaves, NotCounting, Uncounted, poolVars, taskVars,
               sessionVars, envVars, VoteInv, TypeOK, PoolTypeOK
  <2> QED BY <2>1, NotCountingInv
<1>4. CASE Restart
  <2>1. /\ phase' = "none" /\ success' = 0 /\ result' = NoResult
        /\ votedBefore' = accounts_pro'["voted"] /\ Uncounted' = {}
    BY <1>4 DEF Restart, Load, Uncounted
  <2>2. NewlyVoted' = {}
    BY <2>1 DEF NewlyVoted
  <2> QED
    BY <2>1, <2>2, FS_EmptySet DEF CountInv, VotesCounted, NoResult
<1>5. CASE UNCHANGED vars
  BY <1>5 DEF vars, poolVars, taskVars, sessionVars, envVars, CountInv, VotesCounted,
              Uncounted, NewlyVoted
<1> QED
  BY <1>1, <1>2, <1>3, <1>4, <1>5 DEF Next

\* The success count a task reports is the number of accounts it marked voted.
THEOREM VotesAreCounted == Spec => []VotesCounted
<1>1. Init => CountInv
  <2> SUFFICES ASSUME Init PROVE CountInv
    OBVIOUS
  <2>1. Uncounted = {} /\ NewlyVoted = {}
    BY DEF Init, PoolInit, Uncounted, NewlyVoted
  <2> QED
    BY <2>1, FS_EmptySet DEF Init, PoolInit, CountInv, VotesCounted, NoResult
<1>2. VoteInv /\ CountInv /\ [Next]_vars => CountInv'
  BY CountStep
<1>3. CountInv => VotesCounted
  BY DEF CountInv
<1> QED
  BY <1>1, <1>2, <1>3, VoteInvariant, PTL DEF Spec

-----------------------------------------------------------------------------
\* An account that has cast a ballot is marked, or out of everybody's reach.
Spent(a) == a \notin IdleAccounts /\ \A h \in Holders : held[h] # a

BallotInv ==
  ~ub /\ restarts = 0 /\ Faults \cap {"logout", "stream"} = {} =>
     \A a \in Accounts : /\ ballots[a] <= 1
                         /\ ballots[a] = 1 => a \in accounts_pro["voted"] \/ Spent(a)

\* A step that casts no ballot and brings no spent account back.
NoBallot ==
  /\ UNCHANGED <<ballots, restarts>>
  /\ accounts_pro'["voted"] = accounts_pro["voted"]
  /\ ub \in BOOLEAN /\ ub' \in {ub, TRUE}
  /\ ~ub' => /\ IdleAccounts' \subseteq IdleAccounts \cup {held[h] : h \in Holders}
             /\ \A h \in Holders : held'[h] \in IdleAccounts \cup {held[h], NoAccount}

LEMMA NoBallotInv ==
  ASSUME BallotInv, NoBallot
  PROVE  BallotInv'
<1> SUFFICES ASSUME ~ub', restarts' = 0, Faults \cap {"logout", "stream"} = {}, NEW a \in Accounts
             PROVE  /\ ballots'[a] <= 1
                    /\ ballots'[a] = 1 => a \in accounts_pro'["voted"] \/ Spent(a)'
  BY DEF BallotInv
<1>1. /\ ballots[a] <= 1
      /\ ballots[a] = 1 => a \in accounts_pro["voted"] \/ Spent(a)
  BY DEF BallotInv, NoBallot
<1>2. Spent(a) => Spent(a)'
  BY PoolAssumption DEF NoBallot, Spent
<1> QED
  BY <1>1, <1>2 DEF NoBallot

\* What the pool's steps do to the accounts in reach.
LEMMA PoolStepsKeepSpent ==
  ASSUME PoolInv, NEW h \in Holders, NEW E,
         \/ Lookup(h, E) \/ TakeValid(h) \/ TakeDangling(h) \/ SetIdle(h)
         \/ Forget(h) \/ UNCHANGED poolVars
         \/ \E a \in Accounts : SetFlag("abnormal", a)
  PROVE  ~ub' => /\ IdleAccounts' \subseteq IdleAccounts \cup {held[g] : g \in Holders}
                 /\ \A g \in Holders : held'[g] \in IdleAccounts \cup {held[g], NoAccount}
<1> USE DEF PoolInv, PoolTypeOK
<1>1. CASE TakeValid(h)
  <2>1. PICK i \in DOMAIN idle :
           idle' = RemoveAt(idle, i) /\ held' = [held EXCEPT ![h] = idle[i]]
    BY <1>1 DEF TakeValid, TakeEntry
  <2>2. ASSUME ~ub
        PROVE  Listed(RemoveAt(idle, i)) = Listed(idle) \ {idle[i]}
    BY <2>2, TakenFromList DEF ExclusiveCheckout, NoRepeats
  <2> QED
    BY <1>1, <2>1, <2>2 DEF TakeValid, Listed, IdleAccounts
<1>2. CASE TakeDangling(h)
  BY <1>2 DEF TakeDangling
<1>3. CASE SetIdle(h)
  <2>1. /\ idle' = Append(idle, held[h]) /\ held[h] \in Accounts
        /\ held' = [held EXCEPT ![h] = NoAccount] /\ ub' = ub
    BY <1>3 DEF SetIdle
  <2>2. ASSUME ~ub
        PROVE  Listed(Append(idle, held[h])) = Listed(idle) \cup {held[h]}
    <3>1. NoRepeats(idle) /\ held[h] \notin Listed(idle)
      BY <2>2 DEF ExclusiveCheckout, NoRepeats, IdleAccounts, Listed
    <3> QED BY <2>1, <3>1, GivenToList
  <2> QED
    BY <2>1, <2>2 DEF Listed, IdleAccounts
<1>4. CASE \/ Lookup(h, E) \/ Forget(h) \/ UNCHANGED poolVars
           \/ \E a \in Accounts : SetFlag("abnormal", a)
  BY <1>4 DEF Lookup, Forget, SetFlag, poolVars, IdleAccounts
<1> QED
  BY <1>1, <1>2, <1>3, <1>4

\* The three answers with which a ballot may be cast.
Casting(d) == ReplySuccess(d) \/ ReplyGarbled(d) \/ ReadFailed(d)

LEMMA SessionNoBallot ==
  ASSUME VoteInv, NEW d \in Devices, SessionStep(d), ~Casting(d),
         Faults \cap {"logout", "stream"} = {}
  PROVE  NoBallot
<1> USE TypeOKParts, SessionsAreHolders DEF VoteInv
<1>1. \/ Lookup(Session(d), NotVoted) \/ TakeValid(Session(d))
      \/ TakeDangling(Session(d)) \/ SetIdle(Session(d))
      \/ Forget(Session(d)) \/ UNCHANGED poolVars
      \/ \E a \in Accounts : SetFlag("abnormal", a)
  <2>1. CASE QuietStep(d)
    BY <2>1, QuietMoves
  <2>2. CASE ~QuietStep(d)
    BY <2>2, FindAccountInv, TakeAccountInv, ReplyAbnormalInv, SetIdleAccountInv,
       ForgetStepInv
    DEF SessionStep, HandleRead, QuietStep, ForgetStep, Casting
  <2> QED BY <2>1, <2>2
<1>2. UNCHANGED <<ballots, restarts>>
  <2>1. Faults \cap {"logout", "stream"} = {} /\ "stream" \notin Faults
    OBVIOUS
  <2> QED
    BY <2>1
    DEF SessionStep, HandleRead, Casting, FindConnection, Connect, RestartTimeout,
        Finish, FindAccount, NoAccountLeft, TakeAccount, NeedWaitVote, NeedVote,
        SendCommands, AddSucCount, ReplyAbnormal, ReplyRefused, Uncast,
        SetIdleAccount, OnReadTimeout, VoteEnd, envVars
<1> QED
  BY <1>1, <1>2, PoolStepsKeepVotes, PoolStepsKeepSpent DEF NoBallot

\* A ballot is cast by an account that is unvoted and held, hence for the first
\* time; then it is marked, or its session forgets it.
LEMMA CastingInv ==
  ASSUME VoteInv, BallotInv, NEW d \in Devices, Casting(d)
  PROVE  BallotInv'
<1> DEFINE c == held[Session(d)]
<1> USE TypeOKParts, SessionsAreHolders DEF VoteInv
<1>1. pc[d] = "read" /\ c \in Accounts
  BY DEF Casting, ReplySuccess, ReplyGarbled, ReadFailed, SessionInv, Holding,
         Unanswered, PoolInv, PoolTypeOK
<1>2. /\ \/ ballots' = ballots
         \/ ballots' = [ballots EXCEPT ![c] = IF @ < 2 THEN @ + 1 ELSE 2]
      /\ restarts' = restarts /\ ub' = ub
      /\ SetFlag("voted", c) \/ Forget(Session(d))
  BY DEF Casting, ReplySuccess, ReplyGarbled, ReadFailed, Cast, Uncast, SetFlag, Forget
<1> SUFFICES ASSUME ~ub, restarts = 0, Faults \cap {"logout", "stream"} = {}, NEW a \in Accounts
             PROVE  /\ ballots'[a] <= 1
                    /\ ballots'[a] = 1 => a \in accounts_pro'["voted"] \/ Spent(a)'
  BY <1>2 DEF BallotInv
<1>3. c \notin accounts_pro["voted"] /\ ~Spent(c)
  BY <1>1 DEF Unvoted, Unanswered, Spent
<1>4. /\ ballots \in [Accounts -> 0..2] /\ ballots[c] = 0
      /\ ballots[a] <= 1
      /\ ballots[a] = 1 => a \in accounts_pro["voted"] \/ Spent(a)
  BY <1>1, <1>3 DEF BallotInv, OwnTypeOK
<1>5. /\ ballots'[a] <= 1
      /\ a # c => ballots'[a] = ballots[a]
  BY <1>1, <1>2, <1>4
<1>6. CASE SetFlag("voted", c)
  <2>1. accounts_pro'["voted"] = accounts_pro["voted"] \cup {c}
    BY <1>6 DEF SetFlag, PoolInv, PoolTypeOK, Flags
  <2>2. Spent(a) => Spent(a)'
    BY <1>6 DEF SetFlag, Spent, IdleAccounts
  <2> QED BY <1>4, <1>5, <2>1, <2>2
<1>7. CASE Forget(Session(d))
  <2>1. /\ held' = [held EXCEPT ![Session(d)] = NoAccount]
        /\ IdleAccounts' = IdleAccounts /\ accounts_pro' = accounts_pro
    BY <1>7 DEF Forget, IdleAccounts
  <2>2. Spent(a) => Spent(a)'
    BY <2>1, PoolAssumption DEF Spent, PoolInv, PoolTypeOK
  <2>3. a = c => Spent(a)'
    BY <1>1, <2>1, PoolAssumption DEF Spent, PoolInv, PoolTypeOK, ExclusiveCheckout
  <2> QED BY <1>4, <1>5, <2>1, <2>2, <2>3
<1> QED
  BY <1>2, <1>6, <1>7

LEMMA BallotStep ==
  ASSUME VoteInv, BallotInv, [Next]_vars
  PROVE  BallotInv'
<1>1. ASSUME NEW d \in Devices, SessionStep(d)
      PROVE  BallotInv'
  <2>1. CASE Faults \cap {"logout", "stream"} # {}
    BY <2>1 DEF BallotInv
  <2>2. CASE Faults \cap {"logout", "stream"} = {}
    BY <1>1, <2>2, SessionNoBallot, NoBallotInv, CastingInv
  <2> QED BY <2>1, <2>2
<1>2. ASSUME UNCHANGED poolVars, UNCHANGED <<ballots, restarts>>
      PROVE  BallotInv'
  BY <1>2 DEF BallotInv, Spent, IdleAccounts, poolVars
<1>3. CASE Task
  BY <1>2, <1>3, TaskStep DEF Task, StartTask, SpawnSessions, JoinSessions, envVars
<1>4. ASSUME NEW d \in Devices, PhoneConnects(d) \/ PhoneLeaves(d)
      PROVE  BallotInv'
  BY <1>2, <1>4 DEF PhoneConnects, PhoneLeaves, envVars
<1>5. CASE Restart
  BY <1>5 DEF Restart, BallotInv, VoteInv, TypeOK
<1>6. CASE UNCHANGED vars
  BY <1>2, <1>6 DEF vars, envVars
<1> QED
  BY <1>1, <1>3, <1>4, <1>5, <1>6 DEF Next

\* An account votes once, unless a failure after the vote puts it back.
THEOREM BallotsAreSingle == Spec => []NoDoubleBallot
<1>1. Init => BallotInv
  BY DEF Init, PoolInit, BallotInv
<1>2. VoteInv /\ BallotInv /\ [Next]_vars => BallotInv'
  BY BallotStep
<1>3. BallotInv => NoDoubleBallot
  BY DEF BallotInv, NoDoubleBallot
<1> QED
  BY <1>1, <1>2, <1>3, VoteInvariant, PTL DEF Spec
=============================================================================
