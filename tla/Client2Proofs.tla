--------------------------- MODULE Client2Proofs ---------------------------
(***************************************************************************)
(* Client2 for every set of accounts and calls, every mix of synchronous,  *)
(* coroutine and multi-agent calls, lost requests and replies, and other   *)
(* programs: as long as the validator forgets no pending transaction, a    *)
(* normal return of check_txn_vm_status is about the caller's transaction  *)
(* and the cached sequence number leaves no hole behind it.  As long as no *)
(* reply is lost and no other program uses the accounts, it lags behind by *)
(* the multi-agent transactions and the coroutines nobody resumed alone.   *)
(***************************************************************************)
EXTENDS Client2, FiniteSetTheorems, TLAPS

\* Acknowledged calls own the slot they signed for.
Holds(c) == pc[c] \in {"accepted", "polling", "ok"} => Mine(c)

\* An acknowledged call that will bump the cache signed the cached number,
\* and every signed number is at most the cached one.
Fresh(c) ==
  /\ pc[c] = "accepted" /\ Kind[c] # "multi" =>
       acct[c] \in cached /\ sn[c] = cache[acct[c]]
  /\ pc[c] \in {"signed", "sent"} => acct[c] \in cached /\ sn[c] <= cache[acct[c]]

\* Committed numbers are taken.
Solid == \A a \in Accounts : \A n \in Sns : n < next[a] => slot[a][n] # Free

ReportedExecuted ==
  \A c \in Calls : pc[c] = "ok" => /\ sn[c] < next[acct[c]]
                                   /\ vm[acct[c]][sn[c]] = "executed"

----------------------------------------------------------------------------
\* TypeOK holds initially: the constructor.
LEMMA InitTypeOK == Init => TypeOK
BY Client2Assumption DEF Init, TypeOK, Sns, Txns

\* Every handler, and every step of the validator, keeps TypeOK.
LEMMA NextTypeOK == TypeOK /\ [Next]_vars => TypeOK'
<1> SUFFICES ASSUME TypeOK, [Next]_vars PROVE TypeOK'
  OBVIOUS
<1> USE Client2Assumption DEF TypeOK, Sns, client, chain
<1>1. ASSUME NEW a \in Accounts, CreateNextAccount(a) PROVE TypeOK'
  <2>1. next[a] \in Nat
    OBVIOUS
  <2>2. wallet' \subseteq Accounts /\ cached' \subseteq wallet'
    BY <1>1 DEF CreateNextAccount
  <2>3. cache' \in [Accounts -> Nat]
    BY <1>1, <2>1 DEF CreateNextAccount
  <2> QED
    BY <1>1, <2>2, <2>3 DEF CreateNextAccount
<1>2. ASSUME NEW a \in Accounts, Commit(a) PROVE TypeOK'
  BY <1>2 DEF Commit
<1>3. ASSUME NEW a \in Accounts, ForeignSubmit(a) PROVE TypeOK'
  BY <1>3 DEF ForeignSubmit, Txns
<1>4. ASSUME NEW a \in Accounts, NEW n \in Sns, Drop(a, n) PROVE TypeOK'
  BY <1>4 DEF Drop, Txns
<1>5. ASSUME NEW c \in Calls, Sign(c) PROVE TypeOK'
  <2>1. acct[c] \in Accounts /\ next[acct[c]] \in Nat /\ cache[acct[c]] \in Nat
    OBVIOUS
  <2>2. wallet' \subseteq Accounts /\ cached' \subseteq wallet'
    BY <1>5, <2>1 DEF Sign
  <2>3. cache' \in [Accounts -> Nat]
    BY <1>5, <2>1 DEF Sign
  <2>4. sn' \in [Calls -> Sns]
    <3>1. (\E n \in Sns : sn' = [sn EXCEPT ![c] = n]) \/ sn' = sn
      BY <1>5, <2>1 DEF Sign, SignAs
    <3> QED
      BY <3>1
  <2>5. pc' \in [Calls -> {"idle", "signed", "sent", "accepted", "refused",
                           "polling", "ok", "failed", "hung", "overtaken"}]
    BY <1>5 DEF Sign, SignAs
  <2> QED
    BY <1>5, <2>2, <2>3, <2>4, <2>5 DEF Sign
<1>6. ASSUME NEW c \in Calls, CoSign(c) PROVE TypeOK'
  BY <1>6 DEF CoSign
<1>7. ASSUME NEW c \in Calls, Resume(c) PROVE TypeOK'
  BY <1>7 DEF Resume, Bumped
<1>8. ASSUME NEW c \in Calls, Throw(c) PROVE TypeOK'
  <2>1. AfterError(c) \in {"hung", "failed"}
    BY DEF AfterError
  <2> QED
    BY <1>8, <2>1 DEF Throw
<1>9. ASSUME NEW c \in Calls, Poll(c) PROVE TypeOK'
  <2>1. \E r \in {"polling", "ok", "failed", "hung"} : pc' = [pc EXCEPT ![c] = r]
    BY <1>9 DEF Poll, Verdict, AfterError
  <2> QED
    BY <1>9, <2>1 DEF Poll
<1>10. ASSUME NEW c \in Calls, Accept(c) PROVE TypeOK'
  BY <1>10 DEF Accept, Admissible, Txns
<1>11. ASSUME NEW c \in Calls, Refuse(c) PROVE TypeOK'
  BY <1>11 DEF Refuse, Admissible
<1>12. ASSUME NEW c \in Calls, Overtaken(c) PROVE TypeOK'
  BY <1>12 DEF Overtaken
<1>13. CASE UNCHANGED vars
  BY <1>13 DEF vars
<1> QED
  BY <1>1, <1>2, <1>3, <1>4, <1>5, <1>6, <1>7, <1>8, <1>9, <1>10, <1>11, <1>12, <1>13
     DEF Next, ClientStep, Reply

\* The type invariant of Client2, for every instance.
THEOREM TypeCorrect == Spec => []TypeOK
<1> QED
  BY InitTypeOK, NextTypeOK, PTL DEF Spec

----------------------------------------------------------------------------
Coherent ==
  /\ \A d \in Calls : Holds(d)
  /\ \A d \in Calls : Fresh(d)
  /\ Solid
  /\ NoSkippedNumber
  /\ ReportedExecuted

\* Transactions of different calls, of other programs, and none, differ.
LEMMA TxnsDiffer ==
  /\ \A c, d \in Calls : Own(c) = Own(d) => c = d
  /\ \A c \in Calls : Own(c) # Free
  /\ Foreign # Free
<1>1. \A c, d \in Calls : Own(c) = Own(d) => Own(c).call = Own(d).call
  OBVIOUS
<1>2. \A c \in Calls : Own(c).call = c /\ Own(c).tag = "own"
  BY DEF Own
<1>3. Free.tag = "free" /\ Foreign.tag = "foreign"
  BY DEF Free, Foreign
<1> QED
  BY <1>1, <1>2, <1>3

\* The strengthened invariant holds initially.
LEMMA InitCoherent == Init => Coherent
BY Client2Assumption DEF Init, Coherent, Holds, Fresh, Solid, NoSkippedNumber,
  ReportedExecuted, Sns

\* Without Drop no step loses coherence.
LEMMA NextCoherent ==
  ~MayDrop /\ TypeOK /\ TypeOK' /\ Coherent /\ [Next]_vars => Coherent'
<1> SUFFICES ASSUME ~MayDrop, TypeOK, TypeOK', Coherent, [Next]_vars
             PROVE  Coherent'
  OBVIOUS
<1> USE Client2Assumption, TxnsDiffer DEF TypeOK, Coherent, Sns, client, chain
<1>1. ASSUME NEW a \in Accounts, CreateNextAccount(a) PROVE Coherent'
  <2>1. \A d \in Calls : Holds(d)'
    BY <1>1 DEF CreateNextAccount, Holds, Mine
  <2>2. \A d \in Calls : Fresh(d)'
    BY <1>1 DEF CreateNextAccount, Fresh
  <2>3. Solid'
    BY <1>1 DEF CreateNextAccount, Solid
  <2>4. NoSkippedNumber'
    <3>1. \A n \in 0 .. next[a] - 1 : n \in Sns => slot[a][n] # Free
      BY DEF Solid
    <3> QED
      BY <1>1, <3>1 DEF CreateNextAccount, NoSkippedNumber
  <2>5. ReportedExecuted'
    BY <1>1 DEF CreateNextAccount, ReportedExecuted
  <2> QED
    BY <2>1, <2>2, <2>3, <2>4, <2>5
<1>2. ASSUME NEW a \in Accounts, Commit(a) PROVE Coherent'
  <2>1. \A d \in Calls : Holds(d)'
    BY <1>2 DEF Commit, Holds, Mine
  <2>2. \A d \in Calls : Fresh(d)'
    BY <1>2 DEF Commit, Fresh
  <2>3. Solid'
    BY <1>2 DEF Commit, Solid
  <2>4. NoSkippedNumber'
    BY <1>2 DEF Commit, NoSkippedNumber
  <2>5. ReportedExecuted'
    BY <1>2 DEF Commit, ReportedExecuted
  <2> QED
    BY <2>1, <2>2, <2>3, <2>4, <2>5
<1>3. ASSUME NEW a \in Accounts, ForeignSubmit(a) PROVE Coherent'
  <2>1. ASSUME NEW d \in Calls PROVE Holds(d)'
    <3>1. /\ acct' = acct /\ sn' = sn /\ pc' = pc /\ next' = next
          /\ slot[a][next[a]] = Free /\ next[a] \in Sns
          /\ slot' = [slot EXCEPT ![a][next[a]] = Foreign]
      BY <1>3 DEF ForeignSubmit
    <3>2. slot[acct[d]][sn[d]] # Free => slot'[acct[d]][sn[d]] = slot[acct[d]][sn[d]]
      BY <3>1
    <3>3. Mine(d) => Mine(d)'
      BY <3>1, <3>2 DEF Mine
    <3> QED
      BY <3>1, <3>2, <3>3 DEF Holds
  <2>2. \A d \in Calls : Fresh(d)'
    BY <1>3 DEF ForeignSubmit, Fresh
  <2>3. Solid'
    BY <1>3 DEF ForeignSubmit, Solid
  <2>4. NoSkippedNumber'
    BY <1>3 DEF ForeignSubmit, NoSkippedNumber
  <2>5. ReportedExecuted'
    BY <1>3 DEF ForeignSubmit, ReportedExecuted
  <2> QED
    BY <2>1, <2>2, <2>3, <2>4, <2>5
<1>4. ASSUME NEW c \in Calls, Sign(c) PROVE Coherent'
  <2>1. ASSUME NEW d \in Calls PROVE Holds(d)'
    <3>1. slot' = slot /\ acct' = acct
      BY <1>4 DEF Sign
    <3>2. pc[c] = "idle" /\ pc'[c] \notin {"accepted", "polling", "ok"}
      BY <1>4 DEF Sign, SignAs
    <3>3. d # c => pc'[d] = pc[d] /\ sn'[d] = sn[d]
      BY <1>4 DEF Sign, SignAs
    <3>4. CASE d = c
      BY <3>2, <3>4 DEF Holds
    <3>5. CASE d # c
      BY <3>1, <3>3, <3>5 DEF Holds, Mine
    <3> QED
      BY <3>4, <3>5
  <2>2. \A d \in Calls : Fresh(d)'
    BY <1>4 DEF Sign, SignAs, Fresh
  <2>3. Solid'
    BY <1>4 DEF Sign, SignAs, Solid
  <2>4. NoSkippedNumber'
    <3>1. \A n \in 0 .. next[acct[c]] - 1 : n \in Sns => slot[acct[c]][n] # Free
      BY DEF Solid
    <3>2. slot' = slot /\ (\/ cached' = cached /\ cache' = cache
                           \/ /\ cached' = cached \cup {acct[c]}
                              /\ cache' = [cache EXCEPT ![acct[c]] = next[acct[c]]])
      BY <1>4 DEF Sign
    <3>3. ASSUME NEW b \in cached', NEW n \in 0 .. cache'[b] - 1, n \in Sns
          PROVE  slot[b][n] # Free
      <4>1. CASE b \in cached /\ cache'[b] = cache[b]
        BY <3>3, <4>1 DEF NoSkippedNumber
      <4>2. CASE b = acct[c] /\ cache'[b] = next[b]
        BY <3>1, <3>3, <4>2
      <4>3. b \in Accounts /\ acct[c] \in Accounts
        BY <3>3
      <4>4. CASE cached' = cached /\ cache' = cache
        BY <3>3, <4>1, <4>4
      <4>5. CASE /\ cached' = cached \cup {acct[c]}
                 /\ cache' = [cache EXCEPT ![acct[c]] = next[acct[c]]]
        <5>1. CASE b = acct[c]
          BY <4>2, <4>3, <4>5, <5>1
        <5>2. CASE b # acct[c]
          BY <3>3, <4>1, <4>3, <4>5, <5>2
        <5> QED
          BY <5>1, <5>2
      <4> QED
        BY <3>2, <4>4, <4>5
    <3> QED
      BY <3>2, <3>3 DEF NoSkippedNumber
  <2>5. ReportedExecuted'
    <3>1. /\ pc'[c] # "ok" /\ next' = next /\ vm' = vm /\ acct' = acct
          /\ \A d \in Calls \ {c} : pc'[d] = pc[d] /\ sn'[d] = sn[d]
      BY <1>4 DEF Sign, SignAs
    <3> QED
      BY <3>1 DEF ReportedExecuted
  <2> QED
    BY <2>1, <2>2, <2>3, <2>4, <2>5
<1>5. ASSUME NEW c \in Calls, CoSign(c) PROVE Coherent'
  <2>1. \A d \in Calls : Holds(d)'
    BY <1>5 DEF CoSign, Holds, Mine
  <2>2. \A d \in Calls : Fresh(d)'
    BY <1>5 DEF CoSign, Fresh
  <2>3. Solid'
    BY <1>5 DEF CoSign, Solid
  <2>4. NoSkippedNumber'
    BY <1>5 DEF CoSign, NoSkippedNumber
  <2>5. ReportedExecuted'
    BY <1>5 DEF CoSign, ReportedExecuted
  <2> QED
    BY <2>1, <2>2, <2>3, <2>4, <2>5
<1>6. ASSUME NEW c \in Calls, Resume(c) PROVE Coherent'
  <2>1. \A d \in Calls : Holds(d)'
    BY <1>6 DEF Resume, Bumped, Holds, Mine
  <2>2. \A d \in Calls : Fresh(d)'
    <3>1. CASE Kind[c] = "multi"
      BY <1>6, <3>1 DEF Resume, Bumped, Fresh
    <3>2. CASE Kind[c] # "multi"
      <4>1. /\ acct[c] \in cached /\ sn[c] = cache[acct[c]]
            /\ cache' = [cache EXCEPT ![acct[c]] = @ + 1]
        BY <1>6, <3>2 DEF Resume, Bumped, Fresh
      <4>2. ASSUME NEW d \in Calls \ {c}, pc[d] = "accepted", Kind[d] # "multi"
            PROVE  acct[d] # acct[c]
        <5>1. Mine(c) /\ Mine(d)
          BY <1>6, <4>2 DEF Resume, Holds
        <5>2. sn[d] = cache[acct[d]]
          BY <4>2 DEF Fresh
        <5> QED
          BY <4>1, <5>1, <5>2 DEF Mine
      <4>3. /\ cached' = cached /\ acct' = acct /\ sn' = sn
            /\ pc' = [pc EXCEPT ![c] = "polling"]
        BY <1>6 DEF Resume
      <4> QED
        BY <4>1, <4>2, <4>3 DEF Fresh
    <3> QED
      BY <3>1, <3>2
  <2>3. Solid'
    BY <1>6 DEF Resume, Bumped, Solid
  <2>4. NoSkippedNumber'
    <3>1. CASE cache' = cache
      BY <1>6, <3>1 DEF Resume, NoSkippedNumber
    <3>2. CASE cache' # cache
      <4>1. /\ cache' = [cache EXCEPT ![acct[c]] = @ + 1]
            /\ acct[c] \in cached /\ sn[c] = cache[acct[c]]
        BY <1>6, <3>2 DEF Resume, Bumped, Fresh
      <4>2. slot[acct[c]][cache[acct[c]]] # Free
        BY <1>6, <4>1 DEF Resume, Holds, Mine
      <4>3. cached' = cached /\ slot' = slot
        BY <1>6 DEF Resume
      <4> QED
        BY <4>1, <4>2, <4>3 DEF NoSkippedNumber
    <3> QED
      BY <3>1, <3>2
  <2>5. ReportedExecuted'
    BY <1>6 DEF Resume, Bumped, ReportedExecuted
  <2> QED
    BY <2>1, <2>2, <2>3, <2>4, <2>5
<1>7. ASSUME NEW c \in Calls, Throw(c) PROVE Coherent'
  <2>1. \A d \in Calls : Holds(d)'
    BY <1>7 DEF Throw, AfterError, Holds, Mine
  <2>2. \A d \in Calls : Fresh(d)'
    BY <1>7 DEF Throw, AfterError, Fresh
  <2>3. Solid'
    BY <1>7 DEF Throw, AfterError, Solid
  <2>4. NoSkippedNumber'
    BY <1>7 DEF Throw, AfterError, NoSkippedNumber
  <2>5. ReportedExecuted'
    BY <1>7 DEF Throw, AfterError, ReportedExecuted
  <2> QED
    BY <2>1, <2>2, <2>3, <2>4, <2>5
<1>8. ASSUME NEW c \in Calls, Poll(c) PROVE Coherent'
  <2>1. \A d \in Calls : Holds(d)'
    BY <1>8 DEF Poll, Verdict, AfterError, Holds, Mine
  <2>2. \A d \in Calls : Fresh(d)'
    BY <1>8 DEF Poll, Verdict, AfterError, Fresh
  <2>3. Solid'
    BY <1>8 DEF Poll, Verdict, AfterError, Solid
  <2>4. NoSkippedNumber'
    BY <1>8 DEF Poll, Verdict, AfterError, NoSkippedNumber
  <2>5. ReportedExecuted'
    BY <1>8 DEF Poll, Verdict, AfterError, ReportedExecuted
  <2> QED
    BY <2>1, <2>2, <2>3, <2>4, <2>5
<1>9. ASSUME NEW c \in Calls, Accept(c) PROVE Coherent'
  <2>1. \A d \in Calls : Holds(d)'
    BY <1>9 DEF Accept, Admissible, Holds, Mine
  <2>2. \A d \in Calls : Fresh(d)'
    <3>1. acct[c] \in cached /\ sn[c] <= cache[acct[c]]
      BY <1>9 DEF Accept, Fresh
    <3>2. ~(sn[c] < cache[acct[c]])
      <4>1. sn[c] \in Sns /\ cache[acct[c]] \in Nat /\ slot[acct[c]][sn[c]] = Free
        BY <1>9 DEF Accept, Admissible
      <4>2. \A n \in 0 .. cache[acct[c]] - 1 : n \in Sns => slot[acct[c]][n] # Free
        BY <3>1 DEF NoSkippedNumber
      <4> QED
        BY <4>1, <4>2
    <3>3. sn[c] = cache[acct[c]]
      BY <3>1, <3>2
    <3> QED
      BY <1>9, <3>1, <3>3 DEF Accept, Fresh
  <2>3. Solid'
    BY <1>9 DEF Accept, Admissible, Solid
  <2>4. NoSkippedNumber'
    BY <1>9 DEF Accept, Admissible, NoSkippedNumber
  <2>5. ReportedExecuted'
    BY <1>9 DEF Accept, Admissible, ReportedExecuted
  <2> QED
    BY <2>1, <2>2, <2>3, <2>4, <2>5
<1>10. ASSUME NEW c \in Calls, Refuse(c) PROVE Coherent'
  <2>1. \A d \in Calls : Holds(d)'
    BY <1>10 DEF Refuse, Holds, Mine
  <2>2. \A d \in Calls : Fresh(d)'
    BY <1>10 DEF Refuse, Fresh
  <2>3. Solid'
    BY <1>10 DEF Refuse, Solid
  <2>4. NoSkippedNumber'
    BY <1>10 DEF Refuse, NoSkippedNumber
  <2>5. ReportedExecuted'
    BY <1>10 DEF Refuse, ReportedExecuted
  <2> QED
    BY <2>1, <2>2, <2>3, <2>4, <2>5
<1>11. CASE UNCHANGED vars
  BY <1>11 DEF vars, Holds, Mine, Fresh, Solid, NoSkippedNumber, ReportedExecuted
<1>12. ASSUME NEW a \in Accounts, NEW n \in Sns, Drop(a, n) PROVE FALSE
  BY <1>12 DEF Drop
<1>13. ASSUME NEW c \in Calls, Overtaken(c) PROVE Coherent'
  <2>1. \A d \in Calls : Holds(d)'
    BY <1>13 DEF Overtaken, Holds, Mine
  <2>2. \A d \in Calls : Fresh(d)'
    BY <1>13 DEF Overtaken, Fresh
  <2>3. Solid'
    BY <1>13 DEF Overtaken, Solid
  <2>4. NoSkippedNumber'
    BY <1>13 DEF Overtaken, NoSkippedNumber
  <2>5. ReportedExecuted'
    BY <1>13 DEF Overtaken, ReportedExecuted
  <2> QED
    BY <2>1, <2>2, <2>3, <2>4, <2>5
<1> QED
  BY <1>1, <1>2, <1>3, <1>4, <1>5, <1>6, <1>7, <1>8, <1>9, <1>10, <1>11, <1>12, <1>13
     DEF Next, ClientStep, Reply

\* The whole inductive argument: with Drop excluded, TypeOK and Coherent are
\* kept by every step.
LEMMA Invariance == ~MayDrop /\ Spec => [](TypeOK /\ Coherent)
<1> SUFFICES ASSUME ~MayDrop PROVE Spec => [](TypeOK /\ Coherent)
  OBVIOUS
<1>1. Init => TypeOK /\ Coherent
  BY InitTypeOK, InitCoherent
<1>2. (TypeOK /\ Coherent) /\ [Next]_vars => (TypeOK /\ Coherent)'
  BY NextTypeOK, NextCoherent
<1> QED
  BY <1>1, <1>2, PTL DEF Spec

\* check_txn_vm_status returns normally only for the caller's own executed
\* transaction, whatever else shares the account, unless the validator
\* forgets a pending transaction (the run client_same_number shows that the
\* exception is needed).
THEOREM OwnTxn == ~MayDrop /\ Spec => []OwnTxnReported
<1>1. TypeOK /\ Coherent => OwnTxnReported
  BY DEF Coherent, Holds, ReportedExecuted, OwnTxnReported
<1> QED
  BY <1>1, Invariance, PTL

\* The cached sequence number never runs past a number the validator lacks.
THEOREM NoSkip == ~MayDrop /\ Spec => []NoSkippedNumber
<1>1. TypeOK /\ Coherent => NoSkippedNumber
  BY DEF Coherent
<1> QED
  BY <1>1, Invariance, PTL

----------------------------------------------------------------------------
(* The lag.  Without loss and other programs a number is occupied by a call *)
(* that was answered; the cache is behind by those that do not bump it and  *)
(* by those that have not bumped it yet.                                    *)

\* A number in the validator's hands is the one its call signed.
Owned ==
  \A a \in Accounts, n \in Sns : slot[a][n] # Free =>
    \E c \in Calls : /\ slot[a][n] = Own(c) /\ acct[c] = a /\ sn[c] = n
                     /\ pc[c] \in {"accepted", "polling", "ok", "failed", "hung", "overtaken"}

\* What is under way was signed with an account that is cached.
Cached ==
  \A c \in Calls :
    pc[c] \in {"signed", "sent", "accepted", "refused", "polling", "ok"} => acct[c] \in cached

\* An account that is not cached has not been used.
Untouched == \A a \in Accounts \ cached : \A n \in Sns : slot[a][n] = Free

\* Answered calls for account a, not forgotten, that are to bump its number.
ToBump(a) ==
  {c \in Calls : Kind[c] # "multi" /\ acct[c] = a /\ pc[c] = "accepted" /\ Mine(c)}

Lag(a) == cache[a] + Cardinality(Unbumped(a)) + Cardinality(ToBump(a))

Finite(a) == IsFiniteSet(Unbumped(a)) /\ IsFiniteSet(ToBump(a))

Counted == \A a \in Accounts : Finite(a) /\ Cardinality(Occupied(a)) <= Lag(a)

Lagging == Owned /\ Cached /\ Untouched /\ Counted

LEMMA OccupiedFinite ==
  ASSUME NEW a \in Accounts
  PROVE  IsFiniteSet(Occupied(a)) /\ Cardinality(Occupied(a)) \in Nat
<1>1. IsFiniteSet(Sns)
  BY Client2Assumption, FS_Interval DEF Sns
<1> QED BY <1>1, FS_Subset, FS_CardinalityType DEF Occupied

LEMMA InitLagging == Init => Lagging
<1> SUFFICES ASSUME Init PROVE Lagging
  OBVIOUS
<1>1. Owned /\ Cached /\ Untouched
  BY DEF Init, Owned, Cached, Untouched, Sns
<1>2. ASSUME NEW a \in Accounts PROVE Finite(a) /\ Cardinality(Occupied(a)) <= Lag(a)
  <2>1. Occupied(a) = {} /\ Unbumped(a) = {} /\ ToBump(a) = {} /\ cache[a] = 0
    BY DEF Init, Occupied, Unbumped, ToBump, Sns
  <2> QED BY <2>1, FS_EmptySet DEF Finite, Lag
<1> QED BY <1>1, <1>2 DEF Lagging, Counted

\* A step that leaves the three sets of account a alone and does not lower its
\* number.
LEMMA SameLag ==
  ASSUME TypeOK, TypeOK', NEW a \in Accounts, Counted,
         Occupied(a)' = Occupied(a), Unbumped(a)' = Unbumped(a),
         ToBump(a)' = ToBump(a), cache'[a] >= cache[a]
  PROVE  Finite(a)' /\ Cardinality(Occupied(a)') <= Lag(a)'
<1>1. Finite(a) /\ Cardinality(Occupied(a)) <= Lag(a)
  BY DEF Counted
<1>2. /\ Cardinality(Unbumped(a)) \in Nat /\ Cardinality(ToBump(a)) \in Nat
      /\ Cardinality(Occupied(a)) \in Nat /\ cache[a] \in Nat /\ cache'[a] \in Nat
  BY <1>1, FS_CardinalityType, OccupiedFinite DEF Finite, TypeOK
<1> QED BY <1>1, <1>2 DEF Finite, Lag

\* The reply: the number is occupied by one more call, which bumps the cached
\* number or is of several agents.
LEMMA AcceptLag ==
  ASSUME ~LossyNet, TypeOK, TypeOK', Lagging, NEW c \in Calls, Accept(c)
  PROVE  Lagging'
<1> USE TxnsDiffer
<1>1. /\ pc[c] = "sent" /\ pc' = [pc EXCEPT ![c] = "accepted"]
      /\ slot[acct[c]][sn[c]] = Free /\ slot' = [slot EXCEPT ![acct[c]][sn[c]] = Own(c)]
      /\ UNCHANGED <<cached, cache, acct, sn>>
      /\ acct[c] \in Accounts /\ sn[c] \in Sns
  BY DEF Accept, Admissible, client, TypeOK
<1>2. /\ slot'[acct[c]][sn[c]] = Own(c)
      /\ \A a \in Accounts, n \in Sns : a # acct[c] \/ n # sn[c] => slot'[a][n] = slot[a][n]
  BY <1>1 DEF TypeOK
<1>3. pc'[c] = "accepted" /\ \A d \in Calls : d # c => pc'[d] = pc[d]
  BY <1>1 DEF TypeOK
<1>4. Owned'
  BY <1>1, <1>2, <1>3 DEF Owned, Lagging
<1>5. Cached'
  BY <1>1, <1>3 DEF Cached, Lagging
<1>6. Untouched'
  BY <1>1, <1>2 DEF Untouched, Cached, Lagging
<1>7. \A d \in Calls : d # c => Mine(d)' = Mine(d)
  BY <1>1, <1>2 DEF Mine, TypeOK
<1>8. Mine(c)' /\ ~Mine(c)
  BY <1>1, <1>2 DEF Mine
<1>9. ASSUME NEW a \in Accounts PROVE Finite(a)' /\ Cardinality(Occupied(a)') <= Lag(a)'
  <2>0. Finite(a) /\ Cardinality(Occupied(a)) <= Lag(a) /\ Counted
    BY DEF Lagging, Counted
  <2>1. CASE a # acct[c]
    <3>1. Occupied(a)' = Occupied(a)
      BY <1>2, <2>1 DEF Occupied
    <3>2. Unbumped(a)' = Unbumped(a) /\ ToBump(a)' = ToBump(a)
      BY <1>1, <1>3, <1>7, <1>8, <2>1 DEF Unbumped, ToBump
    <3>3. cache'[a] >= cache[a]
      BY <1>1 DEF TypeOK
    <3> QED BY <2>0, <3>1, <3>2, <3>3, SameLag
  <2>2. CASE a = acct[c]
    <3>1. Occupied(a)' = Occupied(a) \cup {sn[c]} /\ sn[c] \notin Occupied(a)
      BY <1>1, <1>2, <2>2 DEF Occupied
    <3>2. Cardinality(Occupied(a)') = Cardinality(Occupied(a)) + 1
      BY <3>1, FS_AddElement, OccupiedFinite
    <3>3. /\ Cardinality(Unbumped(a)) \in Nat /\ Cardinality(ToBump(a)) \in Nat
          /\ Cardinality(Occupied(a)) \in Nat /\ cache[a] \in Nat /\ cache'[a] = cache[a]
      BY <1>1, <2>0, FS_CardinalityType, OccupiedFinite DEF Finite, TypeOK
    <3>4. CASE Kind[c] = "multi"
      <4>1. ToBump(a)' = ToBump(a)
        BY <1>1, <1>3, <1>7, <3>4 DEF ToBump
      <4>2. Unbumped(a)' = Unbumped(a) \cup {c} /\ c \notin Unbumped(a)
        BY <1>1, <1>3, <1>7, <1>8, <2>2, <3>4 DEF Unbumped
      <4>3. /\ IsFiniteSet(Unbumped(a)')
            /\ Cardinality(Unbumped(a)') = Cardinality(Unbumped(a)) + 1
        BY <4>2, <2>0, FS_AddElement DEF Finite
      <4> QED BY <2>0, <3>2, <3>3, <4>1, <4>3 DEF Finite, Lag
    <3>5. CASE Kind[c] # "multi"
      <4>1. Unbumped(a)' = Unbumped(a)
        BY <1>1, <1>3, <1>7, <1>8, <3>5 DEF Unbumped
      <4>2. ToBump(a)' = ToBump(a) \cup {c} /\ c \notin ToBump(a)
        BY <1>1, <1>3, <1>7, <1>8, <2>2, <3>5 DEF ToBump
      <4>3. /\ IsFiniteSet(ToBump(a)')
            /\ Cardinality(ToBump(a)') = Cardinality(ToBump(a)) + 1
        BY <4>2, <2>0, FS_AddElement DEF Finite
      <4> QED BY <2>0, <3>2, <3>3, <4>1, <4>3 DEF Finite, Lag
    <3> QED BY <3>4, <3>5
  <2> QED BY <2>1, <2>2
<1> QED BY <1>4, <1>5, <1>6, <1>9 DEF Lagging, Counted

\* submit_txn_payload after the reply: one call less is about to bump.
LEMMA ResumeLag ==
  ASSUME ~LossyNet, TypeOK, TypeOK', Lagging, NEW c \in Calls, Resume(c)
  PROVE  Lagging'
<1>1. /\ pc[c] = "accepted" /\ pc' = [pc EXCEPT ![c] = "polling"]
      /\ cache' = Bumped(c) /\ UNCHANGED <<cached, acct, sn, slot>> /\ acct[c] \in Accounts
  BY DEF Resume, TypeOK, chain
<1>2. pc'[c] = "polling" /\ \A d \in Calls : d # c => pc'[d] = pc[d]
  BY <1>1 DEF TypeOK
<1>3. Owned' /\ Cached' /\ Untouched'
  BY <1>1, <1>2 DEF Lagging, Owned, Cached, Untouched
<1>4. acct[c] \in cached
  BY <1>1 DEF Lagging, Cached
<1>5. ASSUME NEW a \in Accounts PROVE Finite(a)' /\ Cardinality(Occupied(a)') <= Lag(a)'
  <2>0. Finite(a) /\ Cardinality(Occupied(a)) <= Lag(a) /\ Counted
    BY DEF Lagging, Counted
  <2>1. Occupied(a)' = Occupied(a)
    BY <1>1 DEF Occupied
  <2>2. Unbumped(a)' = Unbumped(a)
    BY <1>1, <1>2 DEF Unbumped, Mine
  <2>3. CASE Kind[c] = "multi" \/ acct[c] # a \/ ~Mine(c)
    <3>1. ToBump(a)' = ToBump(a)
      BY <1>1, <1>2, <2>3 DEF ToBump, Mine
    <3>2. cache'[a] >= cache[a]
      BY <1>1 DEF Bumped, TypeOK
    <3> QED BY <2>0, <2>1, <2>2, <3>1, <3>2, SameLag
  <2>4. CASE Kind[c] # "multi" /\ acct[c] = a /\ Mine(c)
    <3>1. ToBump(a)' = ToBump(a) \ {c} /\ c \in ToBump(a)
      BY <1>1, <1>2, <2>4 DEF ToBump, Mine
    <3>2. /\ IsFiniteSet(ToBump(a)')
          /\ Cardinality(ToBump(a)') = Cardinality(ToBump(a)) - 1
      BY <2>0, <3>1, FS_RemoveElement DEF Finite
    <3>3. cache'[a] = cache[a] + 1
      BY <1>1, <1>4, <2>4 DEF Bumped, TypeOK
    <3>4. /\ Cardinality(Unbumped(a)) \in Nat /\ Cardinality(ToBump(a)) \in Nat
          /\ Cardinality(Occupied(a)) \in Nat /\ cache[a] \in Nat
      BY <2>0, FS_CardinalityType, OccupiedFinite DEF Finite, TypeOK
    <3> QED BY <2>0, <2>1, <2>2, <3>2, <3>3, <3>4 DEF Finite, Lag
  <2> QED BY <2>3, <2>4
<1> QED BY <1>3, <1>5 DEF Lagging, Counted

\* A coroutine that its reply overtook will not bump, and is counted instead.
LEMMA OvertakenLag ==
  ASSUME TypeOK, TypeOK', Lagging, NEW c \in Calls, Overtaken(c)
  PROVE  Lagging'
<1>1. /\ pc[c] = "accepted" /\ pc' = [pc EXCEPT ![c] = "overtaken"] /\ Kind[c] = "await"
      /\ UNCHANGED <<cached, cache, acct, sn, slot>> /\ acct[c] \in Accounts
  BY DEF Overtaken, TypeOK, client, chain
<1>2. pc'[c] = "overtaken" /\ \A d \in Calls : d # c => pc'[d] = pc[d]
  BY <1>1 DEF TypeOK
<1>3. Owned' /\ Cached' /\ Untouched'
  BY <1>1, <1>2 DEF Lagging, Owned, Cached, Untouched
<1>4. \A d \in Calls : Mine(d)' = Mine(d)
  BY <1>1 DEF Mine
<1>5. ASSUME NEW a \in Accounts PROVE Finite(a)' /\ Cardinality(Occupied(a)') <= Lag(a)'
  <2>0. Finite(a) /\ Cardinality(Occupied(a)) <= Lag(a) /\ Counted
    BY DEF Lagging, Counted
  <2>1. Occupied(a)' = Occupied(a) /\ cache'[a] = cache[a] /\ cache'[a] >= cache[a]
    BY <1>1 DEF Occupied, TypeOK
  <2>2. CASE acct[c] # a \/ ~Mine(c)
    <3>1. ToBump(a)' = ToBump(a) /\ Unbumped(a)' = Unbumped(a)
      BY <1>1, <1>2, <1>4, <2>2 DEF ToBump, Unbumped
    <3> QED BY <2>0, <2>1, <3>1, SameLag
  <2>3. CASE acct[c] = a /\ Mine(c)
    <3>1. ToBump(a)' = ToBump(a) \ {c} /\ c \in ToBump(a)
      BY <1>1, <1>2, <1>4, <2>3 DEF ToBump
    <3>2. Unbumped(a)' = Unbumped(a) \cup {c} /\ c \notin Unbumped(a)
      BY <1>1, <1>2, <1>4, <2>3 DEF Unbumped
    <3>3. /\ IsFiniteSet(ToBump(a)')
          /\ Cardinality(ToBump(a)') = Cardinality(ToBump(a)) - 1
      BY <2>0, <3>1, FS_RemoveElement DEF Finite
    <3>4. /\ IsFiniteSet(Unbumped(a)')
          /\ Cardinality(Unbumped(a)') = Cardinality(Unbumped(a)) + 1
      BY <2>0, <3>2, FS_AddElement DEF Finite
    <3>5. /\ Cardinality(Unbumped(a)) \in Nat /\ Cardinality(ToBump(a)) \in Nat
          /\ Cardinality(Occupied(a)) \in Nat /\ cache[a] \in Nat
      BY <2>0, FS_CardinalityType, OccupiedFinite DEF Finite, TypeOK
    <3> QED BY <2>0, <2>1, <3>3, <3>4, <3>5 DEF Finite, Lag
  <2> QED BY <2>2, <2>3
<1> QED BY <1>3, <1>5 DEF Lagging, Counted

\* A transaction that the validator forgets leaves its number, and at most one
\* call that is counted with it, on one of the two sides.
LEMMA DropLag ==
  ASSUME ~LossyNet, TypeOK, TypeOK', Lagging, NEW b \in Accounts, NEW n \in Sns, Drop(b, n)
  PROVE  Lagging'
<1> USE TxnsDiffer
<1>1. /\ slot' = [slot EXCEPT ![b][n] = Free] /\ slot[b][n] # Free
      /\ UNCHANGED <<cached, cache, pc, acct, sn>>
  BY DEF Drop, client
<1>2. /\ slot'[b][n] = Free
      /\ \A a \in Accounts, k \in Sns : a # b \/ k # n => slot'[a][k] = slot[a][k]
  BY <1>1 DEF TypeOK
<1>3. PICK c \in Calls : slot[b][n] = Own(c) /\ acct[c] = b /\ sn[c] = n
  BY <1>1 DEF Lagging, Owned
<1>4. Owned' /\ Cached' /\ Untouched'
  BY <1>1, <1>2 DEF Lagging, Owned, Cached, Untouched
<1>5. ~Mine(c)' /\ \A d \in Calls : d # c => Mine(d)' = Mine(d)
  BY <1>1, <1>2, <1>3 DEF Mine, TypeOK
<1>6. ASSUME NEW a \in Accounts PROVE Finite(a)' /\ Cardinality(Occupied(a)') <= Lag(a)'
  <2>0. Finite(a) /\ Cardinality(Occupied(a)) <= Lag(a) /\ Counted
    BY DEF Lagging, Counted
  <2>1. cache'[a] = cache[a]
    BY <1>1
  <2>2. CASE a # b
    <3>1. Occupied(a)' = Occupied(a)
      BY <1>2, <2>2 DEF Occupied
    <3>2. Unbumped(a)' = Unbumped(a) /\ ToBump(a)' = ToBump(a)
      BY <1>1, <1>3, <1>5, <2>2 DEF Unbumped, ToBump
    <3>3. cache'[a] >= cache[a]
      BY <2>1 DEF TypeOK
    <3> QED BY <2>0, <3>1, <3>2, <3>3, SameLag
  <2>3. CASE a = b
    <3>1. Occupied(a)' = Occupied(a) \ {n} /\ n \in Occupied(a)
      BY <1>1, <1>2, <2>3 DEF Occupied
    <3>2. Cardinality(Occupied(a)') = Cardinality(Occupied(a)) - 1
      BY <3>1, FS_RemoveElement, OccupiedFinite
    <3>3. Unbumped(a)' = Unbumped(a) \ {c} /\ ToBump(a)' = ToBump(a) \ {c}
      BY <1>1, <1>5 DEF Unbumped, ToBump
    <3>4. c \notin Unbumped(a) \/ c \notin ToBump(a)
      BY DEF Unbumped, ToBump
    <3>5. ASSUME NEW M, IsFiniteSet(M)
          PROVE  /\ IsFiniteSet(M \ {c}) /\ Cardinality(M \ {c}) \in Nat
                 /\ Cardinality(M) \in Nat
                 /\ Cardinality(M \ {c}) = IF c \in M THEN Cardinality(M) - 1 ELSE Cardinality(M)
      <4>1. IsFiniteSet(M \ {c})
        BY <3>5, FS_RemoveElement
      <4>2. Cardinality(M \ {c}) = IF c \in M THEN Cardinality(M) - 1 ELSE Cardinality(M)
        BY <3>5, FS_RemoveElement
      <4> QED BY <3>5, <4>1, <4>2, FS_CardinalityType
    <3>6. /\ IsFiniteSet(Unbumped(a)') /\ IsFiniteSet(ToBump(a)')
          /\ {Cardinality(Unbumped(a)), Cardinality(ToBump(a)),
              Cardinality(Unbumped(a)'), Cardinality(ToBump(a)')} \subseteq Nat
          /\ Cardinality(Unbumped(a)') + Cardinality(ToBump(a)')
               >= Cardinality(Unbumped(a)) + Cardinality(ToBump(a)) - 1
      <4> DEFINE U == Unbumped(a)  T == ToBump(a)
      <4>1. /\ IsFiniteSet(U \ {c}) /\ Cardinality(U \ {c}) \in Nat /\ Cardinality(U) \in Nat
            /\ Cardinality(U \ {c}) = IF c \in U THEN Cardinality(U) - 1 ELSE Cardinality(U)
        BY <2>0, <3>5 DEF Finite
      <4>2. /\ IsFiniteSet(T \ {c}) /\ Cardinality(T \ {c}) \in Nat /\ Cardinality(T) \in Nat
            /\ Cardinality(T \ {c}) = IF c \in T THEN Cardinality(T) - 1 ELSE Cardinality(T)
        BY <2>0, <3>5 DEF Finite
      <4>3. c \notin U \/ c \notin T
        BY <3>4
      <4> HIDE DEF U, T
      <4>4. Cardinality(U \ {c}) + Cardinality(T \ {c}) >= Cardinality(U) + Cardinality(T) - 1
        BY <4>1, <4>2, <4>3
      <4> QED BY <3>3, <4>1, <4>2, <4>4 DEF U, T
    <3>7. Cardinality(Occupied(a)) \in Nat /\ cache[a] \in Nat
      BY OccupiedFinite DEF TypeOK
    <3> QED BY <2>0, <2>1, <3>2, <3>6, <3>7 DEF Finite, Lag
  <2> QED BY <2>2, <2>3
<1> QED BY <1>4, <1>6 DEF Lagging, Counted

\* The view of an account that was not cached: nothing occupies a number yet.
LEMMA FetchLag ==
  ASSUME TypeOK, TypeOK', Lagging, NEW b \in Accounts \ cached,
         cache' = [cache EXCEPT ![b] = next[b]], UNCHANGED slot,
         NEW a \in Accounts, Unbumped(a)' = Unbumped(a), ToBump(a)' = ToBump(a)
  PROVE  Finite(a)' /\ Cardinality(Occupied(a)') <= Lag(a)'
<1>0. Finite(a) /\ Counted
  BY DEF Lagging, Counted
<1>1. Occupied(a)' = Occupied(a)
  BY DEF Occupied
<1>2. CASE a # b
  <2>1. cache'[a] >= cache[a]
    BY <1>2 DEF TypeOK
  <2> QED BY <1>0, <1>1, <2>1, SameLag
<1>3. CASE a = b
  <2>1. Occupied(a) = {}
    BY <1>3 DEF Lagging, Untouched, Occupied
  <2>2. /\ Cardinality(Unbumped(a)) \in Nat /\ Cardinality(ToBump(a)) \in Nat
        /\ Cardinality(Occupied(a)) = 0 /\ cache'[a] \in Nat
    BY <1>0, <2>1, FS_CardinalityType, FS_EmptySet DEF Finite, TypeOK
  <2> QED BY <1>0, <1>1, <2>2 DEF Finite, Lag
<1> QED BY <1>2, <1>3

LEMMA SignLag ==
  ASSUME TypeOK, TypeOK', Lagging, NEW c \in Calls, Sign(c)
  PROVE  Lagging'
<1> DEFINE b == acct[c]
<1>1. /\ pc[c] = "idle" /\ UNCHANGED <<acct, slot>> /\ b \in Accounts
      /\ \A d \in Calls : d # c => pc'[d] = pc[d] /\ sn'[d] = sn[d]
      /\ pc'[c] \in {"signed", "sent", "failed"}
  BY DEF Sign, SignAs, TypeOK, chain
<1>2. \/ /\ UNCHANGED <<cached, cache>>
         /\ pc'[c] = "failed" \/ b \in cached
      \/ /\ b \notin cached /\ cached' = cached \cup {b}
         /\ cache' = [cache EXCEPT ![b] = next[b]]
  BY DEF Sign, SignAs, TypeOK
<1>3. cached \subseteq cached' /\ (pc'[c] # "failed" => b \in cached')
  BY <1>2
<1>4. \A a \in Accounts, n \in Sns : slot[a][n] # Own(c)
  BY <1>1, TxnsDiffer DEF Lagging, Owned
<1>5. Owned'
  BY <1>1, <1>4, TxnsDiffer DEF Lagging, Owned
<1>6. Cached' /\ Untouched'
  BY <1>1, <1>3 DEF Lagging, Cached, Untouched
<1>7. ASSUME NEW a \in Accounts PROVE Finite(a)' /\ Cardinality(Occupied(a)') <= Lag(a)'
  <2>2. ~Mine(c)' /\ ~Mine(c) /\ \A d \in Calls : d # c => Mine(d)' = Mine(d)
    BY <1>1, <1>4 DEF Mine, TypeOK
  <2>1. ToBump(a)' = ToBump(a)
    BY <1>1, <2>2 DEF ToBump
  <2>3. Unbumped(a)' = Unbumped(a)
    BY <1>1, <2>2 DEF Unbumped
  <2>4. CASE UNCHANGED cache
    <3>1. Occupied(a)' = Occupied(a) /\ cache'[a] >= cache[a]
      BY <1>1, <2>4 DEF Occupied, TypeOK
    <3> QED BY <2>1, <2>3, <3>1, SameLag DEF Lagging
  <2>5. CASE b \notin cached /\ cache' = [cache EXCEPT ![b] = next[b]]
    BY <1>1, <2>1, <2>3, <2>5, FetchLag
  <2> QED BY <1>2, <2>4, <2>5
<1> QED BY <1>5, <1>6, <1>7 DEF Lagging, Counted

LEMMA CreateLag ==
  ASSUME TypeOK, TypeOK', Lagging, NEW b \in Accounts, CreateNextAccount(b)
  PROVE  Lagging'
<1>1. /\ UNCHANGED <<pc, acct, sn, slot>> /\ cached \subseteq cached' /\ b \notin cached
      /\ cache' = [cache EXCEPT ![b] = next[b]] \/ UNCHANGED cache
  BY DEF CreateNextAccount, TypeOK, chain
<1>2. Owned' /\ Cached' /\ Untouched'
  BY <1>1 DEF Lagging, Owned, Cached, Untouched
<1>3. ASSUME NEW a \in Accounts PROVE Finite(a)' /\ Cardinality(Occupied(a)') <= Lag(a)'
  <2>1. ToBump(a)' = ToBump(a) /\ Unbumped(a)' = Unbumped(a)
    BY <1>1 DEF ToBump, Unbumped, Mine
  <2>2. CASE UNCHANGED cache
    <3>1. Occupied(a)' = Occupied(a) /\ cache'[a] >= cache[a]
      BY <1>1, <2>2 DEF Occupied, TypeOK
    <3> QED BY <2>1, <3>1, SameLag DEF Lagging
  <2>3. CASE cache' = [cache EXCEPT ![b] = next[b]]
    BY <1>1, <2>1, <2>3, FetchLag
  <2> QED BY <1>1, <2>2, <2>3
<1> QED BY <1>2, <1>3 DEF Lagging, Counted

\* The other steps move one call that owns nothing, or one that stays counted.
LEMMA MoveLag ==
  ASSUME TypeOK, TypeOK', Lagging, NEW c \in Calls, NEW r,
         pc' = [pc EXCEPT ![c] = r], UNCHANGED <<cached, cache, acct, sn, slot>>,
         \/ pc[c] = "signed" /\ r = "sent"
         \/ pc[c] = "sent" /\ r = "refused"
         \/ pc[c] = "refused" /\ r \in {"hung", "failed"}
         \/ pc[c] = "polling" /\ r \in {"polling", "ok", "failed"}
         \/ pc[c] = "polling" /\ r = "hung" /\ Kind[c] = "await"
  PROVE  Lagging'
<1>1. pc'[c] = r /\ \A d \in Calls : d # c => pc'[d] = pc[d]
  BY DEF TypeOK
<1>2. pc[c] # "polling" => \A a \in Accounts, n \in Sns : slot[a][n] # Own(c)
  BY TxnsDiffer DEF Lagging, Owned
<1>3. Owned'
  BY <1>1, <1>2, TxnsDiffer DEF Lagging, Owned
<1>4. Cached' /\ Untouched'
  BY <1>1 DEF Lagging, Cached, Untouched
<1>5. \A d \in Calls : Mine(d)' = Mine(d)
  BY DEF Mine
<1>6. pc[c] # "polling" => ~Mine(c)
  BY <1>2 DEF Mine, TypeOK
<1>7. ASSUME NEW a \in Accounts PROVE Finite(a)' /\ Cardinality(Occupied(a)') <= Lag(a)'
  <2>1. ToBump(a)' = ToBump(a)
    BY <1>1, <1>5 DEF ToBump
  <2>2. Unbumped(a)' = Unbumped(a)
    BY <1>1, <1>5, <1>6 DEF Unbumped
  <2>3. Occupied(a)' = Occupied(a) /\ cache'[a] >= cache[a]
    BY DEF Occupied, TypeOK
  <2> QED BY <2>1, <2>2, <2>3, SameLag DEF Lagging
<1> QED BY <1>3, <1>4, <1>7 DEF Lagging, Counted

LEMMA StillLag ==
  ASSUME TypeOK, TypeOK', Lagging, UNCHANGED <<cached, cache, pc, acct, sn, slot>>
  PROVE  Lagging'
<1>1. Owned' /\ Cached' /\ Untouched'
  BY DEF Lagging, Owned, Cached, Untouched
<1>2. ASSUME NEW a \in Accounts PROVE Finite(a)' /\ Cardinality(Occupied(a)') <= Lag(a)'
  <2>1. ToBump(a)' = ToBump(a) /\ Unbumped(a)' = Unbumped(a)
    BY DEF ToBump, Unbumped, Mine
  <2>2. Occupied(a)' = Occupied(a) /\ cache'[a] >= cache[a]
    BY DEF Occupied, TypeOK
  <2> QED BY <2>1, <2>2, SameLag DEF Lagging
<1> QED BY <1>1, <1>2 DEF Lagging, Counted

LEMMA NextLag ==
  ~LossyNet /\ ~Others /\ TypeOK /\ TypeOK' /\ Lagging /\ [Next]_vars => Lagging'
<1> SUFFICES ASSUME ~LossyNet, ~Others, TypeOK, TypeOK', Lagging, [Next]_vars
             PROVE  Lagging'
  OBVIOUS
<1>1. ASSUME NEW a \in Accounts, Commit(a) PROVE Lagging'
  BY <1>1, StillLag DEF Commit, client
<1>2. ASSUME NEW c \in Calls, CoSign(c) \/ Refuse(c) \/ Throw(c) \/ Poll(c) PROVE Lagging'
  <2>1. CASE CoSign(c)
    BY <2>1, MoveLag DEF CoSign, client, chain
  <2>2. CASE Refuse(c)
    BY <2>2, MoveLag DEF Refuse, client, chain
  <2>3. CASE Throw(c)
    BY <2>3, MoveLag DEF Throw, AfterError, client, chain
  <2>4. CASE Poll(c)
    BY <2>4, MoveLag DEF Poll, Verdict, client, chain
  <2> QED BY <1>2, <2>1, <2>2, <2>3, <2>4
<1>3. CASE UNCHANGED vars
  BY <1>3, StillLag DEF vars
<1> QED BY <1>1, <1>2, <1>3, AcceptLag, ResumeLag, OvertakenLag, DropLag, SignLag, CreateLag
        DEF Next, ClientStep, Reply, ForeignSubmit

\* m_accounts is behind the numbers the validator holds by no more than the
\* multi-agent transactions of the account, which do not bump it, and its
\* coroutines that were never resumed: not by two coroutines that signed the
\* same number, and not by a forgotten transaction.
\* A lost reply or another program on the account adds numbers of its own.
THEOREM LagIsCounted == ~LossyNet /\ ~Others /\ Spec => []LagIsAccounted
<1> SUFFICES ASSUME ~LossyNet, ~Others PROVE Spec => []LagIsAccounted
  OBVIOUS
<1>1. TypeOK /\ Lagging => LagIsAccounted
  <2> SUFFICES ASSUME TypeOK, Lagging, NEW a \in cached, Quiet(a)
               PROVE  Cardinality(Occupied(a)) <= cache[a] + Cardinality(Unbumped(a))
    BY DEF LagIsAccounted
  <2>1. a \in Accounts /\ ToBump(a) = {}
    BY DEF TypeOK, Quiet, ToBump
  <2>2. Finite(a) /\ Cardinality(Occupied(a)) <= Lag(a)
    BY <2>1 DEF Lagging, Counted
  <2>3. /\ Cardinality(ToBump(a)) = 0 /\ Cardinality(Unbumped(a)) \in Nat
        /\ Cardinality(Occupied(a)) \in Nat /\ cache[a] \in Nat
    BY <2>1, <2>2, FS_EmptySet, FS_CardinalityType, OccupiedFinite DEF Finite, TypeOK
  <2> QED BY <2>2, <2>3 DEF Lag
<1>2. Init => TypeOK /\ Lagging
  BY InitTypeOK, InitLagging
<1>3. (TypeOK /\ Lagging) /\ [Next]_vars => (TypeOK /\ Lagging)'
  BY NextTypeOK, NextLag
<1> QED BY <1>1, <1>2, <1>3, PTL DEF Spec
============================================================================
