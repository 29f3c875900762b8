------------------------------ MODULE Client2 ------------------------------
(***************************************************************************)
(* Client2Imp of cpp/sdk/src/violas_client2.cpp: the sequence numbers the  *)
(* client hands to the transactions it signs.  m_accounts caches one       *)
(* sequence number per account; make_signed_txn reads it before the        *)
(* request leaves and submit_txn_payload bumps it after the reply came     *)
(* back, so whatever happens in between (another coroutine, a lost reply,  *)
(* a co-signer that takes its time) meets a value that may be stale.       *)
(*                                                                         *)
(* A call is one execution of submit + check_txn_vm_status by a user:      *)
(*   "sync"   submit_txn_payload, check_txn_vm_status (blocks its thread)  *)
(*   "await"  await_submit_txn_payload, await_check_txn_vm_status          *)
(*   "multi"  sign_multi_agent_script, sign_and_submit_multi_agent_...,    *)
(*            check_txn_vm_status                                          *)
(*                                                                         *)
(* The validator is external.  It keeps one transaction per (account,      *)
(* sequence number): slot[a][n] is the transaction, pending while          *)
(* n >= next[a] and committed once n < next[a].                            *)
(***************************************************************************)
EXTENDS Integers, FiniteSets

CONSTANTS
  Accounts,   \* account indexes of the wallet, Root, TC and DD included
  Genesis,    \* those whose view the constructor caches (Root, TC, DD)
  Calls,      \* the calls users of the client make
  Kind,       \* Kind[c] is the flavour of call c
  MaxSn,      \* bound on sequence numbers
  MaxPolls,   \* check_txn_vm_status polls this often (50 in the code)
  LossyNet,   \* requests and replies may be lost, or answered by an error
  MayDrop,    \* the validator may forget a pending transaction
  Others      \* other programs send transactions from the same accounts

ASSUME Client2Assumption ==
  /\ Genesis \subseteq Accounts
  /\ Kind \in [Calls -> {"sync", "await", "multi"}]
  /\ MaxSn \in Nat \ {0} /\ MaxPolls \in Nat \ {0}
  /\ LossyNet \in BOOLEAN /\ MayDrop \in BOOLEAN /\ Others \in BOOLEAN

Free    == [tag |-> "free"]
Foreign == [tag |-> "foreign"]
Own(c)  == [tag |-> "own", call |-> c]
Txns    == {Free, Foreign} \cup {Own(c) : c \in Calls}
Sns     == 0 .. MaxSn - 1

VARIABLES
  wallet,   \* m_wallet: the accounts that have been derived so far
  cached,   \* the keys of m_accounts
  cache,    \* m_accounts[a].sequence_number, for a in cached
  pc,       \* where each call stands
  acct, sn, \* the sender and sequence number each call signed
  polls,    \* how often a call has asked for its transaction
  slot,     \* the validator's transactions
  next,     \* the validator's sequence number of each account
  vm        \* the VM status of the committed transactions

client == <<wallet, cached, cache>>
chain  == <<slot, next, vm>>
vars   == <<wallet, cached, cache, pc, acct, sn, polls, slot, next, vm>>

----------------------------------------------------------------------------
\* The constructor: Root, TC and DD are cached when the mint key is given.
Init ==
  /\ wallet = Genesis /\ cached = Genesis
  /\ cache = [a \in Accounts |-> 0]
  /\ pc = [c \in Calls |-> "idle"]
  /\ acct \in [Calls -> Accounts]
  /\ sn = [c \in Calls |-> 0]
  /\ polls = [c \in Calls |-> 0]
  /\ slot = [a \in Accounts |-> [n \in Sns |-> Free]]
  /\ next = [a \in Accounts |-> 0]
  /\ vm = [a \in Accounts |-> [n \in Sns |-> "none"]]

\* A variant: the view is cached but the key is not kept.
CreateNextAccountUnkept(a) ==
  /\ a \notin wallet
  /\ cached' = cached \cup {a}
  /\ cache' = [cache EXCEPT ![a] = next[a]]
  /\ UNCHANGED <<wallet, pc, acct, sn, polls, chain>>

\* create_next_account: the wallet derives the key first; if the validator
\* cannot be asked the account exists in the wallet but not in m_accounts.
CreateNextAccount(a) ==
  /\ a \notin wallet
  /\ wallet' = wallet \cup {a}
  /\ \/ /\ cached' = cached \cup {a}
        /\ cache' = [cache EXCEPT ![a] = next[a]]
     \/ /\ LossyNet
        /\ UNCHANGED <<cached, cache>>
  /\ UNCHANGED <<pc, acct, sn, polls, chain>>

\* Synchronous calls run in one thread, one after the other; a multi-agent
\* transaction does not hold the thread while its co-signer is awaited.
InFlight(c) == pc[c] \in {"sent", "accepted", "refused", "polling"}
ThreadFree(c) ==
  Kind[c] # "await" => \A d \in Calls \ {c} : Kind[d] # "await" => ~InFlight(d)

\* make_signed_txn / the head of sign_multi_agent_script: the cached number,
\* or on a miss the validator's, which is then cached.
SignAs(c, n) ==
  /\ pc' = [pc EXCEPT ![c] = IF Kind[c] = "multi" THEN "signed" ELSE "sent"]
  /\ sn' = [sn EXCEPT ![c] = n]

Sign(c) ==
  /\ pc[c] = "idle" /\ ThreadFree(c)
  /\ LET a == acct[c] IN
     \/ /\ a \in cached /\ cache[a] < MaxSn
        /\ SignAs(c, cache[a])
        /\ UNCHANGED <<cached, cache>>
     \/ /\ a \in wallet \ cached /\ next[a] < MaxSn
        /\ SignAs(c, next[a])
        /\ cached' = cached \cup {a}
        /\ cache' = [cache EXCEPT ![a] = next[a]]
     \/ /\ a \notin cached
        /\ a \in wallet => LossyNet
        /\ pc' = [pc EXCEPT ![c] = "failed"]
        /\ UNCHANGED <<sn, cached, cache>>
  /\ UNCHANGED <<wallet, acct, polls, chain>>

\* sign_and_submit_multi_agent_signed_txn: the co-signer signs and submits.
CoSign(c) ==
  /\ pc[c] = "signed" /\ ThreadFree(c)
  /\ pc' = [pc EXCEPT ![c] = "sent"]
  /\ UNCHANGED <<client, acct, sn, polls, chain>>

----------------------------------------------------------------------------
\* The validator admits a transaction whose number is not used up and not
\* taken by a pending transaction.
Admissible(a, n) == n >= next[a] /\ slot[a][n] = Free

\* Client::submit, the validator's half: admitted, and the reply arrives or
\* is lost on the way back.
Accept(c) ==
  /\ pc[c] = "sent" /\ Admissible(acct[c], sn[c])
  /\ slot' = [slot EXCEPT ![acct[c]][sn[c]] = Own(c)]
  /\ \E r \in IF LossyNet THEN {"accepted", "refused"} ELSE {"accepted"} :
       pc' = [pc EXCEPT ![c] = r]
  /\ UNCHANGED <<client, acct, sn, polls, next, vm>>

\* Not admitted (an "error" reply), or the request never reached it.
Refuse(c) ==
  /\ pc[c] = "sent" /\ (Admissible(acct[c], sn[c]) => LossyNet)
  /\ pc' = [pc EXCEPT ![c] = "refused"]
  /\ UNCHANGED <<client, acct, sn, polls, chain>>

Commit(a) ==
  /\ next[a] \in Sns /\ slot[a][next[a]] # Free
  /\ next' = [next EXCEPT ![a] = @ + 1]
  /\ \E r \in {"executed", "failure"} : vm' = [vm EXCEPT ![a][next[a]] = r]
  /\ UNCHANGED <<client, pc, acct, sn, polls, slot>>

Drop(a, n) ==
  /\ MayDrop /\ n >= next[a] /\ slot[a][n] # Free
  /\ slot' = [slot EXCEPT ![a][n] = Free]
  /\ UNCHANGED <<client, pc, acct, sn, polls, next, vm>>

ForeignSubmit(a) ==
  /\ Others /\ next[a] \in Sns /\ slot[a][next[a]] = Free
  /\ slot' = [slot EXCEPT ![a][next[a]] = Foreign]
  /\ UNCHANGED <<client, pc, acct, sn, polls, next, vm>>

----------------------------------------------------------------------------
\* A variant: the coroutine, which has its own copy of the code, forgets it.
BumpedBySyncOnly(c) ==
  IF Kind[c] = "sync" /\ acct[c] \in cached
    THEN [cache EXCEPT ![acct[c]] = @ + 1]
    ELSE cache

\* submit_txn_payload and await_submit_txn_payload after the reply: bump the
\* cached number.  The multi-agent submit returns without touching it.
Bumped(c) ==
  IF Kind[c] # "multi" /\ acct[c] \in cached
    THEN [cache EXCEPT ![acct[c]] = @ + 1]
    ELSE cache

Resume(c) ==
  /\ pc[c] = "accepted"
  /\ cache' = Bumped(c)
  /\ pc' = [pc EXCEPT ![c] = "polling"]
  /\ UNCHANGED <<wallet, cached, acct, sn, polls, chain>>

\* The other thing a reply can do to a coroutine: await_submit2 has finished
\* between await_ready and await_suspend of who awaits it, the handle is stored
\* in a promise that is gone (CoTask has the steps) and nobody resumes it.
Overtaken(c) ==
  /\ pc[c] = "accepted" /\ Kind[c] = "await"
  /\ pc' = [pc EXCEPT ![c] = "overtaken"]
  /\ UNCHANGED <<client, acct, sn, polls, chain>>

\* A variant: the error is logged and the call goes on.
AfterErrorIgnored(c) == "polling"

\* An error reply is thrown to a synchronous caller.  In await_submit2 it is
\* thrown inside the http continuation, and the coroutine is not resumed; so
\* is a status other than 200, or no answer at all, in every awaited request.
AfterError(c) == IF Kind[c] = "await" THEN "hung" ELSE "failed"

\* A variant: the number is bumped before the error is thrown.
ThrowAfterBump(c) ==
  /\ pc[c] = "refused"
  /\ pc' = [pc EXCEPT ![c] = AfterError(c)]
  /\ cache' = Bumped(c)
  /\ UNCHANGED <<wallet, cached, acct, sn, polls, chain>>

Throw(c) ==
  /\ pc[c] = "refused"
  /\ pc' = [pc EXCEPT ![c] = AfterError(c)]
  /\ UNCHANGED <<client, acct, sn, polls, chain>>

\* check_txn_vm_status: what the transaction at (address, sequence_number)
\* says, or another try, or the timeout.
Verdict(c) ==
  IF sn[c] < next[acct[c]]
    THEN IF vm[acct[c]][sn[c]] = "executed" THEN "ok" ELSE "failed"
    ELSE IF polls[c] + 1 < MaxPolls THEN "polling" ELSE "failed"

\* A variant: the tries are not counted.
PollUncounted(c) ==
  /\ pc[c] = "polling"
  /\ pc' = [pc EXCEPT ![c] = Verdict(c)]
  /\ UNCHANGED <<client, acct, sn, polls, chain>>

\* An "error" in the reply to a poll is thrown by the coroutine itself, after
\* it was resumed; a poll can also be overtaken, like the submission.
Poll(c) ==
  /\ pc[c] = "polling"
  /\ \/ pc' = [pc EXCEPT ![c] = Verdict(c)]
     \/ LossyNet /\ \E r \in {"failed", AfterError(c)} : pc' = [pc EXCEPT ![c] = r]
     \/ Kind[c] = "await" /\ pc' = [pc EXCEPT ![c] = "hung"]
  /\ polls' = [polls EXCEPT ![c] = @ + 1]
  /\ UNCHANGED <<client, acct, sn, chain>>

----------------------------------------------------------------------------
ClientStep(c) ==
  Sign(c) \/ CoSign(c) \/ Resume(c) \/ Overtaken(c) \/ Throw(c) \/ Poll(c)
Reply(c)      == Accept(c) \/ Refuse(c)

Next ==
  \/ \E a \in Accounts : \/ CreateNextAccount(a)
                         \/ Commit(a)
                         \/ ForeignSubmit(a)
                         \/ \E n \in Sns : Drop(a, n)
  \/ \E c \in Calls : ClientStep(c) \/ Reply(c)

Spec == Init /\ [][Next]_vars

\* A thread that is not blocked runs, and the http library answers every
\* request with a reply or with its timeout, on one of its threads.  What the
\* reply does there, resume the coroutine or miss it, is left open, and nothing
\* is assumed of the validator.
Fairness ==
  \A c \in Calls : /\ WF_vars(Resume(c) \/ Overtaken(c) \/ Throw(c) \/ Poll(c))
                  /\ WF_vars(Reply(c))

FairSpec == Spec /\ Fairness

----------------------------------------------------------------------------
\* Type invariant; m_accounts only has entries for accounts of the wallet.
TypeOK ==
  /\ wallet \subseteq Accounts /\ cached \subseteq wallet
  /\ cache \in [Accounts -> Nat]
  /\ pc \in [Calls -> {"idle", "signed", "sent", "accepted", "refused",
                       "polling", "ok", "failed", "hung", "overtaken"}]
  /\ acct \in [Calls -> Accounts] /\ sn \in [Calls -> Sns]
  /\ polls \in [Calls -> Nat]
  /\ slot \in [Accounts -> [Sns -> Txns]]
  /\ next \in [Accounts -> 0 .. MaxSn]
  /\ vm \in [Accounts -> [Sns -> {"none", "executed", "failure"}]]

Mine(c) == slot[acct[c]][sn[c]] = Own(c)

\* check_txn_vm_status returns normally only for a call whose own transaction
\* the VM executed: (address, sequence number) must still mean the
\* transaction this call submitted, and not one of another coroutine, of the
\* multi-agent path or of another program that used the same number.
OwnTxnReported ==
  \A c \in Calls :
    pc[c] = "ok" => Mine(c) /\ vm[acct[c]][sn[c]] = "executed"

\* m_accounts never runs past a number the validator does not hold: a
\* transaction signed beyond such a hole would be admitted and then never
\* executed.  Two coroutines that signed with the same number must not both
\* bump it, and a submission that was thrown away must not bump it at all.
NoSkippedNumber ==
  \A a \in cached : \A n \in 0 .. cache[a] - 1 :
    n \in Sns => slot[a][n] # Free

\* Submissions accepted for account a whose reply was not followed by a bump:
\* multi-agent ones, and coroutines that the reply overtook.
Unbumped(a) ==
  {c \in Calls : /\ acct[c] = a /\ Mine(c)
                 /\ \/ Kind[c] = "multi" /\ pc[c] \in {"accepted", "polling", "ok", "failed"}
                    \/ pc[c] = "overtaken"}

\* Occupied(a): how many numbers of account a are used or pending.
Occupied(a) == {n \in Sns : slot[a][n] # Free}

Quiet(a) == \A c \in Calls : acct[c] = a => pc[c] # "accepted"

\* With no loss and no other program, the cached number is behind the numbers
\* the validator holds by at most the multi-agent transactions submitted from
\* the account (sign_and_submit_multi_agent_signed_txn never bumps m_accounts)
\* and the coroutines that were never resumed after their submission.  Each of
\* them costs the account its next call, and nothing else does, not two
\* coroutines with one number nor a transaction forgotten in between.
LagIsAccounted ==
  \A a \in cached :
    Quiet(a) => Cardinality(Occupied(a)) <= cache[a] + Cardinality(Unbumped(a))

\* A blocking call comes back: with a verdict, an exception of submit, or the
\* exception after MaxPolls polls, whatever the validator does.
BlockingCallReturns ==
  \A c \in Calls :
    Kind[c] # "await" => (pc[c] = "sent" ~> pc[c] \in {"ok", "failed"})

\* A coroutine does not poll for ever: once it has sent its transaction it gets
\* a verdict or an exception, or it is one that nothing will resume, because an
\* error was thrown in the http continuation or because a reply overtook its
\* await_suspend.  It is the await copy of the poll loop that must be bounded.
CoroutineEnds ==
  \A c \in Calls :
    Kind[c] = "await" =>
      (pc[c] = "sent" ~> pc[c] \in {"ok", "failed", "hung", "overtaken"})
============================================================================
