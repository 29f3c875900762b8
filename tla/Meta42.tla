------------------------------- MODULE Meta42 -------------------------------
(***************************************************************************)
(* The contract move/meta42/meta42.move and the history of shared tokens   *)
(* that cpp/meta42-cli/src/meta42.cpp keeps in db.sqlite.                  *)
(*                                                                         *)
(* A token is its HDFS path and its id the hash of it: tokens are their    *)
(* own ids.  The events of the user accounts repeat the ones of GlobalInfo *)
(* and are left out.                                                       *)
(*                                                                         *)
(* query_shared_token_events_history counts the rows, asks the chain for   *)
(* the number of events, fetches the ones it has not stored yet, stores    *)
(* them row by row and runs a recursive SQL query over the table.  The     *)
(* shell starts it and does not wait: several can be under way.            *)
(***************************************************************************)
EXTENDS Integers, Sequences

CONSTANTS
  Accounts,
  Admin,      \* get_admin_address
  Members,    \* the child accounts of the administrator
  Tokens,
  Queries,    \* query-shared-token-history commands of one session
  MaxEvents   \* bound on the shares

ASSUME Meta42Assumption ==
  /\ Admin \in Accounts /\ Members \subseteq Accounts \ {Admin}
  /\ MaxEvents \in Nat

VARIABLES
  open,       \* GlobalInfo exists
  accepted,   \* the accounts with an AccountInfo
  tokens,     \* AccountInfo.tokens
  minted,     \* GlobalInfo.minted_events
  events,     \* GlobalInfo.shared_events
  db,         \* the table shared_token_events
  query,      \* the coroutine of each command
  overlapped  \* two queries have been filling the table at a time

chain == <<open, accepted, tokens, minted, events>>
vars  == <<open, accepted, tokens, minted, events, db, query, overlapped>>

Idle  == [at |-> "idle", count |-> 0, event_count |-> 0, rows |-> <<>>]
Event == [sender : Accounts, receiver : Accounts, token : Tokens]

Init ==
  /\ open = FALSE /\ accepted = {} /\ minted = {} /\ events = <<>>
  /\ tokens = [a \in Accounts |-> {}]
  /\ db = <<>> /\ overlapped = FALSE
  /\ query = [q \in Queries |-> Idle]

----------------------------------------------------------------------------
\* The contract.  A transaction is atomic, an abort leaves no trace.

IsMeta42(a) == a \in Members \cup {Admin}        \* assert_mate42_account

initialize ==
  /\ open' = TRUE
  /\ accepted' = accepted \cup {Admin}
  /\ UNCHANGED <<tokens, minted, events, db, query, overlapped>>

accept(a) ==
  /\ IsMeta42(a)
  /\ accepted' = accepted \cup {a}
  /\ UNCHANGED <<open, tokens, minted, events, db, query, overlapped>>

\* A variant: the event goes to the minter's account only.
MintUnannounced(a, k) ==
  /\ IsMeta42(a) /\ open /\ k \notin tokens[a]
  /\ accepted' = accepted \cup {a}
  /\ tokens' = [tokens EXCEPT ![a] = @ \cup {k}]
  /\ UNCHANGED <<open, minted, events, db, query, overlapped>>

\* mint_token accepts on the way; emit_minted_event needs GlobalInfo.
mint_token(a, k) ==
  /\ IsMeta42(a) /\ open /\ k \notin tokens[a]
  /\ accepted' = accepted \cup {a}
  /\ tokens' = [tokens EXCEPT ![a] = @ \cup {k}]
  /\ minted' = minted \cup {<<a, k>>}
  /\ UNCHANGED <<open, events, db, query, overlapped>>

\* A variant: a receiver that has the token gets the event again.
ShareAgain(a, r, k) ==
  /\ IsMeta42(a) /\ {a, r} \subseteq accepted /\ open
  /\ k \in tokens[a] /\ Len(events) < MaxEvents
  /\ tokens' = [tokens EXCEPT ![r] = @ \cup {k}]
  /\ events' = Append(events, [sender |-> a, receiver |-> r, token |-> k])
  /\ UNCHANGED <<open, accepted, minted, db, query, overlapped>>

\* share_token_by_index; share_token_by_id finds the index first.
share_token(a, r, k) ==
  /\ IsMeta42(a) /\ {a, r} \subseteq accepted /\ open
  /\ k \in tokens[a] /\ k \notin tokens[r]
  /\ Len(events) < MaxEvents
  /\ tokens' = [tokens EXCEPT ![r] = @ \cup {k}]
  /\ events' = Append(events, [sender |-> a, receiver |-> r, token |-> k])
  /\ UNCHANGED <<open, accepted, minted, db, query, overlapped>>

----------------------------------------------------------------------------
\* The history.

Filling(q) == query[q].at \in {"counted", "asked", "storing"}
At(q, r)   == query' = [query EXCEPT ![q] = r]

\* The command: sync_schema and count, then the state of the administrator
\* is asked for.
Start(q) ==
  /\ query[q].at = "idle"
  /\ At(q, [Idle EXCEPT !.at = "counted", !.count = Len(db)])
  /\ overlapped' = (overlapped \/ \E p \in Queries : Filling(p))
  /\ UNCHANGED <<chain, db>>

\* The account state arrives; get_resource finds nothing before initialize.
GotState(q) ==
  /\ query[q].at = "counted"
  /\ IF open /\ query[q].count < Len(events)
       THEN At(q, [query[q] EXCEPT !.at = "asked", !.event_count = Len(events)])
       ELSE At(q, [query[q] EXCEPT !.at = "show", !.event_count = Len(events)])
  /\ UNCHANGED <<chain, db, overlapped>>

\* get_events(handle, start, limit) of the validator.
EventsFrom(start, limit) ==
  SubSeq(events, start + 1, IF start + limit < Len(events) THEN start + limit ELSE Len(events))

\* A variant: the numbers of events are taken to start at one.
GotEventsFromOne(q) ==
  /\ query[q].at = "asked"
  /\ At(q, [query[q] EXCEPT !.at = "storing",
                            !.rows = EventsFrom(query[q].count + 1, query[q].event_count)])
  /\ UNCHANGED <<chain, db, overlapped>>

\* The events arrive: whatever the chain holds by then, from number count,
\* event_count of them at most.
GotEvents(q) ==
  /\ query[q].at = "asked"
  /\ At(q, [query[q] EXCEPT !.at = "storing",
                            !.rows = EventsFrom(query[q].count, query[q].event_count)])
  /\ UNCHANGED <<chain, db, overlapped>>

\* storage.insert, a statement of its own for each row: it leaves out the
\* primary key sn, which SQLite numbers itself.
Insert(q) ==
  /\ query[q].at = "storing" /\ query[q].rows # <<>>
  /\ db' = Append(db, Head(query[q].rows))
  /\ At(q, [query[q] EXCEPT !.rows = Tail(@)])
  /\ UNCHANGED <<chain, overlapped>>

Stored(q) ==
  /\ query[q].at = "storing" /\ query[q].rows = <<>>
  /\ At(q, [query[q] EXCEPT !.at = "show"])
  /\ UNCHANGED <<chain, db, overlapped>>

\* An error reply or a busy database: caught, and what there is is shown.
Fail(q) ==
  /\ Filling(q)
  /\ At(q, [Idle EXCEPT !.at = "showFailed"])
  /\ UNCHANGED <<chain, db, overlapped>>

\* make_recursive_query_shared_token only reads.
Show(q) ==
  /\ query[q].at \in {"show", "showFailed"}
  /\ At(q, Idle)
  /\ UNCHANGED <<chain, db, overlapped>>

\* The shell ends, at whatever point its queries are; the file stays.
Quit ==
  /\ \E q \in Queries : query[q].at # "idle"
  /\ query' = [q \in Queries |-> Idle]
  /\ UNCHANGED <<chain, db, overlapped>>

----------------------------------------------------------------------------
Contract ==
  \/ initialize
  \/ \E a \in Accounts : accept(a)
  \/ \E a \in Accounts, k \in Tokens : mint_token(a, k)
  \/ \E a, r \in Accounts, k \in Tokens : share_token(a, r, k)

History(q) ==
  \/ Start(q) \/ GotState(q) \/ GotEvents(q) \/ Insert(q) \/ Stored(q)
  \/ Fail(q) \/ Show(q)

Next == Contract \/ (\E q \in Queries : History(q)) \/ Quit

Spec == Init /\ [][Next]_vars

----------------------------------------------------------------------------
\* Type invariant; only accounts of meta42 have an AccountInfo, and only they
\* have tokens, although share_token names any receiver.
TypeOK ==
  /\ open \in BOOLEAN /\ overlapped \in BOOLEAN
  /\ accepted \subseteq Members \cup {Admin}
  /\ tokens \in [Accounts -> SUBSET Tokens] /\ \A a \in Accounts : tokens[a] # {} => a \in accepted
  /\ minted \subseteq Accounts \X Tokens
  /\ events \in Seq(Event) /\ db \in Seq(Event)
  /\ query \in [Queries -> [at : {"idle", "counted", "asked", "storing", "show", "showFailed"},
                            count : Nat, event_count : Nat, rows : Seq(Event)]]

\* The events trace every token: whoever has one is an account of meta42 that
\* minted it or that an event names as its receiver, and whoever shared one had
\* minted it, or got it by an earlier event (mint_token, share_token).
Provenance ==
  /\ \A a \in Accounts : \A k \in tokens[a] :
       /\ IsMeta42(a)
       /\ \/ <<a, k>> \in minted
          \/ \E i \in DOMAIN events : events[i].receiver = a /\ events[i].token = k
  /\ \A i \in DOMAIN events :
       \/ <<events[i].sender, events[i].token>> \in minted
       \/ \E j \in 1 .. i - 1 : /\ events[j].token = events[i].token
                                /\ events[j].receiver = events[i].sender

\* The recursive query of make_recursive_query_shared_token comes to an end:
\* it goes from the receiver of a row to its sender with UNION ALL, which
\* would go round for ever if a token came back to an account it had left.
\* Every set of accounts has one that got the token from outside the set.
HistoryEnds ==
  \A k \in Tokens : \A S \in (SUBSET Accounts) \ {{}} :
    \E a \in S : \A i \in DOMAIN db :
      db[i].token = k /\ db[i].receiver = a => db[i].sender \notin S

\* As long as the queries came one after the other, the table is the
\* beginning of the chain's events, wherever earlier queries stopped or
\* failed and whatever the chain did meanwhile; and a query that met no error
\* shows every event the chain had when their number was read.
TableIsPrefix ==
  ~overlapped =>
    /\ Len(db) <= Len(events) /\ db = SubSeq(events, 1, Len(db))
    /\ \A q \in Queries : query[q].at = "show" => Len(db) >= query[q].event_count
============================================================================
