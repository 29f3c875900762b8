---------------------------- MODULE Meta42Proofs ----------------------------
(***************************************************************************)
(* Proofs about Meta42, for any number of accounts, tokens, events and     *)
(* queries.                                                                *)
(*                                                                         *)
(* Traced is the inductive invariant of the contract and of what the table *)
(* takes from it: an account gets a token once, by minting it or by one    *)
(* event.  InTurn is that of the queries while they come one after the     *)
(* other: what the one that fills the table has read still fits the table. *)
(***************************************************************************)
EXTENDS Meta42, SequenceTheorems, WellFoundedInduction, TLAPS

\* There are no events before initialize.
Opened == events # <<>> => open

\* An account gets a token once.
GotOnce ==
  /\ \A m \in minted : m[2] \in tokens[m[1]]
  /\ \A i \in DOMAIN events :
       /\ events[i].token \in tokens[events[i].receiver]
       /\ <<events[i].receiver, events[i].token>> \notin minted
  /\ \A i, j \in DOMAIN events :
       events[i].receiver = events[j].receiver /\ events[i].token = events[j].token => i = j

OfChain(s) == \A i \in DOMAIN s : \E j \in DOMAIN events : s[i] = events[j]

\* What is stored, or about to be, are events of the chain.
FromChain == OfChain(db) /\ \A q \in Queries : OfChain(query[q].rows)

Traced == TypeOK /\ Opened /\ Provenance /\ GotOnce /\ FromChain

\* The sequence s continues the first n elements of e.
Follows(s, n, e) ==
  n + Len(s) <= Len(e) /\ \A i \in DOMAIN s : s[i] = e[n + i]

\* What the query w knows about the table d and the events e of the chain.
Knows(w, d, e) ==
  /\ w.at \in {"counted", "asked"} => w.count = Len(d)
  /\ w.at = "asked" => w.count < w.event_count /\ w.event_count <= Len(e)
  /\ w.at = "storing" =>
       Follows(w.rows, Len(d), e) /\ Len(d) + Len(w.rows) >= w.event_count
  /\ w.at = "show" => Len(d) >= w.event_count

OneFills == \A p, q \in Queries : Filling(p) /\ Filling(q) => p = q

InTurn ==
  ~overlapped =>
    /\ OneFills
    /\ Follows(db, 0, events)
    /\ \A q \in Queries : Knows(query[q], db, events)

----------------------------------------------------------------------------
\* A set of natural numbers has a least one.
LEMMA Least ==
  ASSUME NEW T \in SUBSET Nat, T # {}
  PROVE  \E m \in T : \A n \in T : m <= n
<1> DEFINE R == OpToRel(<, Nat)
<1>1. \E m \in T : \A n \in T : ~(<<n, m>> \in R)
  BY WFMin, NatLessThanWellFounded, Zenon
<1>2. \A n, m \in Nat : <<n, m>> \in R <=> n < m
  BY Zenon DEF OpToRel
<1> HIDE DEF R
<1>3. PICK m \in T : \A n \in T : ~(<<n, m>> \in R)
  BY <1>1
<1>4. ASSUME NEW n \in T PROVE m <= n
  <2>1. m \in Nat /\ n \in Nat
    OBVIOUS
  <2>2. ~(n < m)
    BY <1>2, <1>3, <2>1
  <2> QED BY <2>1, <2>2
<1> QED BY <1>4

\* The steps that leave the contract alone keep what is said of it.
LEMMA ContractKeeps ==
  ASSUME Provenance, GotOnce, Opened, UNCHANGED chain
  PROVE  (Provenance /\ GotOnce /\ Opened)'
BY DEF chain, Provenance, GotOnce, Opened, IsMeta42

LEMMA InitTraced == Init => Traced /\ InTurn
<1> SUFFICES ASSUME Init PROVE Traced /\ InTurn
  OBVIOUS
<1> USE DEF Init
<1>1. \A q \in Queries : query[q] = Idle
  OBVIOUS
<1>2. TypeOK
  <2>1. query \in [Queries -> [at : {"idle", "counted", "asked", "storing", "show", "showFailed"},
                               count : Nat, event_count : Nat, rows : Seq(Event)]]
    BY DEF Idle
  <2>2. events \in Seq(Event) /\ db \in Seq(Event)
    OBVIOUS
  <2>3. tokens \in [Accounts -> SUBSET Tokens] /\ \A a \in Accounts : tokens[a] = {}
    OBVIOUS
  <2> QED BY <2>1, <2>2, <2>3 DEF TypeOK
<1>3. Opened /\ Provenance /\ GotOnce
  BY DEF Opened, Provenance, GotOnce
<1>4. FromChain
  BY <1>1 DEF FromChain, OfChain, Idle
<1>5. InTurn
  BY <1>1 DEF InTurn, OneFills, Filling, Follows, Knows, Idle
<1> QED BY <1>2, <1>3, <1>4, <1>5 DEF Traced

\* A new event: the earlier ones keep their numbers.
LEMMA NewEvent ==
  ASSUME TypeOK, NEW e \in Event, events' = Append(events, e)
  PROVE  /\ events' \in Seq(Event) /\ Len(events') = Len(events) + 1
         /\ Len(events) \in Nat /\ DOMAIN events = 1 .. Len(events)
         /\ DOMAIN events' = 1 .. (Len(events) + 1)
         /\ events'[Len(events) + 1] = e
         /\ \A i \in DOMAIN events : i \in DOMAIN events' /\ events'[i] = events[i]
BY DEF TypeOK

LEMMA ShareTraced ==
  ASSUME Traced, NEW a \in Accounts, NEW r \in Accounts, NEW k \in Tokens,
         share_token(a, r, k)
  PROVE  Traced'
<1> DEFINE e == [sender |-> a, receiver |-> r, token |-> k]
           n == Len(events) + 1
<1>t. /\ TypeOK /\ tokens \in [Accounts -> SUBSET Tokens] /\ events \in Seq(Event)
      /\ minted \subseteq Accounts \X Tokens
  BY DEF Traced, TypeOK
<1>1. /\ open /\ r \in accepted /\ k \in tokens[a] /\ k \notin tokens[r]
      /\ tokens' = [tokens EXCEPT ![r] = @ \cup {k}] /\ events' = Append(events, e)
      /\ UNCHANGED <<open, accepted, minted, db, query, overlapped>>
  BY DEF share_token
<1>2. e \in Event /\ e.sender = a /\ e.receiver = r /\ e.token = k
  BY DEF Event
<1> HIDE DEF e
<1>3. /\ events' \in Seq(Event) /\ n \in Nat \ {0} /\ DOMAIN events = 1 .. (n - 1)
      /\ DOMAIN events' = 1 .. n /\ events'[n] = e
      /\ \A i \in DOMAIN events : i \in DOMAIN events' /\ events'[i] = events[i]
  BY <1>1, <1>2, <1>t, NewEvent
<1> HIDE DEF n
<1>4. /\ tokens' \in [Accounts -> SUBSET Tokens] /\ tokens'[r] = tokens[r] \cup {k}
      /\ \A b \in Accounts : b # r => tokens'[b] = tokens[b]
  BY <1>1, <1>t
<1>5. TypeOK'
  BY <1>1, <1>3, <1>4, <1>t DEF TypeOK
<1>6. Opened'
  BY <1>1 DEF Opened
<1>7. \A i \in DOMAIN events' : i \in DOMAIN events \/ i = n
  BY <1>3
<1>8. Provenance'
  <2>1. ASSUME NEW b \in Accounts, NEW x \in tokens'[b]
        PROVE  /\ IsMeta42(b)
               /\ \/ <<b, x>> \in minted
                  \/ \E i \in DOMAIN events' : events'[i].receiver = b /\ events'[i].token = x
    <3>1. CASE x \in tokens[b]
      BY <3>1, <1>3 DEF Traced, Provenance
    <3>2. CASE b = r /\ x = k
      <4>1. IsMeta42(r)
        BY <1>1, <1>t DEF TypeOK, IsMeta42
      <4>2. n \in DOMAIN events'
        BY <1>3
      <4> QED BY <3>2, <4>1, <4>2, <1>2, <1>3
    <3> QED BY <3>1, <3>2, <1>4
  <2>2. ASSUME NEW i \in DOMAIN events'
        PROVE  \/ <<events'[i].sender, events'[i].token>> \in minted
               \/ \E j \in 1 .. i - 1 : /\ events'[j].token = events'[i].token
                                        /\ events'[j].receiver = events'[i].sender
    <3>1. CASE i \in DOMAIN events
      <4>1. \A j \in 1 .. i - 1 : j \in DOMAIN events
        BY <3>1, <1>3
      <4> QED BY <3>1, <4>1, <1>3 DEF Traced, Provenance
    <3>2. CASE i = n
      <4>1. \/ <<a, k>> \in minted
            \/ \E j \in DOMAIN events : events[j].receiver = a /\ events[j].token = k
        BY <1>1 DEF Traced, Provenance
      <4> QED BY <3>2, <4>1, <1>2, <1>3
    <3> QED BY <3>1, <3>2, <1>7
  <2> QED BY <2>1, <2>2, <1>1 DEF Provenance, IsMeta42
<1>9. GotOnce'
  <2>1. \A m \in minted : m[2] \in tokens'[m[1]]
    BY <1>4, <1>t DEF Traced, GotOnce
  <2>2. <<r, k>> \notin minted
    BY <1>1 DEF Traced, GotOnce
  <2>3. \A i \in DOMAIN events : events[i].receiver # r \/ events[i].token # k
    BY <1>1 DEF Traced, GotOnce
  <2>4. \A i \in DOMAIN events : events[i].receiver \in Accounts
    <3>1. \A i \in DOMAIN events : events[i] \in Event
      BY <1>t
    <3> QED BY <3>1 DEF Event
  <2>5. \A i \in DOMAIN events' :
          /\ events'[i].token \in tokens'[events'[i].receiver]
          /\ <<events'[i].receiver, events'[i].token>> \notin minted
    BY <2>2, <2>4, <1>2, <1>3, <1>4, <1>7 DEF Traced, GotOnce
  <2>6. \A i, j \in DOMAIN events' :
          events'[i].receiver = events'[j].receiver /\ events'[i].token = events'[j].token => i = j
    BY <2>3, <1>2, <1>3, <1>7 DEF Traced, GotOnce
  <2> QED BY <2>1, <2>5, <2>6, <1>1 DEF GotOnce
<1>10. FromChain'
  BY <1>1, <1>3 DEF Traced, FromChain, OfChain
<1> QED BY <1>5, <1>6, <1>8, <1>9, <1>10 DEF Traced

LEMMA MintTraced ==
  ASSUME Traced, NEW a \in Accounts, NEW k \in Tokens, mint_token(a, k)
  PROVE  Traced'
<1>t. /\ TypeOK /\ tokens \in [Accounts -> SUBSET Tokens] /\ events \in Seq(Event)
      /\ minted \subseteq Accounts \X Tokens
  BY DEF Traced, TypeOK
<1>1. /\ IsMeta42(a) /\ k \notin tokens[a] /\ accepted' = accepted \cup {a}
      /\ tokens' = [tokens EXCEPT ![a] = @ \cup {k}] /\ minted' = minted \cup {<<a, k>>}
      /\ UNCHANGED <<open, events, db, query, overlapped>>
  BY DEF mint_token
<1>2. /\ tokens' \in [Accounts -> SUBSET Tokens] /\ tokens'[a] = tokens[a] \cup {k}
      /\ \A b \in Accounts : b # a => tokens'[b] = tokens[b]
  BY <1>1, <1>t
<1>3. TypeOK'
  BY <1>1, <1>2, <1>t DEF TypeOK, IsMeta42
<1>4. Opened' /\ FromChain'
  BY <1>1 DEF Traced, Opened, FromChain, OfChain
<1>5. Provenance'
  BY <1>1, <1>2 DEF Traced, Provenance, IsMeta42
<1>6. GotOnce'
  <2>1. \A i \in DOMAIN events : events[i].receiver \in Accounts
    <3>1. \A i \in DOMAIN events : events[i] \in Event
      BY <1>t
    <3> QED BY <3>1 DEF Event
  <2>2. \A m \in minted' : m[2] \in tokens'[m[1]]
    BY <1>1, <1>2, <1>t DEF Traced, GotOnce
  <2>3. \A i \in DOMAIN events :
          /\ events[i].token \in tokens'[events[i].receiver]
          /\ <<events[i].receiver, events[i].token>> \notin minted'
    BY <2>1, <1>1, <1>2 DEF Traced, GotOnce
  <2> QED BY <2>2, <2>3, <1>1 DEF Traced, GotOnce
<1> QED BY <1>3, <1>4, <1>5, <1>6 DEF Traced

----------------------------------------------------------------------------
Asking == [at : {"idle", "counted", "asked", "storing", "show", "showFailed"},
           count : Nat, event_count : Nat, rows : Seq(Event)]

LEMMA QueryTyped ==
  ASSUME TypeOK, NEW q \in Queries
  PROVE  /\ query[q] \in Asking
         /\ query[q].count \in Nat /\ query[q].event_count \in Nat
         /\ query[q].rows \in Seq(Event)
<1>1. query[q] \in Asking
  BY DEF TypeOK, Asking
<1> QED BY <1>1 DEF Asking

\* The records that the steps of a query make.
LEMMA WithRows ==
  ASSUME NEW w \in Asking, NEW s \in Seq(Event)
  PROVE  LET r == [w EXCEPT !.rows = s]
         IN  r \in Asking /\ r.at = w.at /\ r.event_count = w.event_count /\ r.rows = s
BY DEF Asking

LEMMA Storing ==
  ASSUME NEW w \in Asking, NEW s \in Seq(Event)
  PROVE  LET r == [w EXCEPT !.at = "storing", !.rows = s]
         IN  r \in Asking /\ r.at = "storing" /\ r.event_count = w.event_count /\ r.rows = s
BY DEF Asking

LEMMA Showing ==
  ASSUME NEW w \in Asking
  PROVE  LET r == [w EXCEPT !.at = "show"]
         IN  r \in Asking /\ r.at = "show" /\ r.event_count = w.event_count /\ r.rows = w.rows
BY DEF Asking

LEMMA FromIdle ==
  /\ Idle \in Asking /\ Idle.at = "idle" /\ Idle.rows = <<>>
  /\ \A n \in Nat : LET r == [Idle EXCEPT !.at = "counted", !.count = n]
                   IN  r \in Asking /\ r.at = "counted" /\ r.count = n /\ r.rows = <<>>
  /\ LET r == [Idle EXCEPT !.at = "showFailed"]
     IN  r \in Asking /\ r.at = "showFailed" /\ r.rows = <<>>
<1>1. Idle \in Asking /\ Idle.at = "idle" /\ Idle.rows = <<>>
  BY DEF Asking, Idle
<1>2. ASSUME NEW n \in Nat
      PROVE  LET r == [Idle EXCEPT !.at = "counted", !.count = n]
             IN  r \in Asking /\ r.at = "counted" /\ r.count = n /\ r.rows = <<>>
  BY <1>1 DEF Asking
<1>3. LET r == [Idle EXCEPT !.at = "showFailed"]
      IN  r \in Asking /\ r.at = "showFailed" /\ r.rows = <<>>
  BY <1>1 DEF Asking
<1> QED BY <1>1, <1>2, <1>3

\* A step of one query.
LEMMA OneQuery ==
  ASSUME TypeOK, NEW q \in Queries, NEW r \in Asking, At(q, r)
  PROVE  /\ query' \in [Queries -> Asking] /\ query'[q] = r
         /\ \A p \in Queries : p # q => query'[p] = query[p]
BY DEF TypeOK, Asking, At

\* What get_events gives are consecutive events of the chain.
LEMMA EventsFromIs ==
  ASSUME events \in Seq(Event), NEW start \in Nat, NEW limit \in Nat
  PROVE  /\ EventsFrom(start, limit) \in Seq(Event)
         /\ \A i \in DOMAIN EventsFrom(start, limit) :
              start + i \in DOMAIN events /\ EventsFrom(start, limit)[i] = events[start + i]
         /\ start <= Len(events) => start + Len(EventsFrom(start, limit))
                 = IF start + limit < Len(events) THEN start + limit ELSE Len(events)
<1> DEFINE m == IF start + limit < Len(events) THEN start + limit ELSE Len(events)
           s == EventsFrom(start, limit)
<1>1. Len(events) \in Nat /\ DOMAIN events = 1 .. Len(events) /\ m \in Nat /\ m <= Len(events)
      /\ (start <= Len(events) => start <= m)
  OBVIOUS
<1>2. s = SubSeq(events, start + 1, m)
  BY DEF EventsFrom
<1> HIDE DEF m, s
<1>3. CASE start + 1 <= m
  <2>1. s \in Seq(Event) /\ Len(s) = m - start
    BY <1>1, <1>2, <1>3
  <2>2. \A i \in 1 .. (m - start) : s[i] = events[start + i]
    BY <1>1, <1>2, <1>3
  <2>3. \A i \in DOMAIN s : start + i \in DOMAIN events /\ s[i] = events[start + i]
    BY <2>1, <2>2, <1>1
  <2> QED BY <2>1, <2>3, <1>1 DEF s, m
<1>4. CASE ~(start + 1 <= m)
  <2>1. s = <<>>
    BY <1>1, <1>2, <1>4
  <2>2. start <= Len(events) => start = m
    BY <1>1, <1>4
  <2>3. s \in Seq(Event) /\ DOMAIN s = {} /\ Len(s) = 0
    BY <2>1
  <2>4. start <= Len(events) => start + Len(s) = m
    BY <2>2, <2>3
  <2> QED BY <2>3, <2>4 DEF s, m
<1> QED BY <1>3, <1>4

\* A step of a query that puts no event into the table leaves all that is said
\* of the contract as it is; its rows are events of the chain.
LEMMA QueryTraced ==
  ASSUME Traced, NEW q \in Queries, NEW r \in Asking, At(q, r), UNCHANGED <<chain, db>>,
         overlapped' \in BOOLEAN, OfChain(r.rows)
  PROVE  Traced'
<1>1. /\ query' \in [Queries -> Asking] /\ query'[q] = r
      /\ \A p \in Queries : p # q => query'[p] = query[p]
  BY OneQuery DEF Traced
<1>2. TypeOK'
  BY <1>1 DEF Traced, TypeOK, chain, Asking
<1>3. (Provenance /\ GotOnce /\ Opened)'
  BY ContractKeeps DEF Traced
<1>4. FromChain'
  BY <1>1 DEF Traced, FromChain, OfChain, chain
<1> QED BY <1>2, <1>3, <1>4 DEF Traced

LEMMA InsertTraced ==
  ASSUME Traced, NEW q \in Queries, Insert(q)
  PROVE  Traced'
<1> DEFINE w == query[q]
           r == [w EXCEPT !.rows = Tail(@)]
<1>1. w \in Asking /\ w.rows \in Seq(Event) /\ w.rows # <<>> /\ db \in Seq(Event)
  BY QueryTyped DEF Traced, Insert, TypeOK
<1>2. /\ r \in Asking /\ r.rows = Tail(w.rows) /\ At(q, r)
      /\ db' = Append(db, Head(w.rows)) /\ UNCHANGED <<chain, overlapped>>
  <2>1. At(q, r) /\ db' = Append(db, Head(w.rows)) /\ UNCHANGED <<chain, overlapped>>
    BY DEF Insert
  <2>2. Tail(w.rows) \in Seq(Event)
    BY <1>1
  <2>3. r \in Asking /\ r.rows = Tail(w.rows)
    BY <2>2, <1>1, WithRows, Zenon
  <2> HIDE DEF r
  <2> QED BY <2>1, <2>3
<1> HIDE DEF r
<1>3. /\ query' \in [Queries -> Asking] /\ query'[q] = r
      /\ \A p \in Queries : p # q => query'[p] = query[p]
  BY <1>2, OneQuery DEF Traced
<1>4. OfChain(w.rows) /\ OfChain(db)
  BY DEF Traced, FromChain
<1> HIDE DEF w
<1>5. /\ \A i \in DOMAIN r.rows : i + 1 \in DOMAIN w.rows /\ r.rows[i] = w.rows[i + 1]
      /\ 1 \in DOMAIN w.rows /\ Head(w.rows) = w.rows[1] /\ Head(w.rows) \in Event
  BY <1>1, <1>2
<1>6. /\ db' \in Seq(Event)
      /\ \A i \in DOMAIN db' : (i \in DOMAIN db /\ db'[i] = db[i]) \/ db'[i] = w.rows[1]
  BY <1>1, <1>2, <1>5
<1>7. OfChain(r.rows) /\ OfChain(db')
  BY <1>4, <1>5, <1>6 DEF OfChain
<1>8. FromChain'
  <2>1. events' = events
    BY <1>2 DEF chain
  <2>2. \A p \in Queries : OfChain(query'[p].rows)
    BY <1>3, <1>7 DEF Traced, FromChain
  <2> QED BY <2>1, <2>2, <1>7 DEF FromChain, OfChain
<1>9. TypeOK'
  BY <1>2, <1>3, <1>6 DEF Traced, TypeOK, chain, Asking
<1>10. (Provenance /\ GotOnce /\ Opened)'
  BY <1>2, ContractKeeps DEF Traced
<1> QED BY <1>8, <1>9, <1>10 DEF Traced

\* Every step keeps Traced.
LEMMA StepTraced ==
  ASSUME Traced, [Next]_vars
  PROVE  Traced'
<1>t. /\ TypeOK /\ events \in Seq(Event) /\ db \in Seq(Event)
      /\ Len(events) \in Nat /\ Len(db) \in Nat
  BY DEF Traced, TypeOK
<1>e. OfChain(<<>>)
  BY DEF OfChain
<1>1. CASE initialize \/ \E a \in Accounts : accept(a)
  <2>1. /\ UNCHANGED <<tokens, minted, events, db, query, overlapped>>
        /\ open => open'
        /\ accepted \subseteq accepted' /\ accepted' \subseteq Members \cup {Admin}
    BY <1>1 DEF initialize, accept, IsMeta42, Traced, TypeOK
  <2>2. TypeOK'
    <3>1. open' \in BOOLEAN
      BY <1>1, <1>t DEF initialize, accept, TypeOK
    <3>2. overlapped' \in BOOLEAN
      BY <2>1, <1>t DEF TypeOK
    <3>3. /\ tokens' \in [Accounts -> SUBSET Tokens]
          /\ \A a \in Accounts : tokens'[a] # {} => a \in accepted'
      BY <2>1, <1>t DEF TypeOK
    <3>4. /\ minted' \subseteq Accounts \X Tokens
          /\ events' \in Seq(Event) /\ db' \in Seq(Event)
          /\ query' \in [Queries -> Asking]
      BY <2>1, <1>t DEF TypeOK, Asking
    <3> QED BY <2>1, <3>1, <3>2, <3>3, <3>4 DEF TypeOK, Asking
  <2>3. (Provenance /\ GotOnce /\ Opened)'
    BY <2>1 DEF Traced, Provenance, GotOnce, Opened, IsMeta42
  <2>4. FromChain'
    BY <2>1 DEF Traced, FromChain, OfChain
  <2> QED BY <2>2, <2>3, <2>4 DEF Traced
<1>2. CASE Contract
  BY <1>1, <1>2, MintTraced, ShareTraced DEF Contract
<1>3. ASSUME NEW q \in Queries, Start(q) PROVE Traced'
  <2>1. /\ At(q, [Idle EXCEPT !.at = "counted", !.count = Len(db)]) /\ UNCHANGED <<chain, db>>
        /\ overlapped' \in BOOLEAN
    BY <1>3 DEF Start
  <2> DEFINE r == [Idle EXCEPT !.at = "counted", !.count = Len(db)]
  <2>2. r \in Asking /\ r.rows = <<>>
    BY <1>t, FromIdle, Zenon
  <2> HIDE DEF r
  <2> QED BY <2>1, <2>2, <1>e, QueryTraced DEF r
<1>4. ASSUME NEW q \in Queries, GotState(q) PROVE Traced'
  <2>1. PICK x \in {"asked", "show"} :
          At(q, [query[q] EXCEPT !.at = x, !.event_count = Len(events)])
    BY <1>4 DEF GotState
  <2> DEFINE r == [query[q] EXCEPT !.at = x, !.event_count = Len(events)]
  <2>2. query[q] \in Asking
    BY <1>t, QueryTyped
  <2>3. r \in Asking /\ r.rows = query[q].rows
    BY <1>t, <2>2 DEF Asking
  <2>4. OfChain(r.rows) /\ UNCHANGED <<chain, db>> /\ overlapped' \in BOOLEAN
    BY <2>3, <1>4, <1>t DEF GotState, Traced, FromChain, TypeOK
  <2> HIDE DEF r
  <2> QED BY <2>1, <2>3, <2>4, QueryTraced DEF r
<1>5. ASSUME NEW q \in Queries, GotEvents(q) PROVE Traced'
  <2> DEFINE w == query[q]
             s == EventsFrom(w.count, w.event_count)
             r == [w EXCEPT !.at = "storing", !.rows = s]
  <2>1. At(q, r) /\ UNCHANGED <<chain, db>> /\ overlapped' \in BOOLEAN
    BY <1>5, <1>t DEF GotEvents, TypeOK
  <2>2. w \in Asking /\ w.count \in Nat /\ w.event_count \in Nat
    BY <1>t, QueryTyped
  <2>3. s \in Seq(Event) /\ \A i \in DOMAIN s : \E j \in DOMAIN events : s[i] = events[j]
    BY <2>2, <1>t, EventsFromIs
  <2> HIDE DEF s
  <2>4. r \in Asking /\ r.rows = s
    BY <2>2, <2>3, Storing, Zenon
  <2>5. OfChain(r.rows)
    BY <2>3, <2>4 DEF OfChain
  <2> HIDE DEF r
  <2> QED BY <2>1, <2>4, <2>5, QueryTraced
<1>6. ASSUME NEW q \in Queries, Stored(q) PROVE Traced'
  <2> DEFINE r == [query[q] EXCEPT !.at = "show"]
  <2>1. At(q, r) /\ UNCHANGED <<chain, db>> /\ overlapped' \in BOOLEAN
    BY <1>6, <1>t DEF Stored, TypeOK
  <2>2. query[q] \in Asking
    BY <1>t, QueryTyped
  <2>3. r \in Asking /\ r.rows = query[q].rows
    BY <2>2, Showing, Zenon
  <2>4. OfChain(r.rows)
    BY <2>3 DEF Traced, FromChain
  <2> HIDE DEF r
  <2> QED BY <2>1, <2>3, <2>4, QueryTraced
<1>7. ASSUME NEW q \in Queries, Fail(q) PROVE Traced'
  <2> DEFINE r == [Idle EXCEPT !.at = "showFailed"]
  <2>1. At(q, r) /\ UNCHANGED <<chain, db>> /\ overlapped' \in BOOLEAN
    BY <1>7, <1>t DEF Fail, TypeOK
  <2>2. r \in Asking /\ r.rows = <<>>
    BY FromIdle, Zenon
  <2> HIDE DEF r
  <2> QED BY <2>1, <2>2, <1>e, QueryTraced
<1>8. ASSUME NEW q \in Queries, Show(q) PROVE Traced'
  <2>1. At(q, Idle) /\ UNCHANGED <<chain, db>> /\ overlapped' \in BOOLEAN
    BY <1>8, <1>t DEF Show, TypeOK
  <2> QED BY <2>1, <1>e, FromIdle, QueryTraced
<1>9. CASE Quit
  <2>1. query' = [q \in Queries |-> Idle] /\ UNCHANGED <<chain, db, overlapped>>
    BY <1>9 DEF Quit
  <2>2. TypeOK'
    BY <2>1, <1>t, FromIdle DEF TypeOK, chain, Asking
  <2>3. (Provenance /\ GotOnce /\ Opened)'
    BY <2>1, ContractKeeps DEF Traced
  <2>4. FromChain'
    <3>1. \A q \in Queries : query'[q].rows = <<>>
      BY <2>1, FromIdle
    <3> QED BY <2>1, <3>1 DEF Traced, FromChain, OfChain, chain
  <2> QED BY <2>2, <2>3, <2>4 DEF Traced
<1>10. CASE UNCHANGED vars
  <2>1. TypeOK'
    BY <1>10, <1>t DEF vars, TypeOK
  <2>2. (Provenance /\ GotOnce /\ Opened)'
    BY <1>10, ContractKeeps DEF Traced, vars, chain
  <2>3. FromChain'
    BY <1>10 DEF vars, Traced, FromChain, OfChain
  <2> QED BY <2>1, <2>2, <2>3 DEF Traced
<1> QED BY <1>2, <1>3, <1>4, <1>5, <1>6, <1>7, <1>8, <1>9, <1>10, InsertTraced
        DEF Next, History

----------------------------------------------------------------------------
\* What was read of the chain stays right while it grows.
LEMMA StillFollows ==
  ASSUME NEW e \in Seq(Event), NEW f \in Seq(Event), Len(e) <= Len(f),
         \A i \in DOMAIN e : f[i] = e[i],
         NEW s \in Seq(Event), NEW n \in Nat, Follows(s, n, e)
  PROVE  Follows(s, n, f)
<1>1. /\ Len(s) \in Nat /\ Len(e) \in Nat /\ Len(f) \in Nat
      /\ DOMAIN s = 1 .. Len(s) /\ DOMAIN e = 1 .. Len(e)
  OBVIOUS
<1>2. n + Len(s) <= Len(e) /\ \A i \in DOMAIN s : s[i] = e[n + i]
  BY DEF Follows
<1>3. n + Len(s) <= Len(f)
  BY <1>1, <1>2
<1>4. ASSUME NEW i \in DOMAIN s PROVE s[i] = f[n + i]
  <2>1. n + i \in DOMAIN e
    BY <1>1, <1>2
  <2> QED BY <1>2, <2>1
<1> QED BY <1>3, <1>4 DEF Follows

LEMMA ChainInTurn ==
  ASSUME Traced, InTurn, UNCHANGED <<db, query, overlapped>>, events' \in Seq(Event),
         Len(events) <= Len(events'), \A i \in DOMAIN events : events'[i] = events[i]
  PROVE  InTurn'
<1> SUFFICES ASSUME ~overlapped' PROVE (OneFills /\ Follows(db, 0, events)
               /\ \A q \in Queries : Knows(query[q], db, events))'
  BY DEF InTurn
<1>t. TypeOK /\ events \in Seq(Event) /\ db \in Seq(Event) /\ Len(db) \in Nat
      /\ Len(events) \in Nat /\ Len(events') \in Nat
  BY DEF Traced, TypeOK
<1>1. /\ OneFills /\ Follows(db, 0, events) /\ \A q \in Queries : Knows(query[q], db, events)
      /\ db' = db /\ query' = query
  BY DEF InTurn
<1>2. OneFills'
  BY <1>1 DEF OneFills, Filling
<1>3. Follows(db', 0, events')
  BY <1>1, <1>t, StillFollows
<1>4. ASSUME NEW q \in Queries PROVE Knows(query[q], db, events')
  <2>1. query[q].rows \in Seq(Event) /\ query[q].event_count \in Nat
    BY <1>t, QueryTyped
  <2>2. Knows(query[q], db, events)
    BY <1>1
  <2>3. query[q].at = "storing" => Follows(query[q].rows, Len(db), events')
    BY <2>1, <2>2, <1>t, StillFollows DEF Knows
  <2> QED BY <2>1, <2>2, <2>3, <1>t DEF Knows
<1> QED BY <1>1, <1>2, <1>3, <1>4

\* A step of one query that leaves the table alone.
LEMMA QueryInTurn ==
  ASSUME Traced, InTurn, NEW q \in Queries, NEW r \in Asking, At(q, r),
         UNCHANGED <<chain, db, overlapped>>,
         r.at \in {"counted", "asked", "storing"} => Filling(q),
         ~overlapped => Knows(r, db, events)
  PROVE  InTurn'
<1>1. /\ query'[q] = r /\ \A p \in Queries : p # q => query'[p] = query[p]
  BY OneQuery DEF Traced
<1>2. \A p \in Queries : Filling(p)' => Filling(p)
  BY <1>1 DEF Filling
<1>3. db' = db /\ events' = events /\ overlapped' = overlapped
  BY DEF chain
<1>4. \A p \in Queries : ~overlapped => Knows(query'[p], db', events')
  BY <1>1, <1>3 DEF InTurn
<1> QED BY <1>2, <1>3, <1>4 DEF InTurn, OneFills

LEMMA StartInTurn ==
  ASSUME Traced, InTurn, NEW q \in Queries, Start(q)
  PROVE  InTurn'
<1> DEFINE r == [Idle EXCEPT !.at = "counted", !.count = Len(db)]
<1>1. At(q, r) /\ events' = events /\ db' = db /\ Len(db) \in Nat
  BY DEF Start, chain, Traced, TypeOK
<1>2. ~overlapped' => ~overlapped /\ \A p \in Queries : ~Filling(p)
  BY DEF Start
<1>3. r \in Asking /\ r.at = "counted" /\ r.count = Len(db)
  BY <1>1, FromIdle, Zenon
<1> HIDE DEF r
<1>4. /\ query'[q] = r /\ \A p \in Queries : p # q => query'[p] = query[p]
  BY <1>1, <1>3, OneQuery DEF Traced
<1>5. Knows(r, db, events)
  BY <1>3 DEF Knows
<1>6. ~overlapped' => \A p \in Queries : Knows(query'[p], db', events')
  BY <1>1, <1>2, <1>4, <1>5 DEF InTurn
<1>7. ~overlapped' => OneFills'
  BY <1>2, <1>4 DEF OneFills, Filling
<1> QED BY <1>1, <1>2, <1>6, <1>7 DEF InTurn

LEMMA InsertInTurn ==
  ASSUME Traced, InTurn, NEW q \in Queries, Insert(q)
  PROVE  InTurn'
<1> SUFFICES ASSUME ~overlapped' PROVE (OneFills /\ Follows(db, 0, events)
               /\ \A p \in Queries : Knows(query[p], db, events))'
  BY DEF InTurn
<1> DEFINE w == query[q]
           r == [w EXCEPT !.rows = Tail(@)]
<1>1. /\ w \in Asking /\ w.rows \in Seq(Event) /\ w.rows # <<>> /\ w.at = "storing"
      /\ w.event_count \in Nat /\ db \in Seq(Event) /\ events \in Seq(Event)
  BY QueryTyped DEF Traced, Insert, TypeOK
<1>2. /\ At(q, r) /\ db' = Append(db, Head(w.rows)) /\ events' = events
      /\ overlapped' = overlapped
  BY DEF Insert, chain
<1>3. OneFills /\ Follows(db, 0, events) /\ \A p \in Queries : Knows(query[p], db, events)
  BY <1>2 DEF InTurn
<1>4. /\ r \in Asking /\ r.rows = Tail(w.rows) /\ r.at = w.at /\ r.event_count = w.event_count
  <2>1. Tail(w.rows) \in Seq(Event)
    BY <1>1
  <2> QED BY <2>1, <1>1, WithRows, Zenon
<1>5. Follows(w.rows, Len(db), events) /\ Len(db) + Len(w.rows) >= w.event_count
  BY <1>1, <1>3 DEF Knows
<1> HIDE DEF r
<1>6. /\ query'[q] = r /\ \A p \in Queries : p # q => query'[p] = query[p]
  BY <1>2, <1>4, OneQuery DEF Traced
<1>7. OneFills'
  BY <1>3, <1>4, <1>6, <1>1 DEF OneFills, Filling
<1>8. \A p \in Queries : p # q => query[p].at \notin {"counted", "asked", "storing"}
  BY <1>1, <1>3 DEF OneFills, Filling
<1>9. \A p \in Queries : query[p].event_count \in Nat
  BY QueryTyped DEF Traced
<1> HIDE DEF w
<1>10. /\ Len(db') = Len(db) + 1 /\ Len(db) \in Nat /\ Len(events) \in Nat
       /\ Len(w.rows) \in Nat /\ Len(w.rows) > 0 /\ Len(r.rows) = Len(w.rows) - 1
       /\ db'[Len(db) + 1] = w.rows[1] /\ DOMAIN db' = 1 .. Len(db) + 1
       /\ \A i \in 1 .. Len(db) : db'[i] = db[i]
       /\ \A i \in 1 .. Len(w.rows) - 1 : r.rows[i] = w.rows[i + 1]
       /\ DOMAIN r.rows = 1 .. Len(w.rows) - 1 /\ DOMAIN w.rows = 1 .. Len(w.rows)
       /\ DOMAIN db = 1 .. Len(db)
  BY <1>1, <1>2, <1>4
<1>11. Follows(db', 0, events)
  BY <1>3, <1>5, <1>10 DEF Follows
<1>12. Follows(r.rows, Len(db'), events) /\ Len(db') + Len(r.rows) >= r.event_count
  <2>1. Len(db') + Len(r.rows) = Len(db) + Len(w.rows)
    <3>1. /\ Len(db') = Len(db) + 1 /\ Len(r.rows) = Len(w.rows) - 1
          /\ Len(db) \in Nat /\ Len(w.rows) \in Nat
      BY <1>10
    <3>2. \A x, y \in Nat : (x + 1) + (y - 1) = x + y
      OBVIOUS
    <3> QED BY <3>1, <3>2, Zenon
  <2>2. ASSUME NEW i \in DOMAIN r.rows PROVE r.rows[i] = events[Len(db') + i]
    <3>1. i \in Nat /\ i + 1 \in DOMAIN w.rows /\ r.rows[i] = w.rows[i + 1]
      <4>1. i \in 1 .. Len(w.rows) - 1 /\ Len(w.rows) \in Nat /\ DOMAIN w.rows = 1 .. Len(w.rows)
        BY <1>10, Zenon
      <4>2. r.rows[i] = w.rows[i + 1]
        BY <1>10, <4>1, Zenon
      <4>3. i \in Nat /\ i + 1 \in 1 .. Len(w.rows)
        BY <4>1
      <4> QED BY <4>1, <4>2, <4>3, Zenon
    <3>2. w.rows[i + 1] = events[Len(db) + (i + 1)]
      <4>1. \A j \in DOMAIN w.rows : w.rows[j] = events[Len(db) + j]
        BY <1>5 DEF Follows
      <4> QED BY <3>1, <4>1, Zenon
    <3>3. Len(db) + (i + 1) = Len(db') + i
      <4>1. Len(db) \in Nat /\ Len(db') = Len(db) + 1
        BY <1>10
      <4>2. \A x, y \in Nat : x + (y + 1) = (x + 1) + y
        OBVIOUS
      <4> QED BY <3>1, <4>1, <4>2, Zenon
    <3> QED BY <3>1, <3>2, <3>3
  <2> QED BY <2>1, <2>2, <1>4, <1>5 DEF Follows
<1>13. Knows(r, db', events)
  BY <1>1, <1>4, <1>12 DEF Knows
<1>14. \A p \in Queries : p # q => Knows(query[p], db', events)
  <2> SUFFICES ASSUME NEW p \in Queries, p # q PROVE Knows(query[p], db', events)
    OBVIOUS
  <2>1. /\ query[p].at # "counted" /\ query[p].at # "asked" /\ query[p].at # "storing"
        /\ query[p].event_count \in Nat
    BY <1>8, <1>9
  <2>2. query[p].at = "show" => Len(db') >= query[p].event_count
    BY <2>1, <1>3, <1>10 DEF Knows
  <2> QED BY <2>1, <2>2 DEF Knows
<1> QED BY <1>2, <1>6, <1>7, <1>11, <1>13, <1>14

LEMMA GotStateInTurn ==
  ASSUME Traced, InTurn, NEW q \in Queries, GotState(q)
  PROVE  InTurn'
<1>t. /\ TypeOK /\ events \in Seq(Event) /\ Len(events) \in Nat /\ Len(db) \in Nat
      /\ query[q] \in Asking /\ query[q].count \in Nat
  BY QueryTyped DEF Traced, TypeOK
<1>1. query[q].at = "counted" /\ UNCHANGED <<chain, db, overlapped>>
  BY DEF GotState
<1>2. PICK x \in {"asked", "show"} :
        /\ At(q, [query[q] EXCEPT !.at = x, !.event_count = Len(events)])
        /\ x = "asked" <=> open /\ query[q].count < Len(events)
  BY DEF GotState
<1> DEFINE r == [query[q] EXCEPT !.at = x, !.event_count = Len(events)]
<1>3. r \in Asking /\ r.at = x /\ r.event_count = Len(events) /\ r.count = query[q].count
  BY <1>t DEF Asking
<1> HIDE DEF r
<1>4. Filling(q)
  BY <1>1 DEF Filling
<1>5. open \/ Len(events) = 0
  BY <1>t DEF Traced, Opened
<1>6. ~overlapped => query[q].count = Len(db)
  BY <1>1 DEF InTurn, Knows
<1>7. ~overlapped => Knows(r, db, events)
  BY <1>2, <1>3, <1>5, <1>6, <1>t DEF Knows
<1> QED BY <1>1, <1>2, <1>3, <1>4, <1>7, QueryInTurn DEF r

LEMMA GotEventsInTurn ==
  ASSUME Traced, InTurn, NEW q \in Queries, GotEvents(q)
  PROVE  InTurn'
<1> DEFINE w == query[q]
           s == EventsFrom(w.count, w.event_count)
           r == [w EXCEPT !.at = "storing", !.rows = s]
<1>t. /\ events \in Seq(Event) /\ Len(events) \in Nat /\ Len(db) \in Nat
      /\ w \in Asking /\ w.count \in Nat /\ w.event_count \in Nat
  BY QueryTyped DEF Traced, TypeOK
<1>1. w.at = "asked" /\ At(q, r) /\ UNCHANGED <<chain, db, overlapped>>
  BY DEF GotEvents
<1>2. /\ s \in Seq(Event)
      /\ \A i \in DOMAIN s : s[i] = events[w.count + i]
      /\ w.count <= Len(events) => w.count + Len(s)
            = IF w.count + w.event_count < Len(events) THEN w.count + w.event_count ELSE Len(events)
  BY <1>t, EventsFromIs
<1>3. Filling(q)
  BY <1>1 DEF Filling
<1>4. ~overlapped => /\ w.count = Len(db) /\ w.count < w.event_count
                     /\ w.event_count <= Len(events) /\ Knows(w, db, events)
  BY <1>1 DEF InTurn, Knows
<1> HIDE DEF s
<1>5. r \in Asking /\ r.at = "storing" /\ r.rows = s /\ r.event_count = w.event_count
  BY <1>t, <1>2, Storing, Zenon
<1> HIDE DEF w, r
<1>6. Len(s) \in Nat
  BY <1>2
<1>7. ~overlapped => Follows(s, Len(db), events) /\ Len(db) + Len(s) >= w.event_count
  BY <1>2, <1>4, <1>6, <1>t DEF Follows
<1>8. ~overlapped => Knows(r, db, events)
  BY <1>5, <1>7 DEF Knows
<1> QED BY <1>1, <1>3, <1>5, <1>8, QueryInTurn

\* Every step keeps InTurn.
LEMMA StepInTurn ==
  ASSUME Traced, InTurn, [Next]_vars
  PROVE  InTurn'
<1>t. TypeOK /\ events \in Seq(Event) /\ Len(events) \in Nat /\ Len(db) \in Nat
  BY DEF Traced, TypeOK
<1>1. CASE Contract \/ UNCHANGED vars
  <2>1. UNCHANGED <<db, query, overlapped>>
    BY <1>1 DEF Contract, initialize, accept, mint_token, share_token, vars
  <2>2. \/ events' = events
        \/ \E a, r \in Accounts, k \in Tokens :
             events' = Append(events, [sender |-> a, receiver |-> r, token |-> k])
    BY <1>1 DEF Contract, initialize, accept, mint_token, share_token, vars
  <2>3. events' = events \/ \E e \in Event : events' = Append(events, e)
    BY <2>2 DEF Event
  <2>4. /\ events' \in Seq(Event) /\ Len(events) <= Len(events')
        /\ \A i \in DOMAIN events : events'[i] = events[i]
    BY <2>3, <1>t
  <2> QED BY <2>1, <2>4, ChainInTurn
<1>2. ASSUME NEW q \in Queries, Stored(q) PROVE InTurn'
  <2> DEFINE w == query[q]
             r == [w EXCEPT !.at = "show"]
  <2>1. w.at = "storing" /\ w.rows = <<>> /\ At(q, r) /\ UNCHANGED <<chain, db, overlapped>>
    BY <1>2 DEF Stored
  <2>2. w \in Asking /\ w.event_count \in Nat
    BY <1>t, QueryTyped
  <2>3. r \in Asking /\ r.at = "show" /\ r.event_count = w.event_count
    BY <2>2, Showing, Zenon
  <2>4. ~overlapped => Knows(w, db, events)
    BY DEF InTurn
  <2> HIDE DEF w, r
  <2>5. ~overlapped => Knows(r, db, events)
    BY <2>1, <2>2, <2>3, <2>4, <1>t DEF Knows
  <2> QED BY <2>1, <2>3, <2>5, QueryInTurn
<1>3. ASSUME NEW q \in Queries, Fail(q) PROVE InTurn'
  <2> DEFINE r == [Idle EXCEPT !.at = "showFailed"]
  <2>1. At(q, r) /\ UNCHANGED <<chain, db, overlapped>>
    BY <1>3 DEF Fail
  <2>2. r \in Asking /\ r.at = "showFailed"
    BY FromIdle, Zenon
  <2> HIDE DEF r
  <2>3. Knows(r, db, events)
    BY <2>2 DEF Knows
  <2> QED BY <2>1, <2>2, <2>3, QueryInTurn
<1>4. ASSUME NEW q \in Queries, Show(q) PROVE InTurn'
  <2>1. At(q, Idle) /\ UNCHANGED <<chain, db, overlapped>>
    BY <1>4 DEF Show
  <2>2. Knows(Idle, db, events)
    BY FromIdle DEF Knows
  <2> QED BY <2>1, <2>2, FromIdle, QueryInTurn
<1>5. CASE Quit
  <2>1. query' = [q \in Queries |-> Idle] /\ UNCHANGED <<chain, db, overlapped>>
    BY <1>5 DEF Quit
  <2>2. \A q \in Queries : query'[q].at = "idle"
    BY <2>1, FromIdle
  <2>3. OneFills' /\ \A q \in Queries : Knows(query'[q], db', events')
    BY <2>2 DEF OneFills, Filling, Knows
  <2> QED BY <2>1, <2>3 DEF InTurn, chain
<1> QED BY <1>1, <1>2, <1>3, <1>4, <1>5, StartInTurn, GotStateInTurn, GotEventsInTurn,
           InsertInTurn DEF Next, History

LEMMA SpecTraced == Spec => [](Traced /\ InTurn)
<1>1. (Traced /\ InTurn) /\ [Next]_vars => (Traced /\ InTurn)'
  BY StepTraced, StepInTurn
<1> QED BY <1>1, InitTraced, PTL DEF Spec

\* The contract: every token an account has is traced by the minted and the
\* shared events, and so is every share (mint_token, share_token).
THEOREM TokensAreTraced == Spec => []Provenance
<1>1. Traced => Provenance
  BY DEF Traced
<1> QED BY <1>1, SpecTraced, PTL

\* query_shared_token_events_history: while queries do not overlap, the table
\* is the beginning of the chain's events, and a query that met no error shows
\* as many as the chain had when it asked.
THEOREM TableFollowsChain == Spec => []TableIsPrefix
<1>1. ASSUME Traced, InTurn PROVE TableIsPrefix
  <2> SUFFICES ASSUME ~overlapped
               PROVE  /\ Len(db) <= Len(events) /\ db = SubSeq(events, 1, Len(db))
                      /\ \A q \in Queries : query[q].at = "show" => Len(db) >= query[q].event_count
    BY DEF TableIsPrefix
  <2>1. db \in Seq(Event) /\ events \in Seq(Event) /\ Len(db) \in Nat /\ Len(events) \in Nat
    BY <1>1 DEF Traced, TypeOK
  <2>2. Follows(db, 0, events) /\ \A q \in Queries : Knows(query[q], db, events)
    BY <1>1 DEF InTurn
  <2>3. Len(db) <= Len(events) /\ \A i \in 1 .. Len(db) : db[i] = events[i]
    BY <2>1, <2>2 DEF Follows
  <2>4. db = SubSeq(events, 1, Len(db))
    <3> DEFINE s == SubSeq(events, 1, Len(db))
    <3>1. s \in Seq(Event) /\ Len(s) = Len(db) /\ \A i \in 1 .. Len(db) : s[i] = events[i]
      BY <2>1, <2>3
    <3> HIDE DEF s
    <3>2. db = s
      BY <3>1, <2>1, <2>3, SeqEqual
    <3> QED BY <3>2 DEF s
  <2>5. \A q \in Queries : query[q].at = "show" => Len(db) >= query[q].event_count
    BY <2>2 DEF Knows
  <2> QED BY <2>3, <2>4, <2>5
<1> QED BY <1>1, SpecTraced, PTL

\* make_recursive_query_shared_token: going from receivers to senders in the
\* table never comes back to an account it left, even where overlapping queries
\* stored rows twice or out of order.  Of the accounts of a set, the one that
\* got the token first got it from outside the set.
THEOREM RecursionEnds == Spec => []HistoryEnds
<1>1. ASSUME Traced, NEW k \in Tokens, NEW S \in (SUBSET Accounts) \ {{}}
      PROVE  \E a \in S : \A i \in DOMAIN db :
               db[i].token = k /\ db[i].receiver = a => db[i].sender \notin S
  <2> DEFINE Gets(a, j) == events[j].token = k /\ events[j].receiver = a
             T == {j \in DOMAIN events : events[j].token = k /\ events[j].receiver \in S}
  <2>1. events \in Seq(Event) /\ OfChain(db) /\ Provenance /\ GotOnce
    BY <1>1 DEF Traced, TypeOK, FromChain
  <2>2. SUFFICES \E a \in S : \A j \in DOMAIN events : Gets(a, j) => events[j].sender \notin S
    BY <2>1 DEF OfChain
  <2>3. CASE \E a \in S : \A j \in DOMAIN events : ~Gets(a, j)
    BY <2>3
  <2>4. CASE \A a \in S : \E j \in DOMAIN events : Gets(a, j)
    <3>1. T \in SUBSET Nat /\ T # {}
      <4>1. PICK a : a \in S
        OBVIOUS
      <4>2. PICK j \in DOMAIN events : Gets(a, j)
        BY <4>1, <2>4
      <4>3. j \in T /\ DOMAIN events = 1 .. Len(events) /\ Len(events) \in Nat
        BY <4>1, <4>2, <2>1
      <4> QED BY <4>3
    <3>2. PICK m \in T : \A n \in T : m <= n
      BY <3>1, Least
    <3>3. m \in DOMAIN events /\ m \in Nat /\ Gets(events[m].receiver, m) /\ events[m].receiver \in S
      BY <3>1, <3>2
    <3>4. \A j \in DOMAIN events : Gets(events[m].receiver, j) => j = m
      BY <2>1, <3>3 DEF GotOnce
    <3>5. ASSUME events[m].sender \in S PROVE FALSE
      <4>1. PICK n \in DOMAIN events : Gets(events[m].sender, n)
        BY <2>4, <3>5
      <4>2. <<events[m].sender, k>> \notin minted
        BY <4>1, <2>1 DEF GotOnce
      <4>3. PICK j \in 1 .. m - 1 : events[j].token = k /\ events[j].receiver = events[m].sender
        BY <4>2, <3>3, <2>1 DEF Provenance
      <4>4. j \in T /\ j < m
        BY <4>3, <3>3, <3>5, <2>1
      <4> QED BY <4>4, <3>2, <3>3
    <3> QED BY <3>3, <3>4, <3>5
  <2> QED BY <2>3, <2>4
<1>2. Traced => HistoryEnds
  BY <1>1 DEF HistoryEnds
<1> QED BY <1>2, SpecTraced, PTL
=============================================================================
