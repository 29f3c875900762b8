---------------------------- MODULE CoTaskProofs ----------------------------
(***************************************************************************)
(* Proofs about CoTask, for every tree of calls and every set of worker    *)
(* threads.                                                                *)
(*                                                                         *)
(* Chain is the inductive invariant.  What a step pushes on a thread's     *)
(* stack must be in no stack yet, which pc has to tell: a frame is in a    *)
(* stack only in the states Entered names.  A child that has a handle to   *)
(* resume and has not used it is the one its suspended parent awaits       *)
(* (Handles), and a parent that has not suspended yet has given no handle  *)
(* to the child it has called last (Unlinked), so that each suspension is  *)
(* ended once.  Settled says which children's results a frame has seen.    *)
(***************************************************************************)
EXTENDS CoTask, TLAPS

Inside == {"running", "calling", "suspending", "rethrowing", "finishing", "resuming"}
Over   == {"finishing", "resuming", "freed"}
Waits  == {"calling", "suspending", "suspended"}

\* A thread is only in frames that are not suspended, unborn or gone.
Entered == \A t \in Threads : \A i \in DOMAIN stack[t] : pc[stack[t][i]] \in Inside

\* The children of a frame are called in their order.
Called ==
  /\ \A f \in Frames : \A j \in DOMAIN Children[f] :
       pc[Children[f][j]] = "unborn" <=> done[f] < j
  /\ \A f \in Frames : pc[f] = "unborn" => done[f] = 0

Awaiting == \A f \in Frames : pc[f] \in Waits => done[f] \in DOMAIN Children[f]

Requested == \A f \in net : pc[f] = "requested"

Handles ==
  /\ \A g \in prev : pc[g] \notin {"resuming", "freed"} =>
       pc[Parent(g)] = "suspended" /\ Awaited(Parent(g)) = g
  /\ \A g \in Frames : pc[g] = "resuming" => g \in prev

Unlinked ==
  /\ \A g \in prev : pc[g] # "unborn"
  /\ \A f \in Frames : pc[f] \in {"calling", "suspending"} => Awaited(f) \notin prev

Results == \A f \in Frames : result[f] = "none" <=> pc[f] \notin Over

Settled ==
  \A f \in Frames \ Catching : pc[f] \in Waits \cup {"running"} =>
    \A j \in DOMAIN Children[f] :
      j < done[f] \/ (j = done[f] /\ pc[f] = "running") => result[Children[f][j]] = "value"

Chain ==
  /\ TypeOK /\ RunsOnce /\ Entered /\ Called /\ Awaiting /\ Requested
  /\ Handles /\ Unlinked /\ Results /\ Settled
  /\ WakeUpPending /\ ErrorsPropagate

----------------------------------------------------------------------------
\* A frame is called from one place in one caller.
LEMMA OneParent ==
  ASSUME NEW f \in Frames, NEW j \in DOMAIN Children[f]
  PROVE  /\ Children[f][j] \in Tasks /\ Parent(Children[f][j]) = f
         /\ \A h \in Frames : \A k \in DOMAIN Children[h] :
              Children[h][k] = Children[f][j] => h = f /\ k = j
<1>1. Children[f][j] \in Tasks
  BY CoTaskAssumption
<1>2. \A h \in Frames : \A k \in DOMAIN Children[h] :
        Children[h][k] = Children[f][j] => h = f /\ k = j
  BY <1>1, CoTaskAssumption
<1>3. Parent(Children[f][j]) = f
  BY <1>2 DEF Parent
<1> QED BY <1>1, <1>2, <1>3

LEMMA Family ==
  /\ Tasks \subseteq Frames
  /\ \A g \in Tasks : Parent(g) \in Frames
  /\ \A f \in Frames : \A j \in DOMAIN Children[f] : Children[f][j] \in Frames
<1>1. Tasks \subseteq Frames
  BY DEF Tasks
<1>2. \A g \in Tasks : Parent(g) \in Frames
  BY CoTaskAssumption, OneParent
<1> QED BY <1>1, <1>2, OneParent

\* Entering a frame that no thread is in.
LEMMA Pushed ==
  ASSUME TypeOK, RunsOnce, NEW t \in Threads, NEW g \in Frames,
         \A u \in Threads : \A i \in DOMAIN stack[u] : stack[u][i] # g,
         stack' = [stack EXCEPT ![t] = Append(@, g)]
  PROVE  /\ stack' \in [Threads -> Seq(Frames)] /\ RunsOnce'
         /\ \A u \in Threads : \A i \in DOMAIN stack'[u] :
              stack'[u][i] = g \/ (i \in DOMAIN stack[u] /\ stack'[u][i] = stack[u][i])
<1>1. stack \in [Threads -> Seq(Frames)] /\ stack[t] \in Seq(Frames)
  BY DEF TypeOK
<1>2. stack' \in [Threads -> Seq(Frames)]
  BY <1>1
<1>3. /\ stack'[t] = Append(stack[t], g)
      /\ \A u \in Threads : u # t => stack'[u] = stack[u]
  BY <1>1
<1>4. ASSUME NEW i \in DOMAIN stack'[t]
      PROVE  \/ i = Len(stack[t]) + 1 /\ stack'[t][i] = g
             \/ i \in DOMAIN stack[t] /\ stack'[t][i] = stack[t][i]
  BY <1>1, <1>3
<1>5. \A u \in Threads : \A i \in DOMAIN stack'[u] :
        \/ u = t /\ i = Len(stack[t]) + 1 /\ stack'[u][i] = g
        \/ i \in DOMAIN stack[u] /\ stack'[u][i] = stack[u][i]
  BY <1>3, <1>4
<1>6. RunsOnce'
  BY <1>5 DEF RunsOnce
<1> QED BY <1>2, <1>5, <1>6

\* Leaving the frame that a thread runs: the thread is in it nowhere else.
LEMMA Popped ==
  ASSUME TypeOK, RunsOnce, NEW t \in Threads, NEW f \in Frames, Runs(t, f),
         stack' = [stack EXCEPT ![t] = Left(t)]
  PROVE  /\ stack' \in [Threads -> Seq(Frames)] /\ RunsOnce'
         /\ \A u \in Threads : \A i \in DOMAIN stack'[u] :
              stack'[u][i] # f /\ i \in DOMAIN stack[u] /\ stack'[u][i] = stack[u][i]
<1>1. stack \in [Threads -> Seq(Frames)] /\ stack[t] \in Seq(Frames) /\ stack[t] # <<>>
  BY DEF TypeOK, Runs
<1> DEFINE n == Len(stack[t])
<1>2. n \in Nat \ {0} /\ n \in DOMAIN stack[t] /\ stack[t][n] = f
  BY <1>1 DEF Runs, Top
<1>3. /\ Left(t) \in Seq(Frames) /\ DOMAIN Left(t) = 1 .. (n - 1)
      /\ \A i \in 1 .. (n - 1) : Left(t)[i] = stack[t][i]
  BY <1>1, <1>2 DEF Left
<1>4. stack' \in [Threads -> Seq(Frames)]
  BY <1>1, <1>3
<1>5. stack'[t] = Left(t) /\ \A u \in Threads : u # t => stack'[u] = stack[u]
  BY <1>1
<1>6. DOMAIN stack[t] = 1 .. n
  BY <1>1
<1>7. \A u \in Threads : \A i \in DOMAIN stack'[u] :
        i \in DOMAIN stack[u] /\ stack'[u][i] = stack[u][i] /\ (u = t => i # n)
  BY <1>2, <1>3, <1>5, <1>6
<1>8. \A u \in Threads : \A i \in DOMAIN stack'[u] : stack'[u][i] # f
  BY <1>2, <1>7 DEF RunsOnce
<1>9. RunsOnce'
  BY <1>7 DEF RunsOnce
<1> QED BY <1>4, <1>7, <1>8, <1>9

----------------------------------------------------------------------------
LEMMA InitChain == Init => Chain
<1> SUFFICES ASSUME Init PROVE Chain
  OBVIOUS
<1> USE CoTaskAssumption DEF Init
<1>1. TypeOK
  <2>1. pc \in [Frames -> States] /\ stack \in [Threads -> Seq(Frames)]
    BY DEF States
  <2> QED BY <2>1 DEF TypeOK
<1>2. RunsOnce /\ Entered
  BY DEF RunsOnce, Entered, Inside, Threads
<1>3. Called
  <2> SUFFICES ASSUME NEW f \in Frames, NEW j \in DOMAIN Children[f]
               PROVE  pc[Children[f][j]] = "unborn" /\ done[f] < j
    BY DEF Called
  <2>1. Children[f][j] \in Tasks /\ j \in Nat \ {0}
    OBVIOUS
  <2> QED BY <2>1 DEF Tasks
<1>4. Awaiting /\ Requested /\ Handles /\ Unlinked
  BY DEF Awaiting, Requested, Handles, Unlinked, Waits
<1>5. Results /\ ErrorsPropagate
  BY DEF Results, ErrorsPropagate, Over
<1>6. Settled
  BY DEF Settled, Waits
<1>7. WakeUpPending
  BY DEF WakeUpPending
<1> QED BY <1>1, <1>2, <1>3, <1>4, <1>5, <1>6, <1>7 DEF Chain

\* Call: the child was unborn, so no thread is in it and it has no handle.
LEMMA CallKeeps ==
  ASSUME Chain, NEW t \in Threads, NEW f \in Frames, Call(t, f)
  PROVE  Chain'
<1> DEFINE g == Children[f][done[f] + 1]
<1>t. /\ TypeOK /\ pc \in [Frames -> States] /\ done \in [Frames -> Nat]
      /\ prev \subseteq Frames /\ net \subseteq Frames
  BY DEF Chain, TypeOK, Tasks, Leaves
<1>1. done[f] + 1 \in DOMAIN Children[f] /\ g \in Tasks /\ g \in Frames
  BY <1>t, CoTaskAssumption DEF Call, Tasks
<1>2. pc[f] = "running" /\ pc[g] = "unborn" /\ f # g
  BY <1>t, <1>1 DEF Call, Chain, Called
<1>3. /\ pc'[f] = "calling" /\ pc'[g] = "running"
      /\ \A h \in Frames : h # f /\ h # g => pc'[h] = pc[h]
      /\ done'[f] = done[f] + 1 /\ \A h \in Frames : h # f => done'[h] = done[h]
      /\ UNCHANGED <<prev, result, net, hung, overtaken>>
  BY <1>t, <1>1, <1>2 DEF Call
<1>4. \A u \in Threads : \A i \in DOMAIN stack[u] : stack[u][i] # g
  BY <1>2 DEF Chain, Entered, Inside
<1>5. /\ stack' \in [Threads -> Seq(Frames)] /\ RunsOnce'
      /\ \A u \in Threads : \A i \in DOMAIN stack'[u] :
           stack'[u][i] = g \/ (i \in DOMAIN stack[u] /\ stack'[u][i] = stack[u][i])
  BY <1>1, <1>4, <1>t, Pushed DEF Call, Chain
<1> HIDE DEF g
<1>6. TypeOK'
  <2>1. pc' = [pc EXCEPT ![f] = "calling", ![g] = "running"] /\ done' = [done EXCEPT ![f] = @ + 1]
    BY DEF Call, g
  <2>2. pc' \in [Frames -> States] /\ done' \in [Frames -> Nat]
    BY <2>1, <1>t, <1>1 DEF States
  <2> QED BY <2>2, <1>t, <1>3, <1>5 DEF TypeOK
<1>7. Entered'
  <2>1. \A h \in Frames : pc[h] \in Inside => pc'[h] \in Inside
    BY <1>3, <1>2 DEF Inside
  <2>2. \A u \in Threads : \A i \in DOMAIN stack[u] : stack[u][i] \in Frames
    BY <1>t DEF TypeOK
  <2> QED BY <2>1, <2>2, <1>1, <1>3, <1>5 DEF Chain, Entered, Inside
<1>8. Called'
  <2> SUFFICES ASSUME NEW h \in Frames, NEW k \in DOMAIN Children[h]
               PROVE  pc'[Children[h][k]] = "unborn" <=> done'[h] < k
    BY <1>3 DEF Chain, Called
  <2>1. Children[h][k] \in Frames /\ k \in Nat
    BY CoTaskAssumption DEF Tasks
  <2>2. pc[Children[h][k]] = "unborn" <=> done[h] < k
    BY DEF Chain, Called
  <2>3. CASE Children[h][k] = g
    <3>1. h = f /\ k = done[f] + 1
      BY <2>3, <1>1, OneParent DEF g
    <3> QED BY <3>1, <2>3, <1>t, <1>3
  <2>4. CASE Children[h][k] # g
    <3>1. h = f => k # done[f] + 1
      BY <2>4 DEF g
    <3>2. done'[h] < k <=> done[h] < k
      BY <3>1, <2>1, <1>t, <1>3
    <3>3. pc'[Children[h][k]] = "unborn" <=> pc[Children[h][k]] = "unborn"
      BY <2>1, <2>4, <1>2, <1>3
    <3> QED BY <2>2, <3>2, <3>3
  <2> QED BY <2>3, <2>4
<1>9. Awaiting' /\ Requested'
  <2>1. Awaiting'
    BY <1>t, <1>1, <1>3 DEF Chain, Awaiting, Waits
  <2>2. Requested'
    BY <1>t, <1>2, <1>3 DEF Chain, Requested
  <2> QED BY <2>1, <2>2
<1>p. \A h \in prev : h # g /\ Parent(h) \in Frames
  BY <1>2, <1>t, CoTaskAssumption, OneParent DEF Chain, Unlinked, TypeOK
<1>10. Handles'
  <2>1. \A h \in prev : pc'[h] \notin {"resuming", "freed"} => pc[h] \notin {"resuming", "freed"}
    BY <1>t, <1>p, <1>2, <1>3
  <2>2. \A h \in prev : pc'[h] \notin {"resuming", "freed"} =>
          Parent(h) # f /\ pc[Parent(h)] = "suspended" /\ Awaited(Parent(h)) = h
    BY <2>1, <1>2 DEF Chain, Handles
  <2>3. \A h \in prev : pc'[h] \notin {"resuming", "freed"} =>
          pc'[Parent(h)] = "suspended" /\ Awaited(Parent(h))' = h
    BY <2>2, <1>p, <1>2, <1>3 DEF Awaited
  <2>4. \A h \in Frames : pc'[h] = "resuming" => h \in prev
    BY <1>3 DEF Chain, Handles
  <2> QED BY <2>3, <2>4, <1>3 DEF Handles
<1>11. Unlinked'
  <2>1. \A h \in prev : pc'[h] # "unborn"
    BY <1>t, <1>3 DEF Chain, Unlinked
  <2>2. \A h \in Frames : pc'[h] \in {"calling", "suspending"} => Awaited(h)' \notin prev
    BY <1>p, <1>2, <1>3 DEF Chain, Unlinked, Awaited, g
  <2> QED BY <2>1, <2>2, <1>3 DEF Unlinked
<1>12. Results'
  BY <1>2, <1>3 DEF Chain, Results, Over
<1>13. Settled'
  <2> SUFFICES ASSUME NEW h \in Frames \ Catching, pc'[h] \in Waits \cup {"running"},
                      NEW j \in DOMAIN Children[h],
                      j < done'[h] \/ (j = done'[h] /\ pc'[h] = "running")
               PROVE  result[Children[h][j]] = "value"
    BY <1>3 DEF Settled
  <2>1. CASE h = f
    BY <2>1, <1>t, <1>1, <1>2, <1>3, CoTaskAssumption DEF Chain, Settled
  <2>2. CASE h = g
    <3>1. done'[g] = 0
      BY <1>1, <1>2, <1>3 DEF Chain, Called
    <3>2. j \in Nat \ {0}
      BY CoTaskAssumption
    <3> QED BY <2>2, <3>1, <3>2
  <2>3. CASE h # f /\ h # g
    BY <2>3, <1>3 DEF Chain, Settled
  <2> QED BY <2>1, <2>2, <2>3
<1>14. WakeUpPending'
  <2> SUFFICES ASSUME NEW h \in Frames, pc'[h] = "suspended"
               PROVE  LET k == Awaited(h)' IN
                        k \in overtaken \/ (k \in prev /\ pc'[k] \notin {"unborn", "resuming", "freed"})
    BY <1>3 DEF WakeUpPending
  <2>1. pc[h] = "suspended" /\ Awaited(h)' = Awaited(h)
    BY <1>2, <1>3 DEF Awaited
  <2> QED BY <2>1, <1>p, <1>t, <1>2, <1>3 DEF Chain, WakeUpPending
<1>15. ErrorsPropagate'
  BY <1>3 DEF Chain, ErrorsPropagate
<1> QED BY <1>5, <1>6, <1>7, <1>8, <1>9, <1>10, <1>11, <1>12, <1>13, <1>14, <1>15 DEF Chain

----------------------------------------------------------------------------
Gone == {"resuming", "freed"}

\* A step that takes one frame f from its state to q, neither of which is that
\* of a suspended frame, says nothing to the frame that awaits f unless f ends,
\* and then f had no handle to resume it, or has used it.
LEMMA OneMoves ==
  ASSUME Chain, NEW f \in Frames, NEW q \in States \ {"unborn", "suspended", "resuming"},
         pc' = [pc EXCEPT ![f] = q], pc[f] \notin {"unborn", "suspended"},
         pc[f] \in Gone => q = "freed",
         q = "freed" => f \notin prev \/ pc[f] = "resuming",
         q \in Waits => pc[f] \in Waits,
         \A h \in Frames : done'[h] = done[h] \/ (h = f /\ f \in Leaves /\ q = "running"),
         UNCHANGED <<prev, overtaken>>
  PROVE  (Called /\ Awaiting /\ Handles /\ Unlinked /\ WakeUpPending)'
<1>t. /\ pc \in [Frames -> States] /\ prev \subseteq Tasks /\ Tasks \subseteq Frames
  BY DEF Chain, TypeOK, Tasks
<1>1. pc'[f] = q /\ \A h \in Frames : h # f => pc'[h] = pc[h]
  BY <1>t
<1>2. \A h \in Frames : DOMAIN Children[h] # {} => done'[h] = done[h]
  BY DEF Leaves
<1>3. \A h \in Frames : \A k \in DOMAIN Children[h] : Children[h][k] \in Frames
  BY CoTaskAssumption DEF Tasks
<1>4. \A h \in prev : Parent(h) \in Frames
  BY <1>t, CoTaskAssumption, OneParent
<1>5. \A h \in Frames : pc'[h] \in Waits =>
        pc[h] \in Waits /\ done'[h] = done[h] /\ Awaited(h)' = Awaited(h)
  BY <1>1 DEF Awaited, Waits
<1>6. Called'
  <2>1. \A h \in Frames : pc'[h] = "unborn" <=> pc[h] = "unborn"
    BY <1>1
  <2>2. \A h \in Frames : pc'[h] = "unborn" => done'[h] = done[h]
    BY <1>1
  <2> QED BY <1>2, <1>3, <2>1, <2>2 DEF Chain, Called
<1>7. Awaiting'
  BY <1>5 DEF Chain, Awaiting
<1>8. Handles'
  <2>1. ASSUME NEW g \in prev, pc'[g] \notin Gone
        PROVE  pc'[Parent(g)] = "suspended" /\ Awaited(Parent(g))' = g
    <3>1. pc[g] \notin Gone
      BY <2>1, <1>1, <1>t DEF Gone
    <3>2. pc[Parent(g)] = "suspended" /\ Awaited(Parent(g)) = g
      BY <3>1 DEF Chain, Handles, Gone
    <3> QED BY <3>2, <1>1, <1>4, <1>5 DEF Waits
  <2>2. \A g \in Frames : pc'[g] = "resuming" => g \in prev
    BY <1>1 DEF Chain, Handles
  <2> QED BY <2>1, <2>2 DEF Handles, Gone
<1>9. Unlinked'
  <2>1. \A g \in prev : pc'[g] # "unborn"
    BY <1>t, <1>1 DEF Chain, Unlinked
  <2>2. \A h \in Frames : pc'[h] \in {"calling", "suspending"} =>
          pc[h] \in {"calling", "suspending"} /\ Awaited(h)' = Awaited(h)
    BY <1>1, <1>5 DEF Waits
  <2> QED BY <2>1, <2>2 DEF Chain, Unlinked
<1>10. WakeUpPending'
  <2> SUFFICES ASSUME NEW h \in Frames, pc'[h] = "suspended", Awaited(h) \notin overtaken
               PROVE  Awaited(h) \in prev /\ pc'[Awaited(h)] \notin {"unborn", "resuming", "freed"}
    BY <1>5 DEF WakeUpPending, Waits
  <2>1. pc[h] = "suspended"
    BY <1>1
  <2>2. Awaited(h) \in prev /\ pc[Awaited(h)] \notin {"unborn", "resuming", "freed"}
    BY <2>1 DEF Chain, WakeUpPending
  <2> QED BY <2>2, <1>1, <1>t
<1> QED BY <1>6, <1>7, <1>8, <1>9, <1>10

\* The stacks stay as they are, or a thread leaves the frame it runs.
LEMMA StacksKeep ==
  ASSUME Chain, NEW t \in Threads, NEW f \in Frames, Runs(t, f),
         NEW q \in States, pc' = [pc EXCEPT ![f] = q],
         \/ UNCHANGED stack /\ q \in Inside
         \/ stack' = [stack EXCEPT ![t] = Left(t)]
  PROVE  /\ stack' \in [Threads -> Seq(Frames)] /\ pc' \in [Frames -> States]
         /\ (RunsOnce /\ Entered)'
<1>t. TypeOK /\ RunsOnce /\ Entered /\ pc \in [Frames -> States]
  BY DEF Chain, TypeOK
<1>1. pc' \in [Frames -> States] /\ pc'[f] = q /\ \A h \in Frames : h # f => pc'[h] = pc[h]
  BY <1>t
<1>2. \A u \in Threads : \A i \in DOMAIN stack[u] : stack[u][i] \in Frames
  BY <1>t DEF TypeOK
<1>3. CASE UNCHANGED stack /\ q \in Inside
  <2>1. Entered'
    BY <1>t, <1>1, <1>2, <1>3 DEF Entered
  <2> QED BY <1>1, <1>3, <1>t, <2>1 DEF RunsOnce, TypeOK
<1>4. CASE stack' = [stack EXCEPT ![t] = Left(t)]
  <2>1. /\ stack' \in [Threads -> Seq(Frames)] /\ RunsOnce'
        /\ \A u \in Threads : \A i \in DOMAIN stack'[u] :
             stack'[u][i] # f /\ i \in DOMAIN stack[u] /\ stack'[u][i] = stack[u][i]
    BY <1>t, <1>4, Popped
  <2>2. Entered'
    BY <2>1, <1>t, <1>1, <1>2 DEF Entered
  <2> QED BY <2>1, <2>2, <1>1
<1> QED BY <1>3, <1>4

\* A step that changes no result, and lets f run on only if it could already.
LEMMA ResultsKeep ==
  ASSUME Chain, NEW f \in Frames, NEW q, pc' = [pc EXCEPT ![f] = q], UNCHANGED <<done, result>>,
         q \in Over <=> pc[f] \in Over,
         q \in Waits \cup {"running"} => pc[f] \in Waits /\ q # "running"
  PROVE  (Results /\ Settled /\ ErrorsPropagate)'
<1>1. pc'[f] = q /\ \A h \in Frames : h # f => pc'[h] = pc[h]
  BY DEF Chain, TypeOK
<1>2. Results'
  BY <1>1 DEF Chain, Results
<1>3. Settled'
  BY <1>1 DEF Chain, Settled
<1>4. ErrorsPropagate'
  BY DEF Chain, ErrorsPropagate
<1> QED BY <1>2, <1>3, <1>4

LEMMA RequestKeeps ==
  ASSUME Chain, NEW t \in Threads, NEW f \in Frames, Request(t, f)
  PROVE  Chain'
<1>1. /\ Runs(t, f) /\ pc[f] = "running" /\ f \in Leaves
      /\ pc' = [pc EXCEPT ![f] = "requested"] /\ net' = net \cup {f}
      /\ stack' = [stack EXCEPT ![t] = Left(t)]
      /\ UNCHANGED <<prev, result, done, hung, overtaken>>
  BY DEF Request
<1>2. (Called /\ Awaiting /\ Handles /\ Unlinked /\ WakeUpPending)'
  BY <1>1, OneMoves DEF States, Gone, Waits
<1>3. /\ stack' \in [Threads -> Seq(Frames)] /\ pc' \in [Frames -> States]
      /\ (RunsOnce /\ Entered)'
  BY <1>1, StacksKeep DEF States
<1>4. (Results /\ Settled /\ ErrorsPropagate)'
  BY <1>1, ResultsKeep DEF Over, Waits
<1>5. TypeOK'
  BY <1>1, <1>3 DEF Chain, TypeOK
<1>6. Requested'
  BY <1>1 DEF Chain, Requested, TypeOK, Leaves
<1> QED BY <1>2, <1>3, <1>4, <1>5, <1>6 DEF Chain

LEMMA DestroyKeeps ==
  ASSUME Chain, NEW t \in Threads, NEW f \in Frames, Destroy(t, f)
  PROVE  Chain'
<1>1. /\ Runs(t, f) /\ pc[f] = "resuming" /\ pc' = [pc EXCEPT ![f] = "freed"]
      /\ stack' = [stack EXCEPT ![t] = Left(t)]
      /\ UNCHANGED <<prev, result, done, net, hung, overtaken>>
  BY DEF Destroy
<1>2. (Called /\ Awaiting /\ Handles /\ Unlinked /\ WakeUpPending)'
  BY <1>1, OneMoves DEF States, Gone, Waits
<1>3. /\ stack' \in [Threads -> Seq(Frames)] /\ pc' \in [Frames -> States]
      /\ (RunsOnce /\ Entered)'
  BY <1>1, StacksKeep DEF States
<1>4. (Results /\ Settled /\ ErrorsPropagate)'
  BY <1>1, ResultsKeep DEF Over, Waits
<1>5. TypeOK'
  BY <1>1, <1>3 DEF Chain, TypeOK
<1>6. Requested'
  BY <1>1 DEF Chain, Requested, TypeOK, Leaves
<1> QED BY <1>2, <1>3, <1>4, <1>5, <1>6 DEF Chain

\* A frame gets its result once; one that does not catch has a value only if
\* its children have.
LEMMA CompleteKeeps ==
  ASSUME Chain, NEW t \in Threads, NEW f \in Frames, Runs(t, f), NEW r \in {"value", "error"},
         pc[f] \in {"running", "rethrowing"}, Complete(f, r),
         r = "value" /\ f \notin Catching =>
           \A i \in DOMAIN Children[f] : result[Children[f][i]] = "value"
  PROVE  Chain'
<1>1. /\ pc' = [pc EXCEPT ![f] = "finishing"] /\ result' = [result EXCEPT ![f] = r]
      /\ UNCHANGED <<prev, done, stack, net, hung, overtaken>>
  BY DEF Complete
<1>2. (Called /\ Awaiting /\ Handles /\ Unlinked /\ WakeUpPending)'
  BY <1>1, OneMoves DEF States, Gone, Waits
<1>3. /\ stack' \in [Threads -> Seq(Frames)] /\ pc' \in [Frames -> States]
      /\ (RunsOnce /\ Entered)'
  BY <1>1, StacksKeep DEF States, Inside
<1>t. /\ result \in [Frames -> {"none", "value", "error"}] /\ pc \in [Frames -> States]
      /\ \A h \in Frames : \A k \in DOMAIN Children[h] : Children[h][k] \in Frames
  BY CoTaskAssumption DEF Chain, TypeOK, Tasks
<1>4. /\ result' \in [Frames -> {"none", "value", "error"}]
      /\ result'[f] = r /\ \A h \in Frames : h # f => result'[h] = result[h]
      /\ pc'[f] = "finishing" /\ \A h \in Frames : h # f => pc'[h] = pc[h]
  BY <1>1, <1>t
<1>5. result[f] = "none"
  BY DEF Chain, Results, Over
<1>6. \A h \in Frames : result[h] = "value" => result'[h] = "value"
  BY <1>4, <1>5
<1>7. Results'
  BY <1>4 DEF Chain, Results, Over
<1>8. Settled'
  BY <1>t, <1>1, <1>4, <1>6 DEF Chain, Settled, Waits
<1>9. ErrorsPropagate'
  BY <1>t, <1>4, <1>6 DEF Chain, ErrorsPropagate
<1>10. TypeOK'
  BY <1>1, <1>3, <1>4 DEF Chain, TypeOK
<1>11. Requested'
  BY <1>1, <1>4 DEF Chain, Requested, TypeOK, Leaves
<1> QED BY <1>2, <1>3, <1>7, <1>8, <1>9, <1>10, <1>11 DEF Chain

LEMMA FinishKeeps ==
  ASSUME Chain, NEW t \in Threads, NEW f \in Frames, Finish(t, f) \/ Threw(t, f)
  PROVE  Chain'
<1>1. CASE Threw(t, f)
  BY <1>1, CompleteKeeps DEF Threw
<1>2. CASE Finish(t, f)
  <2>1. Runs(t, f) /\ pc[f] = "running"
    BY <1>2 DEF Finish
  <2>2. CASE f \in Fallible /\ Complete(f, "error")
    BY <2>1, <2>2, CompleteKeeps
  <2>3. CASE f \in Leaves /\ Complete(f, "value")
    <3>1. DOMAIN Children[f] = {}
      BY <2>3 DEF Leaves
    <3> QED BY <2>1, <2>3, <3>1, CompleteKeeps
  <2>4. CASE done[f] = Len(Children[f]) /\ Complete(f, "value")
    <3>1. \A i \in DOMAIN Children[f] : i \in Nat /\ i <= done[f]
      BY <2>4, CoTaskAssumption
    <3>2. f \notin Catching => \A i \in DOMAIN Children[f] : result[Children[f][i]] = "value"
      BY <2>1, <3>1 DEF Chain, Settled, TypeOK
    <3> QED BY <2>1, <2>4, <3>2, CompleteKeeps
  <2> QED BY <1>2, <2>2, <2>3, <2>4 DEF Finish
<1> QED BY <1>1, <1>2

LEMMA AwaitReadyKeeps ==
  ASSUME Chain, NEW t \in Threads, NEW f \in Frames, AwaitReady(t, f)
  PROVE  Chain'
<1> DEFINE g == Awaited(f)
           q == IF result[g] = "none" THEN "suspending" ELSE After(g)
<1>1. /\ Runs(t, f) /\ pc[f] = "calling" /\ pc' = [pc EXCEPT ![f] = q]
      /\ UNCHANGED <<prev, result, done, stack, net, hung, overtaken>>
  BY DEF AwaitReady
<1>t. /\ result \in [Frames -> {"none", "value", "error"}] /\ pc \in [Frames -> States]
      /\ g \in Frames /\ done[f] \in DOMAIN Children[f]
  <2>1. done[f] \in DOMAIN Children[f]
    BY <1>1 DEF Chain, Awaiting, Waits
  <2> QED BY <2>1, Family DEF Chain, TypeOK, Awaited
<1>2. q \in {"suspending", "running", "rethrowing"} /\ (q = "running" => result[g] = "value")
  BY <1>t DEF After
<1> HIDE DEF q
<1>3. (Called /\ Awaiting /\ Handles /\ Unlinked /\ WakeUpPending)'
  BY <1>1, <1>2, OneMoves DEF States, Gone, Waits
<1>4. /\ stack' \in [Threads -> Seq(Frames)] /\ pc' \in [Frames -> States]
      /\ (RunsOnce /\ Entered)'
  BY <1>1, <1>2, StacksKeep DEF States, Inside
<1>5. pc'[f] = q /\ \A h \in Frames : h # f => pc'[h] = pc[h]
  BY <1>1, <1>t
<1>6. Results' /\ ErrorsPropagate'
  BY <1>1, <1>2, <1>5 DEF Chain, Results, ErrorsPropagate, Over
<1>7. Settled'
  <2> SUFFICES ASSUME NEW h \in Frames \ Catching, pc'[h] \in Waits \cup {"running"},
                      NEW j \in DOMAIN Children[h],
                      j < done[h] \/ (j = done[h] /\ pc'[h] = "running")
               PROVE  result[Children[h][j]] = "value"
    BY <1>1 DEF Settled
  <2>1. CASE h # f
    BY <2>1, <1>5 DEF Chain, Settled
  <2>2. CASE h = f /\ j < done[h]
    BY <2>2, <1>1 DEF Chain, Settled, Waits
  <2>3. CASE h = f /\ j = done[h] /\ q = "running"
    BY <2>3, <1>2 DEF Awaited
  <2> QED BY <2>1, <2>2, <2>3, <1>5
<1>8. TypeOK'
  BY <1>1, <1>4 DEF Chain, TypeOK
<1>9. Requested'
  BY <1>1, <1>5 DEF Chain, Requested, TypeOK, Leaves
<1> QED BY <1>3, <1>4, <1>6, <1>7, <1>8, <1>9 DEF Chain

\* Storing the handle: the child is not resuming anybody, for only a handle
\* makes it, and no handle of it had been stored.
LEMMA AwaitSuspendKeeps ==
  ASSUME Chain, NEW t \in Threads, NEW f \in Frames, AwaitSuspend(t, f)
  PROVE  Chain'
<1> DEFINE g == Awaited(f)
<1>1. /\ Runs(t, f) /\ pc[f] = "suspending" /\ pc' = [pc EXCEPT ![f] = "suspended"]
      /\ stack' = [stack EXCEPT ![t] = Left(t)]
      /\ UNCHANGED <<result, done, net, hung>>
      /\ \/ pc[g] = "freed" /\ overtaken' = overtaken \cup {g} /\ UNCHANGED prev
         \/ pc[g] # "freed" /\ prev' = prev \cup {g} /\ UNCHANGED overtaken
  BY DEF AwaitSuspend
<1>t. /\ pc \in [Frames -> States] /\ done[f] \in DOMAIN Children[f]
      /\ g \in Tasks /\ g \in Frames /\ Parent(g) = f /\ prev \subseteq Frames
  BY <1>1, OneParent DEF Chain, TypeOK, Tasks, Awaiting, Waits, Awaited
<1>2. pc'[f] = "suspended" /\ \A h \in Frames : h # f => pc'[h] = pc[h]
  BY <1>1, <1>t
<1>3. /\ stack' \in [Threads -> Seq(Frames)] /\ pc' \in [Frames -> States]
      /\ (RunsOnce /\ Entered)'
  BY <1>1, StacksKeep DEF States
<1>4. (Results /\ Settled /\ ErrorsPropagate)'
  BY <1>1, ResultsKeep DEF Over, Waits
<1>5. \A h \in Frames : Awaited(h)' = Awaited(h)
  BY <1>1 DEF Awaited
<1>6. g \notin prev /\ pc[g] \notin {"unborn", "resuming"}
  <2>1. g \notin prev
    BY <1>1 DEF Chain, Unlinked
  <2>2. pc[g] # "unborn"
    BY <1>t DEF Chain, Called, TypeOK, Awaited
  <2> QED BY <2>1, <2>2, <1>t DEF Chain, Handles
<1> HIDE DEF g
<1>7. Called'
  <2>1. \A h \in Frames : \A k \in DOMAIN Children[h] : Children[h][k] \in Frames
    BY CoTaskAssumption DEF Tasks
  <2> QED BY <1>1, <1>2, <2>1 DEF Chain, Called
<1>8. Awaiting' /\ Requested'
  BY <1>1, <1>2 DEF Chain, Awaiting, Requested, Waits, TypeOK, Leaves
<1>9. Handles'
  <2>1. ASSUME NEW h \in prev', pc'[h] \notin {"resuming", "freed"}
        PROVE  pc'[Parent(h)] = "suspended" /\ Awaited(Parent(h)) = h
    <3>1. CASE h = g
      BY <3>1, <1>t, <1>2 DEF g
    <3>2. CASE h \in prev
      <4>1. pc[Parent(h)] = "suspended" /\ Awaited(Parent(h)) = h
        BY <2>1, <3>2, <1>1, <1>2, <1>t DEF Chain, Handles
      <4>2. Parent(h) \in Frames
        BY <3>2, CoTaskAssumption, OneParent DEF Chain, TypeOK
      <4> QED BY <4>1, <4>2, <1>1, <1>2
    <3> QED BY <3>1, <3>2, <1>1
  <2>2. \A h \in Frames : pc'[h] = "resuming" => h \in prev'
    BY <1>1, <1>2 DEF Chain, Handles
  <2>3. \A h \in prev' : Parent(h) \in Frames
    BY <1>1, <1>t, Family DEF Chain, TypeOK
  <2> QED BY <2>1, <2>2, <2>3, <1>5 DEF Handles
<1>10. Unlinked'
  <2>1. \A h \in prev' : pc'[h] # "unborn"
    BY <1>1, <1>2, <1>6, <1>t DEF Chain, Unlinked
  <2>2. ASSUME NEW h \in Frames, pc'[h] \in {"calling", "suspending"}
        PROVE  Awaited(h) \notin prev'
    <3>1. h # f /\ pc[h] \in {"calling", "suspending"}
      BY <2>2, <1>2
    <3>2. Awaited(h) \notin prev /\ done[h] \in DOMAIN Children[h]
      BY <3>1 DEF Chain, Unlinked, Awaiting, Waits
    <3>3. Awaited(h) # g
      BY <3>1, <3>2, <1>t, OneParent DEF Awaited, g
    <3> QED BY <3>2, <3>3, <1>1
  <2> QED BY <2>1, <2>2, <1>5 DEF Unlinked
<1>11. WakeUpPending'
  <2> SUFFICES ASSUME NEW h \in Frames, pc'[h] = "suspended"
               PROVE  \/ Awaited(h) \in overtaken'
                      \/ /\ Awaited(h) \in prev'
                         /\ pc'[Awaited(h)] \notin {"unborn", "resuming", "freed"}
    BY <1>5 DEF WakeUpPending
  <2>1. CASE h = f
    BY <2>1, <1>1, <1>2, <1>6, <1>t DEF g
  <2>2. CASE h # f
    BY <2>2, <1>1, <1>2, <1>t DEF Chain, WakeUpPending
  <2> QED BY <2>1, <2>2
<1>12. TypeOK'
  BY <1>1, <1>3, <1>t DEF Chain, TypeOK
<1> QED BY <1>3, <1>4, <1>7, <1>8, <1>9, <1>10, <1>11, <1>12 DEF Chain

\* The resumption of the awaiting frame: it is suspended on f, so no thread is
\* in it, and none of its other children can resume it.
LEMMA ResumeKeeps ==
  ASSUME Chain, NEW t \in Threads, NEW f \in Frames, FinalSuspend(t, f), f \in prev
  PROVE  Chain'
<1> DEFINE p == Parent(f)
           q == After(f)
<1>1. /\ Runs(t, f) /\ pc[f] = "finishing"
      /\ pc' = [pc EXCEPT ![f] = "resuming", ![p] = q]
      /\ stack' = [stack EXCEPT ![t] = Append(@, p)]
      /\ UNCHANGED <<prev, result, done, net, hung, overtaken>>
  BY DEF FinalSuspend
<1>t. /\ pc \in [Frames -> States] /\ prev \subseteq Tasks /\ TypeOK /\ RunsOnce
      /\ result \in [Frames -> {"none", "value", "error"}]
      /\ \A h \in prev : h \in Frames /\ Parent(h) \in Frames
      /\ \A h \in Frames : \A k \in DOMAIN Children[h] : Children[h][k] \in Frames
  BY Family DEF Chain, TypeOK
<1>2. p \in Frames /\ pc[p] = "suspended" /\ Awaited(p) = f /\ p # f
  BY <1>1, <1>t DEF Chain, Handles
<1>3. q \in {"running", "rethrowing"} /\ (q = "running" => result[f] = "value")
  <2>1. result[f] # "none"
    BY <1>1 DEF Chain, Results, Over
  <2> QED BY <2>1, <1>t DEF After
<1> HIDE DEF p, q
<1>4. /\ pc' \in [Frames -> States] /\ pc'[f] = "resuming" /\ pc'[p] = q
      /\ \A h \in Frames : h # f /\ h # p => pc'[h] = pc[h]
  BY <1>1, <1>2, <1>3, <1>t DEF States
<1>5. \A u \in Threads : \A i \in DOMAIN stack[u] : stack[u][i] # p
  BY <1>2 DEF Chain, Entered, Inside
<1>6. /\ stack' \in [Threads -> Seq(Frames)] /\ RunsOnce'
      /\ \A u \in Threads : \A i \in DOMAIN stack'[u] :
           stack'[u][i] = p \/ (i \in DOMAIN stack[u] /\ stack'[u][i] = stack[u][i])
  BY <1>1, <1>2, <1>5, <1>t, Pushed
<1>7. TypeOK'
  BY <1>1, <1>4, <1>6, <1>t DEF TypeOK
<1>8. Entered'
  <2>1. \A u \in Threads : \A i \in DOMAIN stack[u] : stack[u][i] \in Frames
    BY <1>t DEF TypeOK
  <2>2. \A h \in Frames : pc[h] \in Inside => pc'[h] \in Inside
    BY <1>1, <1>2, <1>3, <1>4 DEF Inside
  <2> QED BY <2>1, <2>2, <1>2, <1>3, <1>4, <1>6 DEF Chain, Entered, Inside
<1>9. \A h \in Frames : Awaited(h)' = Awaited(h)
  BY <1>1 DEF Awaited
<1>10. Called'
  BY <1>1, <1>2, <1>3, <1>4, <1>t DEF Chain, Called
<1>11. Awaiting' /\ Requested'
  BY <1>1, <1>2, <1>3, <1>4, <1>t DEF Chain, Awaiting, Requested, Waits, TypeOK, Leaves
<1>12. Handles'
  <2>1. ASSUME NEW h \in prev, pc'[h] \notin {"resuming", "freed"}
        PROVE  pc'[Parent(h)] = "suspended" /\ Awaited(Parent(h)) = h
    <3>1. h # f /\ pc[h] \notin {"resuming", "freed"}
      BY <2>1, <1>2, <1>4, <1>t
    <3>2. pc[Parent(h)] = "suspended" /\ Awaited(Parent(h)) = h
      BY <3>1 DEF Chain, Handles
    <3>3. Parent(h) # p /\ Parent(h) # f
      BY <3>1, <3>2, <1>1, <1>2
    <3> QED BY <3>2, <3>3, <1>4, <1>t
  <2>2. \A h \in Frames : pc'[h] = "resuming" => h \in prev
    BY <1>3, <1>4 DEF Chain, Handles
  <2> QED BY <2>1, <2>2, <1>1, <1>9, <1>t DEF Handles
<1>13. Unlinked'
  <2>1. \A h \in prev : pc'[h] # "unborn"
    BY <1>3, <1>4, <1>t DEF Chain, Unlinked
  <2>2. \A h \in Frames : pc'[h] \in {"calling", "suspending"} => Awaited(h) \notin prev
    BY <1>3, <1>4 DEF Chain, Unlinked
  <2> QED BY <2>1, <2>2, <1>1, <1>9 DEF Unlinked
<1>14. Results' /\ ErrorsPropagate'
  BY <1>1, <1>2, <1>3, <1>4 DEF Chain, Results, ErrorsPropagate, Over
<1>15. Settled'
  <2> SUFFICES ASSUME NEW h \in Frames \ Catching, pc'[h] \in Waits \cup {"running"},
                      NEW j \in DOMAIN Children[h],
                      j < done[h] \/ (j = done[h] /\ pc'[h] = "running")
               PROVE  result[Children[h][j]] = "value"
    BY <1>1 DEF Settled
  <2>1. CASE h # p
    BY <2>1, <1>4 DEF Chain, Settled, Waits
  <2>2. CASE h = p /\ j < done[h]
    BY <2>2, <1>2 DEF Chain, Settled, Waits
  <2>3. CASE h = p /\ j = done[h] /\ q = "running"
    BY <2>3, <1>2, <1>3 DEF Awaited
  <2> QED BY <2>1, <2>2, <2>3, <1>4
<1>16. WakeUpPending'
  <2> SUFFICES ASSUME NEW h \in Frames, pc'[h] = "suspended"
               PROVE  \/ Awaited(h) \in overtaken
                      \/ /\ Awaited(h) \in prev
                         /\ pc'[Awaited(h)] \notin {"unborn", "resuming", "freed"}
    BY <1>1, <1>9 DEF WakeUpPending
  <2>1. h # f /\ h # p /\ pc[h] = "suspended"
    BY <1>3, <1>4
  <2>2. Awaited(h) # f
    <3>1. done[h] \in DOMAIN Children[h]
      BY <2>1 DEF Chain, Awaiting, Waits
    <3> QED BY <2>1, <3>1, OneParent DEF p, Awaited
  <2>3. \/ Awaited(h) \in overtaken
        \/ Awaited(h) \in prev /\ pc[Awaited(h)] \notin {"unborn", "resuming", "freed"}
    BY <2>1 DEF Chain, WakeUpPending
  <2> QED BY <2>2, <2>3, <1>3, <1>4, <1>t
<1> QED BY <1>6, <1>7, <1>8, <1>10, <1>11, <1>12, <1>13, <1>14, <1>15, <1>16 DEF Chain

LEMMA FinalSuspendKeeps ==
  ASSUME Chain, NEW t \in Threads, NEW f \in Frames, FinalSuspend(t, f)
  PROVE  Chain'
<1>1. CASE f \in prev
  BY <1>1, ResumeKeeps
<1>2. CASE f \notin prev
  <2>1. /\ Runs(t, f) /\ pc[f] = "finishing" /\ pc' = [pc EXCEPT ![f] = "freed"]
        /\ stack' = [stack EXCEPT ![t] = Left(t)]
        /\ UNCHANGED <<prev, result, done, net, hung, overtaken>>
    BY <1>2 DEF FinalSuspend
  <2>2. (Called /\ Awaiting /\ Handles /\ Unlinked /\ WakeUpPending)'
    BY <1>2, <2>1, OneMoves DEF States, Gone, Waits
  <2>3. /\ stack' \in [Threads -> Seq(Frames)] /\ pc' \in [Frames -> States]
        /\ (RunsOnce /\ Entered)'
    BY <2>1, StacksKeep DEF States
  <2>4. (Results /\ Settled /\ ErrorsPropagate)'
    BY <2>1, ResultsKeep DEF Over, Waits
  <2>5. TypeOK'
    BY <2>1, <2>3 DEF Chain, TypeOK
  <2>6. Requested'
    BY <2>1 DEF Chain, Requested, TypeOK, Leaves
  <2> QED BY <2>2, <2>3, <2>4, <2>5, <2>6 DEF Chain
<1> QED BY <1>1, <1>2

\* The worker that resumes a leaf is in no frame, and nobody is in the leaf.
LEMMA ReplyKeeps ==
  ASSUME Chain, NEW t \in Threads, NEW f \in Frames, Reply(t, f)
  PROVE  Chain'
<1>1. /\ pc[f] = "requested" /\ f \in Leaves /\ f \in net /\ net' = net \ {f}
      /\ pc' = [pc EXCEPT ![f] = "running"] /\ done' = [done EXCEPT ![f] = 1]
      /\ stack' = [stack EXCEPT ![t] = Append(@, f)]
      /\ UNCHANGED <<prev, result, hung, overtaken>>
  <2>1. stack[t] = <<>> /\ stack' = [stack EXCEPT ![t] = <<f>>]
    BY DEF Reply
  <2>2. Append(stack[t], f) = <<f>>
    BY <2>1
  <2> QED BY <2>1, <2>2 DEF Reply, Chain, Requested, TypeOK
<1>t. /\ pc \in [Frames -> States] /\ done \in [Frames -> Nat] /\ TypeOK /\ RunsOnce
  BY DEF Chain, TypeOK
<1>2. /\ pc' \in [Frames -> States] /\ done' \in [Frames -> Nat]
      /\ pc'[f] = "running" /\ \A h \in Frames : h # f => pc'[h] = pc[h] /\ done'[h] = done[h]
  BY <1>1, <1>t DEF States
<1>3. (Called /\ Awaiting /\ Handles /\ Unlinked /\ WakeUpPending)'
  BY <1>1, <1>2, OneMoves DEF States, Gone, Waits
<1>4. \A u \in Threads : \A i \in DOMAIN stack[u] : stack[u][i] # f
  BY <1>1 DEF Chain, Entered, Inside
<1>5. /\ stack' \in [Threads -> Seq(Frames)] /\ RunsOnce'
      /\ \A u \in Threads : \A i \in DOMAIN stack'[u] :
           stack'[u][i] = f \/ (i \in DOMAIN stack[u] /\ stack'[u][i] = stack[u][i])
  BY <1>1, <1>4, <1>t, Pushed
<1>6. Entered'
  <2>1. \A u \in Threads : \A i \in DOMAIN stack[u] : stack[u][i] \in Frames
    BY <1>t DEF TypeOK
  <2> QED BY <2>1, <1>2, <1>4, <1>5 DEF Chain, Entered, Inside
<1>7. TypeOK'
  BY <1>1, <1>2, <1>5, <1>t DEF TypeOK
<1>8. Requested'
  BY <1>1, <1>2, <1>t DEF Chain, Requested, TypeOK, Leaves
<1>9. Results' /\ ErrorsPropagate'
  BY <1>1, <1>2 DEF Chain, Results, ErrorsPropagate, Over
<1>10. Settled'
  <2>1. DOMAIN Children[f] = {}
    BY <1>1 DEF Leaves
  <2> QED BY <2>1, <1>1, <1>2 DEF Chain, Settled
<1> QED BY <1>3, <1>5, <1>6, <1>7, <1>8, <1>9, <1>10 DEF Chain

\* Steps that only a request sees, or none.
LEMMA QuietKeeps ==
  ASSUME Chain, UNCHANGED <<pc, prev, result, done, stack, overtaken>>,
         net' \subseteq net, hung' \subseteq Fallible
  PROVE  Chain'
<1>1. TypeOK'
  BY DEF Chain, TypeOK
<1>2. RunsOnce' /\ Entered' /\ Called' /\ Awaiting' /\ Requested'
  BY DEF Chain, RunsOnce, Entered, Called, Awaiting, Requested
<1>3. \A f \in Frames : Awaited(f)' = Awaited(f)
  BY DEF Awaited
<1>4. \A g \in prev : Parent(g) \in Frames
  BY Family DEF Chain, TypeOK
<1>5. Handles' /\ Unlinked' /\ WakeUpPending'
  BY <1>3, <1>4 DEF Chain, Handles, Unlinked, WakeUpPending
<1>6. Results' /\ Settled' /\ ErrorsPropagate'
  BY DEF Chain, Results, Settled, ErrorsPropagate
<1> QED BY <1>1, <1>2, <1>5, <1>6 DEF Chain

LEMMA ChainInvariant == Spec => []Chain
<1>1. Init => Chain
  BY InitChain
<1>2. Chain /\ [Next]_vars => Chain'
  <2> SUFFICES ASSUME Chain, [Next]_vars PROVE Chain'
    OBVIOUS
  <2>1. ASSUME NEW t \in Threads, NEW f \in Frames, Step(t, f) PROVE Chain'
    BY <2>1, CallKeeps, RequestKeeps, FinishKeeps, AwaitReadyKeeps, AwaitSuspendKeeps,
       FinalSuspendKeeps, DestroyKeeps DEF Step
  <2>2. ASSUME NEW t \in Threads, NEW f \in Frames, Reply(t, f) PROVE Chain'
    BY <2>2, ReplyKeeps
  <2>3. ASSUME NEW t \in Threads, NEW f \in Frames, ReplyThrows(t, f) PROVE Chain'
    <3>1. /\ UNCHANGED <<pc, prev, result, done, stack, overtaken>>
          /\ net' \subseteq net /\ hung' \subseteq Fallible
      BY <2>3 DEF ReplyThrows, Chain, TypeOK
    <3> QED BY <3>1, QuietKeeps
  <2>4. CASE UNCHANGED vars
    <3>1. /\ UNCHANGED <<pc, prev, result, done, stack, overtaken>>
          /\ net' \subseteq net /\ hung' \subseteq Fallible
      BY <2>4 DEF vars, Chain, TypeOK
    <3> QED BY <3>1, QuietKeeps
  <2> QED BY <2>1, <2>2, <2>3, <2>4 DEF Next, Answer
<1> QED BY <1>1, <1>2, PTL DEF Spec

\* No two threads are ever in the same coroutine, and none twice: whatever the
\* tree of calls and the number of workers, a coroutine is resumed only while
\* it is suspended, although nothing but the order of the writes to _prev,
\* the future and the frame protects it.
THEOREM FrameRunsOnce == Spec => []RunsOnce
<1>1. Chain => RunsOnce
  BY DEF Chain
<1> QED BY <1>1, ChainInvariant, PTL

\* A suspended coroutine has its handle in the promise of a child that has yet
\* to look at it, or the child was gone when the handle was stored: those are
\* the only two ways, for every tree of calls.
THEOREM WakeUpIsPending == Spec => []WakeUpPending
<1>1. Chain => WakeUpPending
  BY DEF Chain
<1> QED BY <1>1, ChainInvariant, PTL

\* A coroutine that does not catch has a value only if all it awaited have one,
\* on whichever threads they ended.
THEOREM ErrorsArePropagated == Spec => []ErrorsPropagate
<1>1. Chain => ErrorsPropagate
  BY DEF Chain
<1> QED BY <1>1, ChainInvariant, PTL
=============================================================================
