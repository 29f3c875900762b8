------------------------------- MODULE CoTask -------------------------------
(***************************************************************************)
(* Task of cpp/sdk/include/co_helper.hpp, and the awaitables of            *)
(* cpp/sdk/src/json_rpc.cpp at the end of every chain of tasks.            *)
(*                                                                         *)
(* A frame is one call of a coroutine.  It starts on its caller's thread   *)
(* (initial_suspend never suspends) and runs until it awaits something     *)
(* that is not ready; then the thread returns to whoever called or resumed *)
(* it.  A leaf awaits an http request and is resumed by a worker of the    *)
(* http library.  Any other frame awaits its children one after the other: *)
(* the child that completes resumes it, on the child's thread, if the      *)
(* handle in its promise (_prev) has been stored by then.                  *)
(*                                                                         *)
(* stack[t] is what thread t is in the middle of; its last frame runs.     *)
(***************************************************************************)
EXTENDS Integers, Sequences, FiniteSets

CONSTANTS
  Frames,     \* the calls of coroutines in one chain
  Root,       \* the outermost
  Children,   \* Children[f]: the calls f awaits, in this order
  Main,       \* the thread that calls Root
  Workers,    \* the threads of the http library
  Fallible,   \* the leaves whose request may fail
  Catching    \* the frames that await inside a try block

Leaves == {f \in Frames : Children[f] = <<>>}
Tasks  == Frames \ {Root}

ASSUME CoTaskAssumption ==
  /\ Root \in Frames /\ Main \notin Workers
  /\ Children \in [Frames -> Seq(Tasks)]
  /\ \A g \in Tasks : \E f \in Frames : \E i \in DOMAIN Children[f] :
       /\ Children[f][i] = g
       /\ \A h \in Frames : \A j \in DOMAIN Children[h] :
            Children[h][j] = g => h = f /\ j = i
  /\ Fallible \subseteq Leaves /\ Catching \subseteq Frames

Threads == {Main} \cup Workers

VARIABLES
  pc,         \* where each frame stands
  prev,       \* the frames whose promise has a handle to resume
  result,     \* what each frame's future holds
  done,       \* how many children each frame has called
  stack,      \* the frames each thread has entered and not left
  net,        \* the leaves whose request is under way
  hung,       \* leaves whose http continuation threw
  overtaken   \* frames that were gone when their _prev was stored

vars == <<pc, prev, result, done, stack, net, hung, overtaken>>

----------------------------------------------------------------------------
Top(t)     == stack[t][Len(stack[t])]
Runs(t, f) == stack[t] # <<>> /\ Top(t) = f
Left(t)    == SubSeq(stack[t], 1, Len(stack[t]) - 1)
Parent(g)  == CHOOSE f \in Frames : \E i \in DOMAIN Children[f] : Children[f][i] = g
Awaited(f) == Children[f][done[f]]

Init ==
  /\ pc = [f \in Frames |-> IF f = Root THEN "running" ELSE "unborn"]
  /\ prev = {} /\ hung = {} /\ overtaken = {} /\ net = {}
  /\ result = [f \in Frames |-> "none"]
  /\ done = [f \in Frames |-> 0]
  /\ stack = [t \in Threads |-> IF t = Main THEN <<Root>> ELSE <<>>]

\* get_return_object and initial_suspend: the child runs at once, on the
\* caller's thread; its Task is what the caller will await.
Call(t, f) ==
  /\ Runs(t, f) /\ pc[f] = "running" /\ done[f] < Len(Children[f])
  /\ LET g == Children[f][done[f] + 1] IN
       /\ pc' = [pc EXCEPT ![f] = "calling", ![g] = "running"]
       /\ stack' = [stack EXCEPT ![t] = Append(@, g)]
  /\ done' = [done EXCEPT ![f] = @ + 1]
  /\ UNCHANGED <<prev, result, net, hung, overtaken>>

\* await_suspend of json_rpc's awaitables posts the request; the thread goes
\* back to the caller.
Request(t, f) ==
  /\ Runs(t, f) /\ pc[f] = "running" /\ f \in Leaves /\ done[f] = 0
  /\ net' = net \cup {f}
  /\ pc' = [pc EXCEPT ![f] = "requested"]
  /\ stack' = [stack EXCEPT ![t] = Left(t)]
  /\ UNCHANGED <<prev, result, done, hung, overtaken>>

\* The continuation on a worker resumes the coroutine ...
Reply(t, f) ==
  /\ t \in Workers /\ stack[t] = <<>> /\ f \in net
  /\ net' = net \ {f}
  /\ pc' = [pc EXCEPT ![f] = "running"]
  /\ done' = [done EXCEPT ![f] = 1]
  /\ stack' = [stack EXCEPT ![t] = <<f>>]
  /\ UNCHANGED <<prev, result, hung, overtaken>>

\* ... unless it throws before h.resume(): on an http status other than 200,
\* and in await_submit2 on an error reply as well.
ReplyThrows(t, f) ==
  /\ t \in Workers /\ stack[t] = <<>> /\ f \in net \cap Fallible
  /\ net' = net \ {f}
  /\ hung' = hung \cup {f}
  /\ UNCHANGED <<pc, prev, result, done, stack, overtaken>>

\* return_value, return_void, or unhandled_exception: the future is ready,
\* final_suspend has not looked at _prev yet.
Complete(f, r) ==
  /\ result' = [result EXCEPT ![f] = r]
  /\ pc' = [pc EXCEPT ![f] = "finishing"]
  /\ UNCHANGED <<prev, done, stack, net, hung, overtaken>>

\* A leaf ends once it has been resumed; an error reply to a query is thrown
\* after the resumption.  Another frame ends when its last child has.
Finish(t, f) ==
  /\ Runs(t, f) /\ pc[f] = "running"
  /\ \/ f \in Leaves /\ done[f] = 1 /\ Complete(f, "value")
     \/ f \in Fallible /\ done[f] = 1 /\ Complete(f, "error")
     \/ f \notin Leaves /\ done[f] = Len(Children[f]) /\ Complete(f, "value")

\* await_resume rethrew in f: the exception ends the frame, or is caught and
\* logged, after which the frame returns.
Threw(t, f) ==
  /\ Runs(t, f) /\ pc[f] = "rethrowing"
  /\ Complete(f, IF f \in Catching THEN "value" ELSE "error")

\* A variant: await_resume does not ask the future.
AfterIgnored(g) == "running"

\* await_resume: get() gives the value or rethrows.
After(g) == IF result[g] = "error" THEN "rethrowing" ELSE "running"

\* await_ready, when the call of the child is back: a completed child is not
\* waited for.
AwaitReady(t, f) ==
  /\ Runs(t, f) /\ pc[f] = "calling"
  /\ pc' = [pc EXCEPT ![f] = IF result[Awaited(f)] = "none" THEN "suspending"
                                                            ELSE After(Awaited(f))]
  /\ UNCHANGED <<prev, result, done, stack, net, hung, overtaken>>

\* A variant: the handle goes into the frame's own promise.
AwaitSuspendSelf(t, f) ==
  /\ Runs(t, f) /\ pc[f] = "suspending"
  /\ prev' = prev \cup {f}
  /\ pc' = [pc EXCEPT ![f] = "suspended"]
  /\ stack' = [stack EXCEPT ![t] = Left(t)]
  /\ UNCHANGED <<result, done, net, hung, overtaken>>

\* await_suspend writes the handle into the child's promise, wherever the
\* child is by now; the thread goes back to the frame's caller or resumer.
AwaitSuspend(t, f) ==
  /\ Runs(t, f) /\ pc[f] = "suspending"
  /\ LET g == Awaited(f) IN
       IF pc[g] = "freed"
         THEN overtaken' = overtaken \cup {g} /\ UNCHANGED prev
         ELSE prev' = prev \cup {g} /\ UNCHANGED overtaken
  /\ pc' = [pc EXCEPT ![f] = "suspended"]
  /\ stack' = [stack EXCEPT ![t] = Left(t)]
  /\ UNCHANGED <<result, done, net, hung>>

\* A variant: the frame goes away without looking at _prev.
FinalSuspendAlone(t, f) ==
  /\ Runs(t, f) /\ pc[f] = "finishing"
  /\ pc' = [pc EXCEPT ![f] = "freed"]
  /\ stack' = [stack EXCEPT ![t] = Left(t)]
  /\ UNCHANGED <<prev, result, done, net, hung, overtaken>>

\* A variant: whoever awaits the task is resumed, suspended or not.
FinalSuspendAlways(t, f) ==
  /\ Runs(t, f) /\ pc[f] = "finishing"
  /\ IF f # Root
       THEN /\ pc' = [pc EXCEPT ![f] = "resuming", ![Parent(f)] = After(f)]
            /\ stack' = [stack EXCEPT ![t] = Append(@, Parent(f))]
       ELSE /\ pc' = [pc EXCEPT ![f] = "freed"]
            /\ stack' = [stack EXCEPT ![t] = Left(t)]
  /\ UNCHANGED <<prev, result, done, net, hung, overtaken>>

\* final_suspend resumes the awaiting frame from within; it does not suspend,
\* so that the frame is destroyed when that call comes back, or at once.
FinalSuspend(t, f) ==
  /\ Runs(t, f) /\ pc[f] = "finishing"
  /\ IF f \in prev
       THEN /\ pc' = [pc EXCEPT ![f] = "resuming", ![Parent(f)] = After(f)]
            /\ stack' = [stack EXCEPT ![t] = Append(@, Parent(f))]
       ELSE /\ pc' = [pc EXCEPT ![f] = "freed"]
            /\ stack' = [stack EXCEPT ![t] = Left(t)]
  /\ UNCHANGED <<prev, result, done, net, hung, overtaken>>

Destroy(t, f) ==
  /\ Runs(t, f) /\ pc[f] = "resuming"
  /\ pc' = [pc EXCEPT ![f] = "freed"]
  /\ stack' = [stack EXCEPT ![t] = Left(t)]
  /\ UNCHANGED <<prev, result, done, net, hung, overtaken>>

----------------------------------------------------------------------------
Step(t, f) ==
  \/ Call(t, f) \/ Request(t, f) \/ Finish(t, f) \/ Threw(t, f) \/ AwaitReady(t, f)
  \/ AwaitSuspend(t, f) \/ FinalSuspend(t, f) \/ Destroy(t, f)

Answer(t, f) == Reply(t, f) \/ ReplyThrows(t, f)

Next == \E t \in Threads, f \in Frames : Step(t, f) \/ Answer(t, f)

Spec == Init /\ [][Next]_vars

\* A thread that is in a frame goes on, and every request gets its answer.
Fairness ==
  /\ \A t \in Threads : WF_vars(\E f \in Frames : Step(t, f))
  /\ \A f \in Leaves : WF_vars(\E t \in Workers : Answer(t, f))

FairSpec == Spec /\ Fairness

----------------------------------------------------------------------------
States == {"unborn", "running", "calling", "requested", "suspending", "suspended",
           "rethrowing", "finishing", "resuming", "freed"}

TypeOK ==
  /\ pc \in [Frames -> States]
  /\ prev \subseteq Tasks /\ overtaken \subseteq Tasks
  /\ net \subseteq Leaves /\ hung \subseteq Fallible
  /\ result \in [Frames -> {"none", "value", "error"}]
  /\ done \in [Frames -> Nat]
  /\ stack \in [Threads -> Seq(Frames)]

\* At most one thread is in a frame, and in it once: the worker that resumes
\* a coroutine never meets the thread that is still suspending it, or a
\* second resumption of it (Awaitor, final_suspend).
RunsOnce ==
  \A t, u \in Threads : \A i \in DOMAIN stack[t], j \in DOMAIN stack[u] :
    stack[t][i] = stack[u][j] => t = u /\ i = j

\* A suspended coroutine is waited upon by a frame that still exists and will
\* look at its handle, and the only other end is that the child completed
\* and was destroyed between await_ready and await_suspend, in which case
\* the handle went into freed memory and nobody resumes the coroutine.
WakeUpPending ==
  \A f \in Frames : pc[f] = "suspended" =>
    LET g == Awaited(f) IN
      \/ g \in overtaken
      \/ g \in prev /\ pc[g] \notin {"unborn", "resuming", "freed"}

\* No error is lost on the way from thread to thread: a frame that does not
\* catch has a value only if every task that it awaited has one.
ErrorsPropagate ==
  \A f \in Frames \ Catching : result[f] = "value" =>
    \A i \in DOMAIN Children[f] : result[Children[f][i]] = "value"

\* The chain comes to its end, so that get() of the outermost task returns,
\* unless a continuation threw or a handle came too late.
ChainReturns == <>(result[Root] # "none" \/ hung # {} \/ overtaken # {})
============================================================================
