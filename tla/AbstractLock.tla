---------------------------- MODULE AbstractLock ----------------------------
(***************************************************************************)
(* What `artifact_lock` promises its callers: cooperating threads bring    *)
(* their critical sections one after the other, a caller may give up, and  *)
(* a caller that dies leaves the lock free.                                *)
(***************************************************************************)
CONSTANT Thread

VARIABLE stage      \* what each thread is doing with the lock

vars == <<stage>>

TypeOK == stage \in [Thread -> {"out", "trying", "in", "dead"}]

Init == stage = [t \in Thread |-> "out"]

Move(t, from, to) == stage[t] = from /\ stage' = [stage EXCEPT ![t] = to]

Request(t) == Move(t, "out", "trying")

\* The promise: the lock is granted only while nobody is inside.
Grant(t) == (\A u \in Thread : stage[u] # "in") /\ Move(t, "trying", "in")

GiveUp(t) == Move(t, "trying", "out")

Release(t) == Move(t, "in", "out")

\* A process takes all of its threads with it.
Die(T) ==
    /\ T \subseteq Thread
    /\ stage' = [t \in Thread |-> IF t \in T THEN "dead" ELSE stage[t]]

Next ==
    \/ \E t \in Thread : Request(t) \/ Grant(t) \/ GiveUp(t) \/ Release(t)
    \/ \E T \in SUBSET Thread : Die(T)

Spec == Init /\ [][Next]_vars

\* Two threads are never inside together.
Exclusive == \A t, u \in Thread : stage[t] = "in" /\ stage[u] = "in" => t = u
=============================================================================
