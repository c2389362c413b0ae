---------------------------- MODULE FederatedTurn ----------------------------
(***************************************************************************)
(* The execution of a federated plan (`execute_federated_prepare`): the    *)
(* thread of the turn runs the member steps wave by wave, a wave of one    *)
(* step on a worker thread that it polls, other waves on thread pools in   *)
(* batches, and combines the frames in the end.  Another thread may cancel *)
(* the turn, its plan may run out of time, and members fail.  A turn that  *)
(* finds itself cancelled asks its members to cancel their statements, and *)
(* does so on its own thread.  A worker whose turn has ended without it    *)
(* may still be at work in the next one.                                   *)
(*                                                                         *)
(* What a statement returns is left out; a step of scalar grain, which     *)
(* returns no frame, counts as one that does.  A statement may raise at    *)
(* any time, whether or not it has been cancelled.                         *)
(***************************************************************************)
EXTENDS Integers, FiniteSets, Sequences

CONSTANTS
    Member,         \* source ids
    Slug,           \* federation_member_connection_slug
    Plan,           \* plans: waves of member steps, the drivers whose frames
                    \* reduce each member's step, and whether it is a union
    Served,         \* members whose server is asked for the identity of the connection
                    \* and to cancel: PostgreSQL and SQL Server
    MaxParallel,    \* coordinator.max_parallel_members
    MaxTurns        \* bound on turns

Turn == 1 .. MaxTurns

StepsOf(wave) == {wave[k] : k \in 1 .. Len(wave)}

\* The members with a step in the first i waves of plan p.
MembersUpTo(p, i) == UNION {StepsOf(p.waves[k]) : k \in 1 .. i}
Members(p) == MembersUpTo(p, Len(p.waves))

\* A plan has one step for each of its members.  A join of two members may reduce
\* either by the other: a driver may run after the step that it drives.
ASSUME PlanAssumption == \A p \in Plan :
    /\ p.union \in BOOLEAN /\ p.driver \in [Member -> SUBSET Member]
    /\ p.waves \in Seq(Seq(Member) \ {<< >>})
    /\ \A i, j \in 1 .. Len(p.waves) :
        \A k \in 1 .. Len(p.waves[i]), l \in 1 .. Len(p.waves[j]) :
            p.waves[i][k] = p.waves[j][l] => i = j /\ k = l
ASSUME ServedAssumption == Served \subseteq Member
ASSUME BoundAssumption == MaxParallel \in Nat \ {0} /\ MaxTurns \in Nat

VARIABLES
    pc,             \* the thread of the turn
    turn,           \* number of the turn, which names its context too
    plan,
    wave,           \* number of the wave that runs, or has run last
    steps,          \* members of it whose steps are still to run
    pooled,         \* the wave runs on thread pools
    batch,          \* the batch, or the step, under way
    frames,         \* members whose frames have arrived
    given,          \* frames each step was given when it was submitted
    due,            \* calls of cancel_in_flight_statement still to be made
    aim,            \* the turn whose statement the one under way has read, or 0
    outcome,        \* what the last turn was told
    worker,         \* the workers of every turn
    active,         \* the turn whose statement a member's backend has registered
    shown,          \* session.active_federation_execution_context, or 0
    cancelled,      \* contexts whose cancel event is set
    caller,         \* the context a call of cancel has read, or 0
    overdue,        \* the deadline of the plan has passed
    asked,          \* turns that a caller has cancelled
    late            \* batches and steps begun since

progress == <<turn, plan, wave, steps, pooled, batch, frames, given>>
calls == <<due, aim>>
vars == <<pc, progress, calls, outcome, worker, active, shown, cancelled, caller, overdue,
          asked, late>>

AtWork == {"queued", "working", "registering", "running"}

\* Type invariant.
TypeOK ==
    /\ pc \in {"idle", "wave", "batch", "submit", "poll", "await", "cancelling", "shutdown",
              "combine", "glue"}
    /\ turn \in 0 .. MaxTurns /\ plan \in Plan
    /\ wave \in 0 .. Len(plan.waves) /\ steps \subseteq Member
    /\ pooled \in BOOLEAN /\ batch \subseteq Member /\ frames \subseteq Member
    /\ given \in [Member -> SUBSET Member]
    /\ due \in [Member -> 0 .. 2] /\ aim \in 0 .. MaxTurns
    /\ outcome \in {"none", "complete", "partial", "refused", "cancelled", "error"}
    /\ worker \in [Turn -> [Member -> AtWork \cup {"none", "ok", "failed", "dropped"}]]
    /\ active \in [Member -> 0 .. MaxTurns]
    /\ shown = (IF pc = "idle" THEN 0 ELSE turn)
    /\ cancelled \subseteq Turn /\ asked \subseteq cancelled
    /\ caller \in 0 .. MaxTurns /\ overdue \in BOOLEAN /\ late \in Nat

Init ==
    /\ pc = "idle" /\ turn = 0 /\ plan \in Plan
    /\ wave = 0 /\ steps = {} /\ pooled = FALSE /\ batch = {} /\ frames = {}
    /\ given = [m \in Member |-> {}]
    /\ due = [m \in Member |-> 0] /\ aim = 0
    /\ outcome = "none"
    /\ worker = [t \in Turn |-> [m \in Member |-> "none"]]
    /\ active = [m \in Member |-> 0]
    /\ shown = 0 /\ cancelled = {} /\ caller = 0 /\ overdue = FALSE
    /\ asked = {} /\ late = 0
-----------------------------------------------------------------------------
\* A wrong variant: a thread that does not inherit the context sees none.
NeverCancelled == FALSE

\* federation_turn_cancelled
TurnCancelled == turn \in cancelled

\* The step of m comes before that of n in the wave.
Precedes(m, n) == \E i, j \in 1 .. Len(plan.waves[wave]) :
    i < j /\ plan.waves[wave][i] = m /\ plan.waves[wave][j] = n

Foremost(left) == {m \in left : \A n \in left : ~ Precedes(n, m)}

\* The steps none of whose drivers is among those left.
Free(left) == {m \in left : plan.driver[m] \cap left = {}}

\* Two wrong variants: each of the two conditions is forgotten.
BatchAnyConnection(left) == IF Free(left) = {} THEN Foremost(left) ELSE Free(left)
BatchAnyDriver(left) ==
    {m \in left : \A n \in left : Slug[n] = Slug[m] => ~ Precedes(n, m)}

\* federation_member_execution_batches, one batch at a time: of each connection the
\* first step that is free; or the first step of all if they wait for each other.
NextBatch(left) ==
    IF Free(left) = {} THEN Foremost(left)
    ELSE {m \in Free(left) : \A n \in Free(left) : Slug[n] = Slug[m] => ~ Precedes(n, m)}

\* A statement of m is registered under the lock of its backend, which is held while
\* the server is asked for the identity of the connection.
LockFree(m) == \A t \in Turn : worker[t][m] # "registering"

Dropped == [worker EXCEPT ![turn] = [m \in Member |->
    IF worker[turn][m] = "queued" THEN "dropped" ELSE worker[turn][m]]]

\* A wrong variant: the session keeps the context.
EndShown(told) ==
    /\ pc' = "idle" /\ outcome' = told
    /\ UNCHANGED shown

\* The finally clause of execute_federated_prepare.
End(told) ==
    /\ pc' = "idle" /\ outcome' = told
    /\ shown' = 0

\* _raise_federation_turn_cancelled and _raise_partial_member_failure, which
\* cancels the context itself, outside a pool.
RaiseCancelled == End("cancelled") /\ UNCHANGED cancelled
RaisePartial == End("partial") /\ cancelled' = cancelled \cup {turn}

\* The turn is to call cancel_in_flight_statement n times for each of the members ms.
CancelStatements(ms, n) ==
    /\ pc' = "cancelling" /\ due' = [m \in Member |-> IF m \in ms THEN n ELSE 0]
    /\ UNCHANGED <<aim, outcome, shown, cancelled>>
-----------------------------------------------------------------------------
BeginTurn(p) ==
    /\ pc = "idle" /\ turn < MaxTurns
    /\ pc' = "wave" /\ turn' = turn + 1 /\ plan' = p /\ wave' = 0
    /\ frames' = {} /\ given' = [m \in Member |-> {}] /\ steps' = {}
    /\ pooled' = FALSE /\ batch' = {}
    /\ outcome' = "none" /\ shown' = turn + 1 /\ overdue' = FALSE /\ late' = 0
    /\ UNCHANGED <<calls, worker, active, cancelled, caller, asked>>

NextWave ==
    /\ pc = "wave"
    /\ IF wave = Len(plan.waves) THEN
            /\ pc' = "combine"
            /\ UNCHANGED <<wave, steps, pooled, outcome, shown, cancelled>>
       ELSE IF overdue THEN RaisePartial /\ UNCHANGED <<wave, steps, pooled>>
       ELSE /\ pc' = "batch" /\ wave' = wave + 1 /\ steps' = StepsOf(plan.waves[wave'])
            /\ pooled' = (plan.union \/ Len(plan.waves[wave']) > 1)
            /\ UNCHANGED <<outcome, shown, cancelled>>
    /\ UNCHANGED <<turn, plan, batch, frames, given, calls, worker, active, caller, overdue,
                   asked, late>>

\* The head of the loop over batches, or over the one step of a wave.
CheckBatch ==
    /\ pc = "batch"
    /\ \/ steps = {} /\ pc' = "wave" /\ UNCHANGED <<calls, outcome, shown, cancelled>>
       \/ steps # {} /\ TurnCancelled /\ pooled /\ RaiseCancelled /\ UNCHANGED calls
       \/ steps # {} /\ TurnCancelled /\ ~ pooled /\ CancelStatements(steps, 1)
       \/ /\ steps # {} /\ ~ TurnCancelled /\ pooled /\ overdue
          /\ RaisePartial /\ UNCHANGED calls
       \/ /\ steps # {} /\ ~ TurnCancelled /\ ~ (pooled /\ overdue)
          /\ pc' = "submit" /\ UNCHANGED <<calls, outcome, shown, cancelled>>
    /\ UNCHANGED <<progress, worker, active, caller, overdue, asked, late>>

Submit ==
    /\ pc = "submit"
    /\ LET next == NextBatch(steps) IN
       /\ batch' = next
       /\ steps' = steps \ next
       /\ given' = [m \in Member |-> IF m \in next THEN frames ELSE given[m]]
       /\ worker' = [worker EXCEPT ![turn] = [m \in Member |->
                        IF m \notin next THEN worker[turn][m]
                        ELSE IF pooled THEN "queued" ELSE "working"]]
    /\ pc' = IF pooled THEN "await" ELSE "poll"
    /\ late' = IF turn \in asked THEN late + 1 ELSE late
    /\ UNCHANGED <<turn, plan, wave, pooled, frames, calls, outcome, active, shown, cancelled,
                   caller, overdue, asked>>

Ended(m) == worker[turn][m] \in {"ok", "failed"}

\* A wrong variant: the cancellation waits for the worker.
PollPatiently == FALSE /\ UNCHANGED vars

\* _execute_federation_source_step_with_cancel calls once itself, and
\* _raise_federation_turn_cancelled again.
PollCancelled ==
    /\ pc = "poll" /\ TurnCancelled
    /\ \A m \in batch : ~ Ended(m)
    /\ CancelStatements(batch, 2)
    /\ UNCHANGED <<progress, worker, active, caller, overdue, asked, late>>

PollEnded ==
    /\ pc = "poll"
    /\ \E m \in batch :
        /\ Ended(m)
        /\ IF worker[turn][m] = "ok"
           THEN /\ frames' = frames \cup {m} /\ batch' = {}
                /\ pc' = "wave" /\ UNCHANGED <<outcome, shown, cancelled>>
           ELSE RaisePartial /\ UNCHANGED <<frames, batch>>
    /\ UNCHANGED <<turn, plan, wave, steps, pooled, given, calls, worker, active, caller, overdue,
                   asked, late>>
-----------------------------------------------------------------------------
(***************************************************************************)
(* _execute_federation_steps_parallel takes the results as they come.      *)
(***************************************************************************)
\* A wrong variant: a failure cancels the context and the loop goes on.
CollectOn(m) ==
    /\ pc = "await" /\ m \in batch \ frames /\ Ended(m)
    /\ IF TurnCancelled THEN
            /\ worker' = Dropped /\ CancelStatements(batch, 1)
            /\ UNCHANGED <<frames, batch>>
       ELSE /\ IF worker[turn][m] = "failed"
               THEN /\ batch' = batch \ {m} /\ cancelled' = cancelled \cup {turn}
                    /\ UNCHANGED frames
               ELSE frames' = frames \cup {m} /\ UNCHANGED <<batch, cancelled>>
            /\ UNCHANGED <<pc, calls, worker, outcome, shown>>
    /\ UNCHANGED <<turn, plan, wave, steps, pooled, given, active, caller, overdue, asked, late>>

Collect(m) ==
    /\ pc = "await" /\ m \in batch \ frames /\ Ended(m)
    /\ IF TurnCancelled THEN
            /\ worker' = Dropped /\ CancelStatements(batch, 1)
            /\ UNCHANGED frames
       ELSE IF worker[turn][m] = "failed" THEN
            /\ worker' = Dropped
            /\ pc' = "shutdown" /\ outcome' = "partial" /\ cancelled' = cancelled \cup {turn}
            /\ UNCHANGED <<frames, calls, shown>>
       ELSE /\ frames' = frames \cup {m}
            /\ UNCHANGED <<pc, calls, worker, outcome, shown, cancelled>>
    /\ UNCHANGED <<turn, plan, wave, steps, pooled, batch, given, active, caller, overdue, asked,
                   late>>

BatchDone ==
    /\ pc = "await" /\ batch \subseteq frames /\ pc' = "batch" /\ batch' = {}
    /\ UNCHANGED <<turn, plan, wave, steps, pooled, frames, given, calls, outcome, worker, active,
                   shown, cancelled, caller, overdue, asked, late>>

\* A wrong variant: pool.shutdown(wait=False)
ShutdownAtOnce ==
    /\ pc = "shutdown" /\ End(outcome)
    /\ UNCHANGED <<progress, calls, worker, active, cancelled, caller, overdue, asked, late>>

\* pool.shutdown(wait=True)
Shutdown ==
    /\ pc = "shutdown"
    /\ \A m \in Member : worker[turn][m] \notin AtWork
    /\ End(outcome)
    /\ UNCHANGED <<progress, calls, worker, active, cancelled, caller, overdue, asked, late>>

Combine ==
    /\ pc = "combine"
    /\ \/ TurnCancelled /\ RaiseCancelled
       \/ ~ TurnCancelled /\ overdue /\ RaisePartial
       \/ ~ TurnCancelled /\ ~ overdue /\ pc' = "glue" /\ UNCHANGED <<outcome, shown, cancelled>>
    /\ UNCHANGED <<progress, calls, worker, active, caller, overdue, asked, late>>

\* execute_federation_coordinator returns, or finds the plan misconfigured, or
\* fails or times out.
Glue ==
    /\ pc = "glue"
    /\ \/ (End("complete") \/ End("refused")) /\ UNCHANGED cancelled
       \/ RaisePartial
    /\ UNCHANGED <<progress, calls, worker, active, caller, overdue, asked, late>>
-----------------------------------------------------------------------------
(***************************************************************************)
(* cancel_in_flight_statement, on the thread of the turn: the statement    *)
(* that the backend has registered is cancelled, whoever's it is.          *)
(***************************************************************************)
\* The members are called in the order of the batch.
Called == Foremost({m \in Member : due[m] > 0})

CallEnds(m) == due' = [due EXCEPT ![m] = @ - 1] /\ aim' = 0

\* It waits for the lock, reads the connection registered, and returns if there is none.
CancelRead(m) ==
    /\ pc = "cancelling" /\ aim = 0 /\ m \in Called /\ LockFree(m)
    /\ \/ active[m] = 0 /\ CallEnds(m)
       \/ active[m] # 0 /\ aim' = active[m] /\ UNCHANGED due
    /\ UNCHANGED <<pc, progress, outcome, worker, active, shown, cancelled, caller, overdue,
                   asked, late>>

\* It has asked the driver or the server to cancel: for PostgreSQL with a statement on
\* the very connection that is busy, for SQL Server on one of its own.
CancelReturns(m) ==
    /\ pc = "cancelling" /\ aim # 0 /\ m \in Called /\ CallEnds(m)
    /\ UNCHANGED <<pc, progress, outcome, worker, active, shown, cancelled, caller, overdue,
                   asked, late>>

\* An error of the database passes the clauses that catch: a polled step takes it for
\* the member's, and elsewhere it leaves execute_federated_prepare as it is.
CancelRaises(m) ==
    /\ pc = "cancelling" /\ aim # 0 /\ m \in Called
    /\ due' = [n \in Member |-> 0] /\ aim' = 0
    /\ \/ pooled /\ pc' = "shutdown" /\ outcome' = "error" /\ UNCHANGED <<shown, cancelled>>
       \/ ~ pooled /\ batch # {} /\ RaisePartial
       \/ ~ pooled /\ batch = {} /\ End("error") /\ UNCHANGED cancelled
    /\ UNCHANGED <<progress, worker, active, caller, overdue, asked, late>>

\* The turn has made its calls.  A polled step's worker is left behind.
CancelEnds ==
    /\ pc = "cancelling" /\ \A m \in Member : due[m] = 0
    /\ \/ pooled /\ pc' = "shutdown" /\ outcome' = "cancelled" /\ UNCHANGED <<shown, cancelled>>
       \/ ~ pooled /\ RaiseCancelled
    /\ UNCHANGED <<progress, calls, worker, active, caller, overdue, asked, late>>
-----------------------------------------------------------------------------
Workers(t) == {m \in Member : worker[t][m] \in {"working", "registering", "running"}}

Set(t, m, state) == worker' = [worker EXCEPT ![t][m] = state]

FromPool(m) ==
    /\ turn \in Turn /\ worker[turn][m] = "queued" /\ Cardinality(Workers(turn)) < MaxParallel
    /\ Set(turn, m, "working")
    /\ UNCHANGED <<pc, progress, calls, outcome, active, shown, cancelled, caller, overdue, asked,
                   late>>

\* The step is reduced and checked, and its connection is registered.
Send(t, m) ==
    /\ worker[t][m] = "working" /\ LockFree(m)
    /\ Set(t, m, IF m \in Served THEN "registering" ELSE "running")
    /\ active' = [active EXCEPT ![m] = t]
    /\ UNCHANGED <<pc, progress, calls, outcome, shown, cancelled, caller, overdue, asked, late>>

\* The server has told the identity of the connection, or has failed to.
Registered(t, m) ==
    /\ worker[t][m] = "registering" /\ Set(t, m, "running")
    /\ UNCHANGED <<pc, progress, calls, outcome, active, shown, cancelled, caller, overdue, asked,
                   late>>

\* It is refused before it is sent: caps, scope, a failed regeneration.
Refused(t, m) ==
    /\ worker[t][m] = "working" /\ Set(t, m, "failed")
    /\ UNCHANGED <<pc, progress, calls, outcome, active, shown, cancelled, caller, overdue, asked,
                   late>>

\* The statement returns or raises; only its own registration is removed.
Answer(t, m) ==
    /\ worker[t][m] = "running" /\ LockFree(m)
    /\ Set(t, m, "ok") \/ Set(t, m, "failed")
    /\ active' = [active EXCEPT ![m] = IF @ = t THEN 0 ELSE @]
    /\ UNCHANGED <<pc, progress, calls, outcome, shown, cancelled, caller, overdue, asked, late>>

\* PipelineSession.cancel reads the context ...
ReadContext ==
    /\ caller = 0 /\ shown # 0 /\ caller' = shown
    /\ UNCHANGED <<pc, progress, calls, outcome, worker, active, shown, cancelled, overdue, asked,
                   late>>

\* ... and cancels what it has read.
CancelContext ==
    /\ caller # 0 /\ caller' = 0
    /\ cancelled' = cancelled \cup {caller} /\ asked' = asked \cup {caller}
    /\ UNCHANGED <<pc, progress, calls, outcome, worker, active, shown, overdue, late>>

PlanTimesOut ==
    /\ pc # "idle" /\ ~ overdue /\ overdue' = TRUE
    /\ UNCHANGED <<pc, progress, calls, outcome, worker, active, shown, cancelled, caller, asked,
                   late>>

Coordinate ==
    \/ NextWave \/ CheckBatch \/ Submit \/ PollCancelled \/ PollEnded
    \/ BatchDone \/ CancelEnds \/ Shutdown \/ Combine \/ Glue
    \/ \E m \in Member : Collect(m) \/ CancelRead(m)
    \/ \E m \in Member \ Served : CancelReturns(m) \/ CancelRaises(m)

Next ==
    \/ \E p \in Plan : BeginTurn(p)
    \/ Coordinate
    \/ \E m \in Served : CancelReturns(m) \/ CancelRaises(m)
    \/ \E m \in Member : FromPool(m) \/ \E t \in Turn :
            Send(t, m) \/ Registered(t, m) \/ Refused(t, m) \/ Answer(t, m)
    \/ ReadContext \/ CancelContext \/ PlanTimesOut

Spec == Init /\ [][Next]_vars

\* The thread of the turn runs on, and a driver returns when it is called; no member
\* is made to answer, neither to a statement nor to a cancellation.
FairSpec == Spec /\ WF_vars(Coordinate)
-----------------------------------------------------------------------------
\* Once a caller has cancelled a turn it begins at most one more batch or step,
\* the one whose check had been passed.
StopsSoon == late <= 1

\* Two steps of one turn never run on one connection at a time.
OneStatementPerConnection ==
    turn \in Turn => \A m, n \in Workers(turn) : m # n => Slug[m] # Slug[n]

\* However many steps of a wave are left, one is free.
Orderly(i) == \A left \in SUBSET StepsOf(plan.waves[i]) : left # {} => Free(left) # {}

\* A step is not submitted before the frames of all drivers of its wave and the waves
\* before it have come, so that no member is asked for rows which they exclude;
\* unless the drivers of a wave go round in a circle.
DriversFirst ==
    turn \in Turn => \A i \in 1 .. Len(plan.waves) : Orderly(i) =>
        \A m \in StepsOf(plan.waves[i]) : worker[turn][m] # "none" =>
            plan.driver[m] \cap MembersUpTo(plan, i) \subseteq given[m]

\* A turn is told of rows only when each member's frame of that very turn is in
\* them, and of a cancellation only when a caller has cancelled it: not when the
\* context was cancelled on behalf of a member that failed.
ToldTruly ==
    /\ outcome = "complete" => frames = Members(plan)
                               /\ \A m \in frames : worker[turn][m] = "ok"
    /\ outcome = "cancelled" => turn \in asked

\* Between batches and after the turn no worker of it is at work, save that of a polled
\* step whose turn a caller has cancelled: it is told of the cancellation, or of a
\* failure when the cancelling itself has failed.
NoneLeftBehind ==
    turn \in Turn /\ pc \notin {"submit", "poll", "await", "cancelling", "shutdown"} =>
        LET left == {m \in Member : worker[turn][m] \in AtWork} IN
        \/ left = {}
        \/ /\ pc = "idle" /\ turn \in asked /\ Cardinality(left) = 1
           /\ outcome \in {"cancelled", "partial"}

\* A turn that is cancelled while it polls a step ends, even if the member never
\* answers; unless the server of a member whose frame has not come is asked to cancel:
\* the turn waits for its answer.
CancelledStepEnds ==
    /\ pc = "poll" /\ turn \in cancelled
    /\ (Members(plan) \ frames) \cap Served = {}
    ~> pc = "idle"
=============================================================================
