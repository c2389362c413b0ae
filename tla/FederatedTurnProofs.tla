------------------------- MODULE FederatedTurnProofs -------------------------
(***************************************************************************)
(* Theorems of FederatedTurn, for any members, drivers, plans and turns.   *)
(***************************************************************************)
EXTENDS FederatedTurn, FiniteSetTheorems, TLAPS

\* A cancelled turn has begun at most one batch or step since, and is not about to
\* begin another one.
Checked ==
    /\ asked \subseteq cancelled /\ late \in {0, 1}
    /\ late = 1 => turn \in cancelled
    /\ pc = "submit" => late = 0

\* Whatever the thread of the turn, its workers, callers and the clock do next: the
\* check at the head of the loop is passed only by a turn not cancelled.
LEMMA CheckedStep == Checked /\ [Next]_vars => Checked'
  <1> SUFFICES ASSUME Checked, [Next]_vars PROVE Checked'
    OBVIOUS
  <1> USE DEF Checked, progress, End, RaisePartial, RaiseCancelled, CancelStatements
  <1>1. CASE \E p \in Plan : BeginTurn(p)
    BY <1>1 DEF BeginTurn
  <1>2. CASE NextWave
    BY <1>2 DEF NextWave
  <1>3. CASE CheckBatch
    BY <1>3 DEF CheckBatch, TurnCancelled
  <1>4. CASE Submit
    BY <1>4 DEF Submit
  <1>5. CASE PollCancelled \/ PollEnded
    BY <1>5 DEF PollCancelled, PollEnded
  <1>6. CASE BatchDone \/ Shutdown \/ Combine \/ Glue
    BY <1>6 DEF BatchDone, Shutdown, Combine, Glue
  <1>7. CASE \/ CancelEnds
             \/ \E m \in Member : \/ Collect(m) \/ CancelRead(m)
                                 \/ CancelReturns(m) \/ CancelRaises(m)
    BY <1>7 DEF Collect, CancelEnds, CancelRead, CancelReturns, CancelRaises
  <1>8. CASE \E m \in Member : FromPool(m) \/ \E t \in Turn :
                Send(t, m) \/ Registered(t, m) \/ Refused(t, m) \/ Answer(t, m)
    BY <1>8 DEF FromPool, Send, Registered, Refused, Answer
  <1>9. CASE ReadContext \/ CancelContext \/ PlanTimesOut
    BY <1>9 DEF ReadContext, CancelContext, PlanTimesOut
  <1>10. CASE UNCHANGED vars
    BY <1>10 DEF vars
  <1> QED
    BY <1>1, <1>2, <1>3, <1>4, <1>5, <1>6, <1>7, <1>8, <1>9, <1>10, ServedAssumption
    DEF Next, Coordinate

\* Once a caller has cancelled a turn it begins at most one more batch or step,
\* the one whose check had been passed.
THEOREM CancelledTurnStops == Spec => []StopsSoon
<1>1. Init => Checked
  BY DEF Init, Checked
<1>2. Checked => StopsSoon
  BY DEF Checked, StopsSoon
<1> QED
  BY <1>1, <1>2, CheckedStep, PTL DEF Spec
-----------------------------------------------------------------------------
(***************************************************************************)
(* Plans, batches and workers.                                             *)
(***************************************************************************)
State == AtWork \cup {"none", "ok", "failed", "dropped"}

\* The steps of a wave are steps of no wave before it.
LEMMA WaveByWave ==
    ASSUME NEW p \in Plan, NEW i \in 0 .. Len(p.waves) - 1
    PROVE  /\ MembersUpTo(p, i + 1) = MembersUpTo(p, i) \cup StepsOf(p.waves[i + 1])
           /\ MembersUpTo(p, i) \cap StepsOf(p.waves[i + 1]) = {}
<1> USE DEF MembersUpTo, StepsOf
<1>1. p.waves \in Seq(Seq(Member) \ {<< >>}) /\ Len(p.waves) \in Nat
  BY PlanAssumption
<1>2. 1 .. i + 1 = (1 .. i) \cup {i + 1}
  BY <1>1
<1>3. MembersUpTo(p, i + 1) = MembersUpTo(p, i) \cup StepsOf(p.waves[i + 1])
  BY <1>2
<1>4. ASSUME NEW k \in 1 .. i PROVE StepsOf(p.waves[k]) \cap StepsOf(p.waves[i + 1]) = {}
  <2>1. k \in 1 .. Len(p.waves) /\ i + 1 \in 1 .. Len(p.waves) /\ k # i + 1
    BY <1>1
  <2>2. \A a \in 1 .. Len(p.waves[k]), b \in 1 .. Len(p.waves[i + 1]) :
          p.waves[k][a] # p.waves[i + 1][b]
    BY <2>1, PlanAssumption
  <2> QED
    BY <2>2
<1> QED
  BY <1>3, <1>4

LEMMA WavesOfMembers ==
    ASSUME NEW p \in Plan, NEW i \in 0 .. Len(p.waves)
    PROVE  MembersUpTo(p, i) \subseteq Member /\ MembersUpTo(p, 0) = {}
<1>1. p.waves \in Seq(Seq(Member) \ {<< >>}) /\ Len(p.waves) \in Nat
  BY PlanAssumption
<1>2. ASSUME NEW k \in 1 .. Len(p.waves) PROVE StepsOf(p.waves[k]) \subseteq Member
  <2>1. p.waves[k] \in Seq(Member)
    BY <1>1
  <2> QED
    BY <2>1 DEF StepsOf
<1>3. \A k \in 1 .. i : StepsOf(p.waves[k]) \subseteq Member
  <2>1. PICK n \in Nat : n = Len(p.waves)
    BY <1>1
  <2>2. \A k \in 1 .. i : k \in 1 .. n
    BY <2>1
  <2> QED
    BY <1>2, <2>1, <2>2, Zenon
<1>4. 1 .. 0 = {}
  OBVIOUS
<1> QED
  BY <1>3, <1>4 DEF MembersUpTo

\* The next batch is taken from the steps left, uses no connection twice, keeps
\* drivers and driven apart unless they go round in a circle, and leaves none of
\* the steps of a wave of one.
LEMMA BatchTaken ==
    ASSUME plan \in Plan, wave \in 1 .. Len(plan.waves),
           NEW left, left \subseteq StepsOf(plan.waves[wave]), left # {}
    PROVE  /\ NextBatch(left) \subseteq left
           /\ \A m, n \in NextBatch(left) : m # n => Slug[m] # Slug[n]
           /\ Orderly(wave) => NextBatch(left) \subseteq Free(left)
           /\ \A m : left = {m} => NextBatch(left) = {m}
<1> DEFINE order == plan.waves[wave]
<1>1. order \in Seq(Member) /\ Len(order) \in Nat
  BY PlanAssumption
<1>2. \A k, l \in 1 .. Len(order) : order[k] = order[l] => k = l
  BY PlanAssumption
<1>3. \A m, n \in left : m # n => Precedes(m, n) \/ Precedes(n, m)
  <2> SUFFICES ASSUME NEW m \in left, NEW n \in left, m # n
               PROVE  Precedes(m, n) \/ Precedes(n, m)
    OBVIOUS
  <2>1. PICK k \in 1 .. Len(order), l \in 1 .. Len(order) : order[k] = m /\ order[l] = n
    BY DEF StepsOf
  <2>2. k < l \/ l < k
    BY <2>1, <1>1
  <2> QED
    BY <2>1, <2>2 DEF Precedes
<1>4. \A m : ~ Precedes(m, m)
  BY <1>1, <1>2 DEF Precedes
<1>5. NextBatch(left) \subseteq left
  BY DEF NextBatch, Free, Foremost
<1>6. \A m, n \in NextBatch(left) : m # n => Slug[m] # Slug[n]
  BY <1>3 DEF NextBatch, Free, Foremost
<1>7. Orderly(wave) => NextBatch(left) \subseteq Free(left)
  BY DEF Orderly, NextBatch
<1>8. \A m : left = {m} => NextBatch(left) = {m}
  BY <1>4 DEF NextBatch, Free, Foremost
<1> QED
  BY <1>5, <1>6, <1>7, <1>8

-----------------------------------------------------------------------------
(***************************************************************************)
(* What a step does to the workers: all but Submit only let those at work  *)
(* go on.                                                                  *)
(***************************************************************************)
Workings == [Turn -> [Member -> State]]

GoOn == \A t \in Turn, m \in Member : worker'[t][m] = worker[t][m] \/ worker[t][m] \in AtWork

LEMMA DroppedWorkers ==
    ASSUME TypeOK, turn \in Turn
    PROVE  /\ Dropped \in Workings
           /\ \A t \in Turn, m \in Member :
                \/ Dropped[t][m] = worker[t][m]
                \/ worker[t][m] = "queued" /\ Dropped[t][m] = "dropped"
<1>1. worker \in Workings
  BY DEF TypeOK, Workings, State
<1>2. [m \in Member |-> IF worker[turn][m] = "queued" THEN "dropped" ELSE worker[turn][m]]
        \in [Member -> State]
  BY <1>1 DEF State, Workings
<1>3. Dropped \in Workings
  BY <1>1, <1>2 DEF Dropped, Workings
<1>4. \A t \in Turn, m \in Member :
        \/ Dropped[t][m] = worker[t][m]
        \/ worker[t][m] = "queued" /\ Dropped[t][m] = "dropped"
  BY <1>1 DEF Dropped, Workings
<1> QED
  BY <1>3, <1>4

LEMMA OneWorker ==
    ASSUME worker \in Workings, NEW t \in Turn, NEW m \in Member, NEW s \in State,
           worker[t][m] \in AtWork, Set(t, m, s)
    PROVE  worker' \in Workings /\ GoOn
<1>1. worker' = [worker EXCEPT ![t] = [worker[t] EXCEPT ![m] = s]]
  BY DEF Set
<1>2. [worker[t] EXCEPT ![m] = s] \in [Member -> State]
  BY DEF Workings
<1> QED
  BY <1>1, <1>2 DEF Workings, GoOn

LEMMA SubmittedWorkers ==
    ASSUME TypeOK, turn \in Turn, Submit
    PROVE  /\ worker' \in Workings
           /\ \A t \in Turn, m \in Member : worker'[t][m] =
                IF t = turn /\ m \in NextBatch(steps)
                THEN IF pooled THEN "queued" ELSE "working" ELSE worker[t][m]
<1>1. worker \in Workings
  BY DEF TypeOK, Workings, State
<1>2. [m \in Member |-> IF m \notin NextBatch(steps) THEN worker[turn][m]
                        ELSE IF pooled THEN "queued" ELSE "working"] \in [Member -> State]
  BY <1>1 DEF Workings, State, AtWork
<1>3. worker' = [worker EXCEPT ![turn] = [m \in Member |->
        IF m \notin NextBatch(steps) THEN worker[turn][m]
        ELSE IF pooled THEN "queued" ELSE "working"]]
  BY DEF Submit
<1> QED
  BY <1>1, <1>2, <1>3 DEF Workings

LEMMA StepOfWorkers ==
    ASSUME TypeOK, pc # "idle" => turn \in Turn, [Next]_vars
    PROVE  worker' \in Workings /\ (Submit \/ GoOn)
<1> USE DEF GoOn
<1>1. worker \in Workings
  BY DEF TypeOK, Workings, State
<1>2. CASE UNCHANGED worker
  BY <1>1, <1>2
<1>5. CASE Submit
  BY <1>5, SubmittedWorkers DEF Submit
<1>6. ASSUME NEW m \in Member, Collect(m) PROVE worker' \in Workings /\ GoOn
  <2>1. turn \in Turn
    BY <1>6 DEF Collect
  <2>2. CASE worker' = Dropped
    BY <2>1, <2>2, DroppedWorkers DEF AtWork
  <2>3. worker' = Dropped \/ UNCHANGED worker
    BY <1>6 DEF Collect
  <2> QED
    BY <1>2, <2>2, <2>3
<1>7. ASSUME NEW m \in Member, FromPool(m) PROVE worker' \in Workings /\ GoOn
  BY <1>1, <1>7, OneWorker DEF FromPool, State, AtWork
<1>8. ASSUME NEW m \in Member, NEW t \in Turn,
             Send(t, m) \/ Registered(t, m) \/ Refused(t, m) \/ Answer(t, m)
      PROVE  worker' \in Workings /\ GoOn
  BY <1>1, <1>8, OneWorker DEF Send, Registered, Refused, Answer, State, AtWork
<1>9. CASE \/ CheckBatch \/ PollCancelled \/ CancelEnds
           \/ \E m \in Member : CancelRead(m) \/ CancelReturns(m) \/ CancelRaises(m)
  <2>1. UNCHANGED worker
    BY <1>9 DEF CheckBatch, PollCancelled, CancelEnds, CancelRead, CancelReturns, CancelRaises
  <2> QED
    BY <1>2, <2>1
<1>10. CASE \/ \E p \in Plan : BeginTurn(p)
            \/ NextWave \/ PollEnded \/ BatchDone \/ Shutdown \/ Combine \/ Glue
            \/ ReadContext \/ CancelContext \/ PlanTimesOut \/ UNCHANGED vars
  <2>1. UNCHANGED worker
    BY <1>10 DEF BeginTurn, NextWave, PollEnded, BatchDone, Shutdown, Combine, Glue,
                 ReadContext, CancelContext, PlanTimesOut, vars
  <2> QED
    BY <1>2, <2>1
<1> QED
  BY <1>5, <1>6, <1>7, <1>8, <1>9, <1>10, ServedAssumption DEF Next, Coordinate
-----------------------------------------------------------------------------
\* Turns are numbered: none that has not begun is known to a worker, to a caller or
\* to a cancelled context.
Numbered ==
    /\ pc # "idle" => turn \in Turn
    /\ cancelled \subseteq 1 .. turn /\ caller \in 0 .. turn
    /\ \A t \in Turn : t > turn => \A m \in Member : worker[t][m] = "none"

LEMMA NumberedStep == TypeOK /\ Numbered /\ [Next]_vars => Numbered'
<1> SUFFICES ASSUME TypeOK, Numbered, [Next]_vars PROVE Numbered'
  OBVIOUS
<1> USE DEF Numbered, progress, calls, End, RaisePartial, RaiseCancelled, CancelStatements, Turn
<1>1. worker' \in Workings /\ (Submit \/ GoOn)
  BY StepOfWorkers
<1>2. \A t \in Turn : t > turn => \A m \in Member : worker'[t][m] = "none"
  <2>1. CASE GoOn
    BY <2>1 DEF GoOn, AtWork
  <2>2. CASE Submit
    BY <2>2, SubmittedWorkers DEF Submit, TypeOK
  <2> QED
    BY <1>1, <2>1, <2>2
<1>3. CASE \E p \in Plan : BeginTurn(p)
  <2>1. /\ pc' = "wave" /\ turn' = turn + 1 /\ turn' \in Turn /\ turn \in Nat
        /\ UNCHANGED <<cancelled, caller, worker>>
    BY <1>3, BoundAssumption DEF BeginTurn, TypeOK
  <2>2. cancelled' \subseteq 1 .. turn' /\ caller' \in 0 .. turn'
    BY <2>1
  <2>3. \A t \in Turn : t > turn' => \A m \in Member : worker'[t][m] = "none"
    BY <1>2, <2>1
  <2> QED
    BY <2>1, <2>2, <2>3
<1>4. CASE ReadContext \/ CancelContext
  <2>1. /\ turn \in Nat /\ shown \in 0 .. turn
        /\ turn' = turn /\ pc' = pc /\ worker' = worker
    BY <1>4 DEF ReadContext, CancelContext, TypeOK
  <2>2. caller' \in {0, shown}
    BY <1>4 DEF ReadContext, CancelContext
  <2>3. cancelled' = cancelled \/ (caller # 0 /\ cancelled' = cancelled \cup {caller})
    BY <1>4 DEF ReadContext, CancelContext
  <2>4. cancelled' \subseteq 1 .. turn' /\ caller' \in 0 .. turn'
    <3>1. caller # 0 => caller \in 1 .. turn
      BY <2>1
    <3>2. caller' \in 0 .. turn
      BY <2>1, <2>2
    <3>3. cancelled' \subseteq 1 .. turn
      BY <2>3, <3>1
    <3> QED
      BY <2>1, <3>2, <3>3
  <2>5. \A t \in Turn : t > turn' => \A m \in Member : worker'[t][m] = "none"
    BY <1>2, <2>1
  <2> QED
    BY <2>1, <2>4, <2>5
<1>5. CASE \/ Coordinate \/ PlanTimesOut \/ UNCHANGED vars
           \/ \E m \in Served : CancelReturns(m) \/ CancelRaises(m)
           \/ \E m \in Member : FromPool(m) \/ \E t \in Turn :
                Send(t, m) \/ Registered(t, m) \/ Refused(t, m) \/ Answer(t, m)
  <2>1. turn' = turn /\ caller' = caller /\ (pc' # "idle" => pc # "idle")
    <3>1. CASE \/ PlanTimesOut \/ UNCHANGED vars
               \/ \E m \in Member : FromPool(m) \/ \E t \in Turn :
                    Send(t, m) \/ Registered(t, m) \/ Refused(t, m) \/ Answer(t, m)
      BY <3>1 DEF FromPool, Send, Registered, Refused, Answer, PlanTimesOut, vars
    <3>2. CASE \/ NextWave \/ CheckBatch \/ Submit \/ PollCancelled \/ PollEnded \/ BatchDone
               \/ Shutdown \/ Combine \/ Glue
      BY <3>2 DEF NextWave, CheckBatch, Submit, PollCancelled, PollEnded, BatchDone, Shutdown,
                  Combine, Glue
    <3>3. CASE \/ CancelEnds
               \/ \E m \in Member : \/ Collect(m) \/ CancelRead(m)
                                   \/ CancelReturns(m) \/ CancelRaises(m)
      BY <3>3 DEF Collect, CancelEnds, CancelRead, CancelReturns, CancelRaises
    <3> QED
      BY <1>5, <3>1, <3>2, <3>3, ServedAssumption DEF Coordinate
  <2>2. cancelled' = cancelled \/ (pc # "idle" /\ cancelled' = cancelled \cup {turn})
    <3>1. CASE NextWave \/ CheckBatch \/ Submit \/ Combine \/ Glue
      BY <3>1 DEF NextWave, CheckBatch, Submit, Combine, Glue
    <3>2. CASE PollCancelled \/ PollEnded \/ BatchDone \/ Shutdown
      BY <3>2 DEF PollCancelled, PollEnded, BatchDone, Shutdown
    <3>3. CASE PlanTimesOut \/ UNCHANGED vars \/ \E m \in Member : FromPool(m) \/
                \E t \in Turn : Send(t, m) \/ Registered(t, m) \/ Refused(t, m) \/ Answer(t, m)
      BY <3>3 DEF PlanTimesOut, vars, FromPool, Send, Registered, Refused, Answer
    <3>4. CASE \/ CancelEnds
               \/ \E m \in Member : \/ Collect(m) \/ CancelRead(m)
                                   \/ CancelReturns(m) \/ CancelRaises(m)
      BY <3>4 DEF Collect, CancelEnds, CancelRead, CancelReturns, CancelRaises
    <3> QED
      BY <1>5, <3>1, <3>2, <3>3, <3>4, ServedAssumption DEF Coordinate
  <2>3. turn \in Nat /\ (pc # "idle" => turn \in 1 .. turn)
    BY DEF TypeOK
  <2>4. cancelled' \subseteq 1 .. turn' /\ caller' \in 0 .. turn'
    BY <2>1, <2>2, <2>3
  <2>5. \A t \in Turn : t > turn' => \A m \in Member : worker'[t][m] = "none"
    BY <1>2, <2>1
  <2> QED
    BY <2>1, <2>4, <2>5
<1> QED
  BY <1>3, <1>4, <1>5 DEF Next
-----------------------------------------------------------------------------
(***************************************************************************)
(* Where a turn stands in its plan: the steps of the waves begun are those *)
(* left, those under way and those whose frames have come, and a wave that *)
(* needs no pool has one step.                                             *)
(***************************************************************************)
Advance ==
    /\ steps # {} => wave \in 1 .. Len(plan.waves) /\ steps \subseteq StepsOf(plan.waves[wave])
    /\ steps \cap (frames \cup batch) = {}
    /\ pc \in {"wave", "batch", "submit", "poll", "await"} =>
            MembersUpTo(plan, wave) = frames \cup batch \cup steps
    /\ pc \in {"wave", "poll", "combine", "glue"} => steps = {}
    /\ pc \in {"wave", "batch", "submit", "combine", "glue"} => batch = {}
    /\ pc = "submit" => steps # {}
    /\ pc \in {"combine", "glue"} => frames = Members(plan)
    /\ pc = "poll" => ~ pooled /\ \E m \in Member : batch = {m}
    /\ pc = "cancelling" /\ ~ pooled => \E m \in Member : batch \subseteq {m}
    /\ pc \in {"await", "shutdown"} => pooled
    /\ pc \in {"batch", "submit"} /\ ~ pooled => \E m \in Member : steps \subseteq {m}
    /\ \A m, n \in batch : m # n => Slug[m] # Slug[n]
    /\ outcome = "complete" => pc = "idle" /\ frames = Members(plan)

LEMMA TypeStep == TypeOK /\ Numbered /\ Advance /\ [Next]_vars => TypeOK'
<1> SUFFICES ASSUME TypeOK, Numbered, Advance, [Next]_vars PROVE TypeOK'
  OBVIOUS
<1> USE DEF progress, calls, End, RaisePartial, RaiseCancelled
<1>1. worker' \in [Turn -> [Member -> AtWork \cup {"none", "ok", "failed", "dropped"}]]
  BY StepOfWorkers DEF Numbered, Workings, State
<1>2. turn \in Nat /\ turn \in 0 .. MaxTurns /\ (pc # "idle" => turn \in Turn)
  BY BoundAssumption DEF TypeOK, Numbered
<1>3. CASE \E p \in Plan : BeginTurn(p)
  <2>1. PICK p \in Plan : BeginTurn(p)
    BY <1>3
  <2>2. p.waves \in Seq(Seq(Member) \ {<< >>})
    BY PlanAssumption
  <2> QED
    <3>1. wave' \in 0 .. Len(plan'.waves) /\ turn' \in 0 .. MaxTurns
      BY <1>2, <2>1, <2>2, BoundAssumption DEF BeginTurn
    <3> QED
      BY <1>1, <2>1, <3>1 DEF BeginTurn, TypeOK
<1>4. CASE NextWave
  <2>1. plan.waves \in Seq(Seq(Member) \ {<< >>}) /\ plan.union \in BOOLEAN
    BY PlanAssumption DEF TypeOK
  <2>2. CASE wave # Len(plan.waves) /\ ~ overdue
    <3>1. wave + 1 \in 1 .. Len(plan.waves)
      BY <2>1, <2>2 DEF TypeOK
    <3>2. StepsOf(plan.waves[wave + 1]) \subseteq Member
      BY <2>1, <3>1 DEF StepsOf
    <3>3. pooled' \in BOOLEAN /\ wave' \in 0 .. Len(plan.waves)
      BY <1>4, <2>1, <2>2, <3>1 DEF NextWave
    <3> QED
      BY <1>1, <1>2, <1>4, <2>2, <3>2, <3>3 DEF NextWave, TypeOK
  <2>3. CASE wave = Len(plan.waves) \/ overdue
    BY <1>1, <1>2, <1>4, <2>3 DEF NextWave, TypeOK
  <2> QED
    BY <2>2, <2>3 DEF TypeOK
<1>5. CASE CheckBatch
  <2>1. due' \in [Member -> 0 .. 2]
    BY <1>5 DEF CheckBatch, CancelStatements, TypeOK
  <2> QED
    BY <1>1, <1>2, <1>5, <2>1 DEF CheckBatch, CancelStatements, TypeOK
<1>6. CASE Submit
  <2>1. NextBatch(steps) \subseteq steps
    BY <1>6, BatchTaken DEF Submit, Advance, TypeOK
  <2>2. given' \in [Member -> SUBSET Member]
    BY <1>6 DEF Submit, TypeOK
  <2>3. late' \in Nat
    BY <1>6 DEF Submit, TypeOK
  <2> QED
    BY <1>1, <1>2, <1>6, <2>1, <2>2, <2>3 DEF Submit, TypeOK
<1>7. CASE PollCancelled \/ PollEnded
  <2>1. due' \in [Member -> 0 .. 2]
    BY <1>7 DEF PollCancelled, PollEnded, CancelStatements, TypeOK
  <2> QED
    BY <1>1, <1>2, <1>7, <2>1 DEF PollCancelled, PollEnded, CancelStatements, TypeOK
<1>8. CASE BatchDone \/ Shutdown \/ Combine \/ Glue
  BY <1>1, <1>2, <1>8 DEF BatchDone, Shutdown, Combine, Glue, TypeOK
<1>9. CASE \E m \in Member : Collect(m)
  <2>1. /\ pc = "await" /\ pc' \in {"await", "cancelling", "shutdown"}
        /\ frames' \subseteq Member
        /\ due' \in [Member -> 0 .. 2]
        /\ outcome' \in {"partial", outcome}
        /\ cancelled' \in {cancelled, cancelled \cup {turn}}
        /\ UNCHANGED <<turn, plan, wave, steps, pooled, batch, given, aim, active, shown, caller,
                       overdue, asked, late>>
    BY <1>9 DEF Collect, CancelStatements, TypeOK
  <2>2. turn \in Turn
    BY <1>2, <2>1
  <2>3. cancelled' \subseteq Turn /\ asked' \subseteq cancelled'
    BY <2>1, <2>2 DEF TypeOK
  <2>4. shown' = IF pc' = "idle" THEN 0 ELSE turn'
    BY <2>1 DEF TypeOK
  <2>5. outcome' \in {"none", "complete", "partial", "refused", "cancelled", "error"}
    BY <2>1 DEF TypeOK
  <2> QED
    BY <1>1, <2>1, <2>3, <2>4, <2>5 DEF TypeOK
<1>10. CASE \E m \in Member : FromPool(m) \/ \E t \in Turn :
                Send(t, m) \/ Registered(t, m) \/ Refused(t, m) \/ Answer(t, m)
  <2>1. active' \in [Member -> 0 .. MaxTurns]
    <3>1. /\ active \in [Member -> 0 .. MaxTurns]
          /\ 0 \in 0 .. MaxTurns /\ \A t \in Turn : t \in 0 .. MaxTurns
      BY BoundAssumption DEF TypeOK, Turn
    <3>2. PICK m \in Member :
            \/ UNCHANGED active
            \/ \E t \in Turn : active' = [active EXCEPT ![m] = t]
            \/ \E t \in Turn : active' = [active EXCEPT ![m] = IF @ = t THEN 0 ELSE @]
      BY <1>10 DEF FromPool, Send, Registered, Refused, Answer
    <3> QED
      BY <3>1, <3>2
  <2>2. UNCHANGED <<pc, progress, calls, outcome, shown, cancelled, caller, overdue, asked, late>>
    BY <1>10 DEF FromPool, Send, Registered, Refused, Answer
  <2> QED
    BY <1>1, <2>1, <2>2 DEF TypeOK
<1>11. CASE ReadContext \/ CancelContext \/ PlanTimesOut
  <2>1. CASE CancelContext
    <3>1. caller \in Turn
      BY <2>1, BoundAssumption DEF CancelContext, TypeOK, Turn
    <3>2. cancelled' \subseteq Turn /\ asked' \subseteq cancelled' /\ caller' \in 0 .. MaxTurns
      BY <2>1, <3>1, BoundAssumption DEF CancelContext, TypeOK
    <3> QED
      BY <1>1, <2>1, <3>2 DEF CancelContext, TypeOK
  <2> QED
    BY <1>1, <1>2, <1>11, <2>1 DEF ReadContext, PlanTimesOut, TypeOK
<1>12. CASE UNCHANGED vars
  BY <1>12 DEF vars, TypeOK
<1>13. CASE \/ CancelEnds
            \/ \E m \in Member : CancelRead(m) \/ CancelReturns(m) \/ CancelRaises(m)
  <2>1. due' \in [Member -> 0 .. 2] /\ aim' \in 0 .. MaxTurns
    <3>1. CASE \E m \in Member : m \in Called /\ CallEnds(m)
      <4>1. PICK m \in Member : m \in Called /\ CallEnds(m)
        BY <3>1
      <4>2. due[m] \in 0 .. 2 /\ due[m] > 0
        BY <4>1 DEF Called, Foremost, TypeOK
      <4>3. due[m] - 1 \in 0 .. 2 /\ 0 \in 0 .. MaxTurns
        BY <4>2, BoundAssumption
      <4>4. due' = [due EXCEPT ![m] = due[m] - 1] /\ aim' = 0
        BY <4>1 DEF CallEnds
      <4> QED
        BY <4>3, <4>4 DEF TypeOK
    <3>2. CASE UNCHANGED due /\ \E m \in Member : aim' = active[m]
      BY <3>2 DEF TypeOK
    <3>3. CASE due' = [m \in Member |-> 0] /\ aim' = 0
      BY <3>3, BoundAssumption
    <3>4. CASE UNCHANGED <<due, aim>>
      BY <3>4 DEF TypeOK
    <3>5. \/ \E m \in Member : m \in Called /\ CallEnds(m)
          \/ UNCHANGED due /\ \E m \in Member : aim' = active[m]
          \/ due' = [m \in Member |-> 0] /\ aim' = 0
          \/ UNCHANGED <<due, aim>>
      BY <1>13 DEF CancelEnds, CancelRead, CancelReturns, CancelRaises
    <3> QED
      BY <3>1, <3>2, <3>3, <3>4, <3>5
  <2>2. turn \in Turn
    BY <1>2, <1>13 DEF CancelEnds, CancelRead, CancelReturns, CancelRaises
  <2>3. /\ pc = "cancelling" /\ pc' \in {"cancelling", "shutdown", "idle"}
        /\ outcome' \in {"partial", "cancelled", "error", outcome}
        /\ shown' = (IF pc' = "idle" THEN 0 ELSE shown)
        /\ cancelled' \in {cancelled, cancelled \cup {turn}}
        /\ UNCHANGED <<progress, active, caller, overdue, asked, late>>
    BY <1>13 DEF CancelEnds, CancelRead, CancelReturns, CancelRaises
  <2>4. cancelled' \subseteq Turn /\ asked' \subseteq cancelled'
    BY <2>2, <2>3 DEF TypeOK
  <2>5. shown' = IF pc' = "idle" THEN 0 ELSE turn'
    BY <2>3 DEF TypeOK
  <2>6. outcome' \in {"none", "complete", "partial", "refused", "cancelled", "error"}
    BY <2>3 DEF TypeOK
  <2>7. pc' \in {"cancelling", "shutdown", "idle"}
    BY <2>3
  <2> QED
    BY <1>1, <2>1, <2>3, <2>4, <2>5, <2>6, <2>7 DEF TypeOK
<1> QED
  BY <1>3, <1>4, <1>5, <1>6, <1>7, <1>8, <1>9, <1>10, <1>11, <1>12, <1>13, ServedAssumption
  DEF Next, Coordinate

LEMMA AdvanceStep == TypeOK /\ Advance /\ [Next]_vars => Advance'
<1> SUFFICES ASSUME TypeOK, Advance, [Next]_vars PROVE Advance'
  OBVIOUS
<1> USE DEF progress, End, RaisePartial, RaiseCancelled, CancelStatements
<1>1. plan \in Plan /\ plan.waves \in Seq(Seq(Member) \ {<< >>}) /\ Len(plan.waves) \in Nat
  BY PlanAssumption DEF TypeOK
<1>2. CASE \E p \in Plan : BeginTurn(p)
  <2>1. PICK p \in Plan : BeginTurn(p)
    BY <1>2
  <2>2. MembersUpTo(p, 0) = {} /\ Len(p.waves) \in Nat
    BY WavesOfMembers, PlanAssumption
  <2> QED
    BY <2>1, <2>2 DEF BeginTurn, Advance
<1>3. CASE NextWave
  <2>1. CASE wave # Len(plan.waves) /\ ~ overdue
    <3>1. wave \in 0 .. Len(plan.waves) - 1 /\ wave + 1 \in 1 .. Len(plan.waves)
      BY <1>1, <2>1 DEF TypeOK
    <3>2. /\ MembersUpTo(plan, wave + 1) = MembersUpTo(plan, wave) \cup StepsOf(plan.waves[wave + 1])
          /\ MembersUpTo(plan, wave) \cap StepsOf(plan.waves[wave + 1]) = {}
      BY <1>1, <3>1, WaveByWave
    <3>3. /\ pc = "wave" /\ pc' = "batch" /\ wave' = wave + 1
          /\ steps' = StepsOf(plan.waves[wave + 1])
          /\ pooled' = (plan.union \/ Len(plan.waves[wave + 1]) > 1)
          /\ UNCHANGED <<plan, frames, batch, outcome>>
      BY <1>3, <2>1 DEF NextWave
    <3>4. ~ pooled' => \E m \in Member : steps' \subseteq {m}
      <4>1. plan.waves[wave + 1] \in Seq(Member) \ {<< >>}
        BY <1>1, <3>1
      <4>2. CASE Len(plan.waves[wave + 1]) = 1
        <5>1. PICK m \in Member : m = plan.waves[wave + 1][1]
          BY <4>1, <4>2
        <5>2. StepsOf(plan.waves[wave + 1]) = {m}
          BY <4>1, <4>2, <5>1 DEF StepsOf
        <5>3. steps' \subseteq {m}
          BY <3>3, <5>2
        <5> QED
          BY <5>3
      <4>3. ~ pooled' => Len(plan.waves[wave + 1]) = 1
        <5>1. PICK n \in Nat : n = Len(plan.waves[wave + 1]) /\ n # 0
          BY <4>1
        <5>2. ~ pooled' => ~ (n > 1)
          BY <3>3, <5>1
        <5>3. n # 0
          BY <5>1
        <5>4. n = 1 \/ n > 1
          BY <5>3
        <5> QED
          BY <5>1, <5>2, <5>4
      <4> QED
        BY <4>2, <4>3
    <3> QED
      BY <3>1, <3>2, <3>3, <3>4 DEF Advance
  <2>2. CASE wave = Len(plan.waves)
    BY <1>3, <2>2 DEF NextWave, Advance, Members
  <2>3. CASE wave # Len(plan.waves) /\ overdue
    BY <1>3, <2>3 DEF NextWave, Advance
  <2> QED
    BY <2>1, <2>2, <2>3 DEF TypeOK
<1>4. CASE CheckBatch
  BY <1>4 DEF CheckBatch, Advance
<1>5. CASE Submit
  <2>1. /\ NextBatch(steps) \subseteq steps
        /\ \A m, n \in NextBatch(steps) : m # n => Slug[m] # Slug[n]
        /\ \A m : steps = {m} => NextBatch(steps) = {m}
    BY <1>1, <1>5, BatchTaken DEF Submit, Advance
  <2>2. /\ pc = "submit" /\ pc' = (IF pooled THEN "await" ELSE "poll")
        /\ batch' = NextBatch(steps) /\ steps' = steps \ NextBatch(steps)
        /\ UNCHANGED <<plan, wave, pooled, frames, outcome>>
    BY <1>5 DEF Submit
  <2>3. ASSUME ~ pooled PROVE steps' = {} /\ \E m \in Member : batch' = {m}
    <3>1. PICK m \in Member : steps \subseteq {m}
      BY <2>2, <2>3 DEF Advance
    <3>2. steps = {m}
      BY <2>2, <3>1 DEF Advance
    <3> QED
      BY <2>1, <2>2, <3>2
  <2>4. pooled \in BOOLEAN
    BY DEF TypeOK
  <2> QED
    BY <2>1, <2>2, <2>3, <2>4 DEF Advance
<1>6. CASE PollCancelled \/ PollEnded
  <2>1. CASE PollCancelled
    BY <2>1 DEF PollCancelled, Advance
  <2>2. CASE PollEnded
    <3>1. PICK m \in batch : IF worker[turn][m] = "ok"
            THEN /\ frames' = frames \cup {m} /\ batch' = {} /\ pc' = "wave"
                 /\ UNCHANGED outcome
            ELSE pc' = "idle" /\ outcome' = "partial" /\ UNCHANGED <<frames, batch>>
      BY <2>2 DEF PollEnded
    <3>2. batch = {m} /\ pc = "poll" /\ UNCHANGED <<plan, wave, steps, pooled>>
      BY <2>2, <3>1 DEF PollEnded, Advance
    <3>3. CASE worker[turn][m] = "ok"
      <4>1. batch' = {} /\ frames' = frames \cup batch /\ pc' = "wave" /\ UNCHANGED outcome
        BY <3>1, <3>2, <3>3
      <4>2. /\ steps = {} /\ steps' = {} /\ plan' = plan /\ wave' = wave
            /\ MembersUpTo(plan', wave') = frames' \cup batch' \cup steps'
        BY <3>2, <4>1 DEF Advance
      <4> QED
        BY <3>2, <4>1, <4>2 DEF Advance
    <3>4. CASE worker[turn][m] # "ok"
      BY <3>1, <3>2, <3>4 DEF Advance
    <3> QED
      BY <3>3, <3>4
  <2> QED
    BY <1>6, <2>1, <2>2
<1>7. CASE BatchDone \/ Shutdown \/ Combine \/ Glue
  BY <1>7 DEF BatchDone, Shutdown, Combine, Glue, Advance
<1>8. CASE \E m \in Member : Collect(m)
  <2>1. PICK m \in batch :
            \/ pc' = "shutdown" /\ outcome' = "partial" /\ UNCHANGED frames
            \/ pc' = "cancelling" /\ UNCHANGED <<frames, outcome>>
            \/ frames' = frames \cup {m} /\ UNCHANGED <<pc, outcome>>
    BY <1>8 DEF Collect
  <2>2. pc = "await" /\ UNCHANGED <<plan, wave, steps, pooled, batch>>
    BY <1>8 DEF Collect
  <2>3. CASE pc' # "await"
    BY <2>1, <2>2, <2>3 DEF Advance
  <2>4. CASE pc' = "await"
    <3>1. frames' = frames \cup {m} /\ UNCHANGED outcome
      BY <2>1, <2>2, <2>4
    <3>2. frames' \cup batch = frames \cup batch
      BY <3>1
    <3>3. MembersUpTo(plan, wave) = frames' \cup batch \cup steps
      BY <2>2, <3>2 DEF Advance
    <3> QED
      BY <2>2, <2>4, <3>1, <3>2, <3>3 DEF Advance
  <2> QED
    BY <2>1, <2>2, <2>3, <2>4
<1>9. CASE \/ \E m \in Member : FromPool(m) \/ \E t \in Turn :
                Send(t, m) \/ Registered(t, m) \/ Refused(t, m) \/ Answer(t, m)
           \/ ReadContext \/ CancelContext \/ PlanTimesOut \/ UNCHANGED vars
  <2>1. UNCHANGED <<pc, progress, outcome>>
    BY <1>9 DEF FromPool, Send, Registered, Refused, Answer, ReadContext, CancelContext,
                PlanTimesOut, vars
  <2> QED
    BY <2>1 DEF Advance
<1>10. CASE \/ CancelEnds
            \/ \E m \in Member : CancelRead(m) \/ CancelReturns(m) \/ CancelRaises(m)
  <2>1. /\ pc = "cancelling" /\ UNCHANGED progress
        /\ \/ UNCHANGED <<pc, outcome>>
           \/ pooled /\ pc' = "shutdown" /\ outcome' # "complete"
           \/ pc' = "idle" /\ outcome' # "complete"
    BY <1>10 DEF CancelEnds, CancelRead, CancelReturns, CancelRaises
  <2> QED
    BY <2>1 DEF Advance
<1> QED
  BY <1>2, <1>3, <1>4, <1>5, <1>6, <1>7, <1>8, <1>9, <1>10, ServedAssumption DEF Next, Coordinate
-----------------------------------------------------------------------------
(***************************************************************************)
(* What a turn is told, and what its workers have done.                    *)
(***************************************************************************)
Told ==
    /\ pc \notin {"idle", "shutdown"} => outcome = "none" /\ (turn \in cancelled => turn \in asked)
    /\ pc = "cancelling" => turn \in asked
    /\ pc = "shutdown" => outcome \in {"partial", "cancelled", "error"}
    /\ outcome = "cancelled" => turn \in asked
    /\ outcome # "none" => turn \in Turn

\* A cancelled context is a caller's doing as long as the turn goes on: the turn
\* cancels its own only when it ends.
LEMMA ToldStep == TypeOK /\ Numbered /\ Told /\ [Next]_vars => Told'
<1> SUFFICES ASSUME TypeOK, Numbered, Told, [Next]_vars PROVE Told'
  OBVIOUS
<1> USE DEF Told, progress, End, RaisePartial, RaiseCancelled, CancelStatements
<1>0. pc # "idle" => turn \in Turn
  BY DEF Numbered
<1>1. CASE \E p \in Plan : BeginTurn(p)
  <2>1. turn \in Nat /\ turn + 1 \notin cancelled
    BY DEF TypeOK, Numbered
  <2> QED
    BY <1>1, <2>1 DEF BeginTurn
<1>2. CASE NextWave
  BY <1>0, <1>2 DEF NextWave
<1>3. CASE CheckBatch
  BY <1>0, <1>3 DEF CheckBatch, TurnCancelled
<1>4. CASE Submit
  BY <1>0, <1>4 DEF Submit, TypeOK
<1>5. CASE PollCancelled \/ PollEnded
  BY <1>0, <1>5 DEF PollCancelled, PollEnded, TurnCancelled
<1>6. CASE BatchDone \/ Shutdown \/ Combine \/ Glue
  BY <1>0, <1>6 DEF BatchDone, Shutdown, Combine, Glue, TurnCancelled
<1>7. CASE \E m \in Member : Collect(m)
  BY <1>0, <1>7 DEF Collect, TurnCancelled
<1>8. CASE \E m \in Member : FromPool(m) \/ \E t \in Turn :
                Send(t, m) \/ Registered(t, m) \/ Refused(t, m) \/ Answer(t, m)
  BY <1>0, <1>8 DEF FromPool, Send, Registered, Refused, Answer
<1>9. CASE ReadContext \/ CancelContext \/ PlanTimesOut
  BY <1>0, <1>9 DEF ReadContext, CancelContext, PlanTimesOut
<1>10. CASE UNCHANGED vars
  BY <1>0, <1>10 DEF vars
<1>11. CASE \/ CancelEnds
            \/ \E m \in Member : CancelRead(m) \/ CancelReturns(m) \/ CancelRaises(m)
  BY <1>0, <1>11 DEF CancelEnds, CancelRead, CancelReturns, CancelRaises
<1> QED
  BY <1>1, <1>2, <1>3, <1>4, <1>5, <1>6, <1>7, <1>8, <1>9, <1>10, <1>11, ServedAssumption
  DEF Next, Coordinate

\* Apart from the steps that begin a turn, a wave or a batch, a step leaves the plan
\* and the place in it, and collects at most the frame of one worker that is done.
LEMMA StepInPlace ==
    ASSUME TypeOK, pc # "idle" => turn \in Turn, [Next]_vars
    PROVE  \/ \E p \in Plan : BeginTurn(p)
           \/ Submit
           \/ /\ GoOn /\ UNCHANGED <<turn, plan, given>>
              /\ NextWave \/ UNCHANGED <<wave, steps>>
              /\ \/ UNCHANGED frames
                 \/ \E m \in Member : /\ worker[turn][m] = "ok" /\ UNCHANGED worker
                                      /\ frames' = frames \cup {m}
<1>1. Submit \/ GoOn
  BY StepOfWorkers
<1> USE DEF progress
<1>2. CASE \/ NextWave \/ CheckBatch \/ PollCancelled \/ CancelEnds
           \/ \E m \in Member : CancelRead(m) \/ CancelReturns(m) \/ CancelRaises(m)
  BY <1>1, <1>2 DEF NextWave, CheckBatch, PollCancelled, CancelEnds, CancelRead, CancelReturns,
                    CancelRaises
<1>3. CASE PollEnded
  <2>1. PICK m \in batch :
            \/ worker[turn][m] = "ok" /\ UNCHANGED worker /\ frames' = frames \cup {m}
            \/ UNCHANGED frames
    BY <1>3 DEF PollEnded
  <2>2. m \in Member
    BY DEF TypeOK
  <2>3. UNCHANGED <<turn, plan, given, wave, steps>>
    BY <1>3 DEF PollEnded
  <2> QED
    BY <1>1, <2>1, <2>2, <2>3
<1>4. CASE BatchDone \/ Shutdown \/ Combine \/ Glue
  BY <1>1, <1>4 DEF BatchDone, Shutdown, Combine, Glue
<1>5. CASE \E m \in Member : Collect(m)
  <2>1. PICK m \in Member : Collect(m)
    BY <1>5
  <2>2. \/ worker[turn][m] = "ok" /\ UNCHANGED worker /\ frames' = frames \cup {m}
        \/ UNCHANGED frames
    BY <2>1 DEF Collect, Ended
  <2>3. UNCHANGED <<turn, plan, given, wave, steps>>
    BY <2>1 DEF Collect
  <2> QED
    BY <1>1, <2>2, <2>3
<1>6. CASE \/ \E m \in Member : FromPool(m) \/ \E t \in Turn :
                Send(t, m) \/ Registered(t, m) \/ Refused(t, m) \/ Answer(t, m)
           \/ ReadContext \/ CancelContext \/ PlanTimesOut \/ UNCHANGED vars
  <2>1. UNCHANGED progress
    BY <1>6 DEF FromPool, Send, Registered, Refused, Answer, ReadContext, CancelContext,
                PlanTimesOut, vars
  <2> QED
    BY <1>1, <2>1
<1> QED
  BY <1>2, <1>3, <1>4, <1>5, <1>6, ServedAssumption DEF Next, Coordinate

\* The frames are those of workers of this turn that are done; and only the steps
\* begun have workers.
Results ==
    turn \in Turn =>
        /\ \A m \in frames : worker[turn][m] = "ok"
        /\ \A m \in Member : worker[turn][m] # "none" => m \in MembersUpTo(plan, wave) \ steps

LEMMA ResultsStep == TypeOK /\ Numbered /\ Advance /\ Results /\ [Next]_vars => Results'
<1> SUFFICES ASSUME TypeOK, Numbered, Advance, Results, [Next]_vars, turn' \in Turn
             PROVE  /\ \A m \in frames' : worker'[turn'][m] = "ok"
                    /\ \A m \in Member : worker'[turn'][m] # "none" =>
                            m \in MembersUpTo(plan', wave') \ steps'
  BY DEF Results
<1>1. CASE \E p \in Plan : BeginTurn(p)
  <2>1. frames' = {} /\ turn' > turn /\ UNCHANGED worker
    BY <1>1 DEF BeginTurn, TypeOK
  <2>2. \A m \in Member : worker'[turn'][m] = "none"
    BY <2>1 DEF Numbered
  <2> QED
    BY <2>1, <2>2
<1>2. CASE Submit
  <2>1. /\ UNCHANGED <<turn, plan, wave, frames>> /\ steps' = steps \ NextBatch(steps)
        /\ steps # {}
    BY <1>2 DEF Submit, Advance
  <2>2. NextBatch(steps) \subseteq steps
    BY <2>1, BatchTaken DEF Advance, TypeOK
  <2>3. steps \subseteq MembersUpTo(plan, wave) /\ frames \cap steps = {}
    BY <1>2 DEF Submit, Advance
  <2>4. \A m \in Member : m \notin NextBatch(steps) => worker'[turn][m] = worker[turn][m]
    BY <1>2, <2>1, SubmittedWorkers
  <2>5. frames \subseteq Member
    BY DEF TypeOK
  <2> QED
    BY <2>1, <2>2, <2>3, <2>4, <2>5 DEF Results
<1>3. CASE /\ GoOn /\ UNCHANGED <<turn, plan, given>>
           /\ NextWave \/ UNCHANGED <<wave, steps>>
           /\ \/ UNCHANGED frames
              \/ \E m \in Member : /\ worker[turn][m] = "ok" /\ UNCHANGED worker
                                   /\ frames' = frames \cup {m}
  <2>1. turn \in Turn /\ turn' = turn /\ plan' = plan /\ frames \subseteq Member
    BY <1>3 DEF TypeOK
  <2>2. \A m \in frames' : worker'[turn'][m] = "ok"
    <3>1. CASE UNCHANGED frames
      <4>1. \A m \in frames : worker[turn][m] = "ok" /\ worker[turn][m] \notin AtWork
        BY <2>1 DEF Results, AtWork
      <4> QED
        BY <1>3, <2>1, <3>1, <4>1 DEF GoOn
    <3>2. CASE \E m \in Member : /\ worker[turn][m] = "ok" /\ UNCHANGED worker
                                 /\ frames' = frames \cup {m}
      BY <2>1, <3>2 DEF Results
    <3> QED
      BY <1>3, <3>1, <3>2
  <2>3. \A m \in Member : worker'[turn][m] # "none" => worker[turn][m] # "none"
    BY <1>3, <2>1 DEF GoOn, AtWork
  <2>4. MembersUpTo(plan, wave) \ steps \subseteq MembersUpTo(plan, wave') \ steps'
    <3>1. CASE NextWave
      <4>1. CASE pc' = "batch"
        <5>1. /\ pc = "wave" /\ wave # Len(plan.waves) /\ wave' = wave + 1
              /\ steps' = StepsOf(plan.waves[wave + 1])
          BY <3>1, <4>1 DEF NextWave, End, RaisePartial
        <5>2. wave \in 0 .. Len(plan.waves) - 1
          BY <5>1, PlanAssumption DEF TypeOK
        <5>3. /\ MembersUpTo(plan, wave) \subseteq MembersUpTo(plan, wave + 1)
              /\ MembersUpTo(plan, wave) \cap StepsOf(plan.waves[wave + 1]) = {}
          BY <5>2, WaveByWave DEF TypeOK
        <5> QED
          BY <5>1, <5>3
      <4>2. CASE pc' # "batch"
        BY <3>1, <4>2 DEF NextWave, End, RaisePartial
      <4> QED
        BY <4>1, <4>2
    <3>2. CASE UNCHANGED <<wave, steps>>
      BY <3>2
    <3> QED
      BY <1>3, <3>1, <3>2
  <2> QED
    BY <2>1, <2>2, <2>3, <2>4 DEF Results
<1> QED
  BY <1>1, <1>2, <1>3, StepInPlace DEF Numbered
-----------------------------------------------------------------------------
(***************************************************************************)
(* Who is at work, and with which frames.                                  *)
(***************************************************************************)
Busy == {m \in Member : worker[turn][m] \in AtWork}

LeftBehind == turn \in asked /\ outcome \in {"cancelled", "partial"}

AtRest ==
    turn \in Turn =>
        /\ pc \in {"wave", "batch", "submit", "combine", "glue"} => Busy = {}
        /\ pc \in {"poll", "await", "cancelling", "shutdown"} => Busy \subseteq batch
        /\ pc = "idle" => \/ Busy = {}
                          \/ LeftBehind /\ \E m \in Member : Busy \subseteq {m}

\* The turn waits for every worker it has begun, but for that of a step it polls.
LEMMA AtRestStep ==
    TypeOK /\ Numbered /\ Advance /\ Told /\ Results /\ AtRest /\ [Next]_vars => AtRest'
<1> SUFFICES ASSUME TypeOK, Numbered, Advance, Told, Results, AtRest, [Next]_vars, turn' \in Turn
             PROVE  /\ pc' \in {"wave", "batch", "submit", "combine", "glue"} => Busy' = {}
                    /\ pc' \in {"poll", "await", "cancelling", "shutdown"} => Busy' \subseteq batch'
                    /\ pc' = "idle" => \/ Busy' = {}
                                       \/ LeftBehind' /\ \E m \in Member : Busy' \subseteq {m}
  BY DEF AtRest
<1> USE DEF progress, End, RaisePartial, RaiseCancelled, CancelStatements
<1>1. CASE \E p \in Plan : BeginTurn(p)
  <2>1. turn' > turn /\ UNCHANGED worker /\ pc' = "wave"
    BY <1>1 DEF BeginTurn, TypeOK
  <2>2. Busy' = {}
    BY <2>1 DEF Numbered, Busy, AtWork
  <2> QED
    BY <2>1, <2>2
<1>2. CASE Submit
  <2>1. /\ pc = "submit" /\ pc' \in {"await", "poll"} /\ UNCHANGED turn
        /\ batch' = NextBatch(steps)
    BY <1>2 DEF Submit
  <2>2. \A m \in Member : m \notin batch' => worker'[turn][m] = worker[turn][m]
    BY <1>2, <2>1, SubmittedWorkers
  <2>3. Busy = {}
    BY <2>1 DEF AtRest
  <2>4. Busy' \subseteq batch'
    BY <2>1, <2>2, <2>3 DEF Busy
  <2> QED
    BY <2>1, <2>4
<1>3. CASE GoOn /\ UNCHANGED turn
  <2>1. turn \in Turn /\ Busy' \subseteq Busy
    BY <1>3 DEF GoOn, Busy
  <2>2. ASSUME NEW m \in Member, Ended(m) PROVE m \notin Busy
    BY <2>2 DEF Ended, Busy, AtWork
  <2>3. CASE NextWave \/ CheckBatch \/ Combine \/ Glue
    <3>1. pc \in {"wave", "batch", "combine", "glue"}
      BY <2>3 DEF NextWave, CheckBatch, Combine, Glue
    <3>2. Busy' = {}
      BY <2>1, <3>1 DEF AtRest
    <3> QED
      BY <3>2
  <2>4. CASE PollCancelled
    <3>1. pc = "poll" /\ pc' = "cancelling" /\ UNCHANGED batch
      BY <2>4 DEF PollCancelled
    <3> QED
      BY <2>1, <3>1 DEF AtRest
  <2>5. CASE PollEnded
    <3>1. pc = "poll" /\ pc' \in {"wave", "idle"}
      BY <2>5 DEF PollEnded
    <3>2. PICK m \in batch : Ended(m)
      BY <2>5 DEF PollEnded
    <3>3. batch = {m} /\ m \in Member
      BY <3>1, <3>2 DEF Advance
    <3>4. Busy' = {}
      BY <2>1, <2>2, <3>1, <3>2, <3>3 DEF AtRest
    <3> QED
      BY <3>1, <3>4
  <2>6. CASE BatchDone
    <3>1. pc = "await" /\ pc' = "batch" /\ batch \subseteq frames
      BY <2>6 DEF BatchDone
    <3>2. \A m \in frames : m \notin Busy
      BY <2>1 DEF Results, Busy, AtWork
    <3>3. Busy \subseteq batch
      BY <2>1, <3>1 DEF AtRest
    <3>4. Busy' = {}
      BY <2>1, <3>1, <3>2, <3>3
    <3> QED
      BY <3>1, <3>4
  <2>7. CASE Shutdown
    <3>1. pc = "shutdown" /\ pc' = "idle" /\ Busy = {}
      BY <2>7 DEF Shutdown, Busy
    <3> QED
      BY <2>1, <3>1
  <2>8. CASE \E m \in Member : Collect(m)
    <3>1. PICK m \in Member : Collect(m)
      BY <2>8
    <3>2. pc = "await" /\ pc' \in {"await", "cancelling", "shutdown"} /\ UNCHANGED batch
      BY <3>1 DEF Collect
    <3> QED
      BY <2>1, <3>2 DEF AtRest
  <2>9. CASE \/ \E m \in Member : FromPool(m) \/ \E t \in Turn :
                    Send(t, m) \/ Registered(t, m) \/ Refused(t, m) \/ Answer(t, m)
             \/ ReadContext \/ CancelContext \/ PlanTimesOut \/ UNCHANGED vars
             \/ \E m \in Member : CancelRead(m) \/ CancelReturns(m)
    <3>1. UNCHANGED <<pc, batch, outcome>> /\ asked \subseteq asked'
      BY <2>9 DEF FromPool, Send, Registered, Refused, Answer, ReadContext, CancelContext,
                  PlanTimesOut, CancelRead, CancelReturns, vars
    <3>2. pc \in {"wave", "batch", "submit", "combine", "glue"} => Busy' = {}
      BY <2>1 DEF AtRest
    <3>3. pc \in {"poll", "await", "cancelling", "shutdown"} => Busy' \subseteq batch
      BY <2>1 DEF AtRest
    <3>4. pc = "idle" => \/ Busy' = {}
                         \/ LeftBehind /\ \E m \in Member : Busy' \subseteq {m}
      BY <2>1 DEF AtRest
    <3>5. LeftBehind => LeftBehind'
      BY <1>3, <3>1 DEF LeftBehind
    <3> QED
      BY <3>1, <3>2, <3>3, <3>4, <3>5
  <2>10. CASE CancelEnds \/ \E m \in Member : CancelRaises(m)
    <3>1. pc = "cancelling" /\ UNCHANGED <<batch, asked, worker>>
      BY <2>10 DEF CancelEnds, CancelRaises
    <3>2. Busy \subseteq batch /\ turn \in asked /\ Busy' = Busy
      BY <1>3, <2>1, <3>1 DEF AtRest, Told, Busy
    <3>3. CASE pc' = "shutdown"
      BY <3>1, <3>2, <3>3
    <3>4. CASE pc' = "idle"
      <4>1. ~ pooled /\ (outcome' \in {"cancelled", "partial"} \/ batch = {})
        BY <2>10, <3>4 DEF CancelEnds, CancelRaises
      <4>2. \E m \in Member : Busy \subseteq {m}
        BY <3>1, <3>2, <4>1 DEF Advance
      <4>3. turn' \in asked'
        BY <1>3, <3>1, <3>2
      <4>4. CASE batch = {}
        BY <3>2, <3>4, <4>4
      <4>5. CASE outcome' \in {"cancelled", "partial"}
        BY <3>2, <3>4, <4>2, <4>3, <4>5 DEF LeftBehind
      <4> QED
        BY <4>1, <4>4, <4>5
    <3>5. pc' \in {"shutdown", "idle"}
      BY <2>10 DEF CancelEnds, CancelRaises
    <3> QED
      BY <3>3, <3>4, <3>5
  <2> QED
    BY <1>1, <1>2, <2>3, <2>4, <2>5, <2>6, <2>7, <2>8, <2>9, <2>10, ServedAssumption
    DEF Next, Coordinate
<1> QED
  BY <1>1, <1>2, <1>3, StepInPlace DEF Numbered

\* Whether a wave is orderly depends on the plan alone.
LEMMA OrderlyBefore ==
    ASSUME NEW i, UNCHANGED plan, Orderly(i)'
    PROVE  Orderly(i)
<1>1. SUFFICES ASSUME NEW left \in SUBSET StepsOf(plan.waves[i]), left # {}
               PROVE  Free(left) # {}
  BY DEF Orderly
<1>2. left \in SUBSET StepsOf(plan'.waves[i])
  <2>1. plan' = plan
    OBVIOUS
  <2> QED
    BY <1>1, <2>1
<1>3. {m \in left : plan'.driver[m] \cap left = {}} # {}
  BY <1>1, <1>2, Zenon DEF Orderly, Free
<1>4. {m \in left : plan'.driver[m] \cap left = {}} = Free(left)
  <2>1. plan' = plan
    OBVIOUS
  <2> QED
    BY <2>1 DEF Free
<1> QED
  BY <1>3, <1>4

LEMMA StepAt ==
    ASSUME NEW w, NEW m \in StepsOf(w)
    PROVE  \E k \in 1 .. Len(w) : w[k] = m
BY DEF StepsOf

\* A step that a batch takes has been given the frames of its drivers, or they
\* belong to waves that are to come.
LEMMA DriversStep ==
    TypeOK /\ Numbered /\ Advance /\ Results /\ DriversFirst /\ [Next]_vars => DriversFirst'
<1> SUFFICES ASSUME TypeOK, Numbered, Advance, Results, DriversFirst, [Next]_vars, turn' \in Turn,
                    NEW i \in 1 .. Len(plan'.waves), Orderly(i)',
                    NEW m \in StepsOf(plan'.waves[i]), worker'[turn'][m] # "none"
             PROVE  plan'.driver[m] \cap MembersUpTo(plan', i) \subseteq given'[m]
  BY DEF DriversFirst
<1>1. plan' \in Plan
  BY TypeStep DEF TypeOK
<1>2. m \in Member
  <2>1. plan'.waves[i] \in Seq(Member)
    BY <1>1, PlanAssumption
  <2> QED
    BY <2>1 DEF StepsOf
<1>3. CASE \E p \in Plan : BeginTurn(p)
  <2>1. turn' > turn /\ UNCHANGED worker
    BY <1>3 DEF BeginTurn, TypeOK
  <2> QED
    BY <1>2, <2>1 DEF Numbered
<1>4. CASE Submit
  <2>1. /\ UNCHANGED <<turn, plan, wave>> /\ pc = "submit"
        /\ given' = [n \in Member |-> IF n \in NextBatch(steps) THEN frames ELSE given[n]]
    BY <1>4 DEF Submit, progress
  <2>2. Orderly(i)
    BY <2>1, OrderlyBefore
  <2>3. CASE m \in NextBatch(steps)
    <3>1. /\ wave \in 1 .. Len(plan.waves) /\ steps \subseteq StepsOf(plan.waves[wave])
          /\ steps # {}
      BY <2>1 DEF Advance
    <3>2. m \in steps
      BY <2>3, <3>1, BatchTaken DEF TypeOK
    <3>3. i = wave
      <4>1. plan' = plan /\ plan \in Plan
        BY <1>1, <2>1
      <4>2. i \in 1 .. Len(plan.waves) /\ m \in StepsOf(plan.waves[i])
        BY <4>1
      <4>3. m \in StepsOf(plan.waves[wave])
        BY <3>1, <3>2
      <4>4. PICK k \in 1 .. Len(plan.waves[i]) : plan.waves[i][k] = m
        BY <4>2, StepAt
      <4>5. PICK l \in 1 .. Len(plan.waves[wave]) : plan.waves[wave][l] = m
        BY <4>3, StepAt
      <4>6. \A a, b \in 1 .. Len(plan.waves) :
                \A c \in 1 .. Len(plan.waves[a]), d \in 1 .. Len(plan.waves[b]) :
                    plan.waves[a][c] = plan.waves[b][d] => a = b /\ c = d
        BY <4>1, PlanAssumption, Zenon
      <4>7. plan.waves[i][k] = plan.waves[wave][l]
        BY <4>4, <4>5
      <4> QED
        BY <3>1, <4>2, <4>6, <4>7, Zenon
    <3>4. m \in Free(steps)
      BY <2>2, <2>3, <3>1, <3>3, BatchTaken DEF TypeOK
    <3>5. MembersUpTo(plan, wave) = frames \cup steps
      BY <2>1 DEF Advance
    <3> QED
      BY <1>2, <2>1, <2>3, <3>3, <3>4, <3>5 DEF Free
  <2>4. CASE m \notin NextBatch(steps)
    <3>1. worker[turn][m] # "none"
      BY <1>2, <1>4, <2>1, <2>4, SubmittedWorkers
    <3> QED
      BY <1>2, <2>1, <2>2, <2>4, <3>1 DEF DriversFirst
  <2> QED
    BY <2>3, <2>4
<1>5. CASE GoOn /\ UNCHANGED <<turn, plan, given>>
  <2>1. worker[turn][m] # "none"
    BY <1>2, <1>5 DEF GoOn, AtWork
  <2>2. Orderly(i)
    BY <1>5, OrderlyBefore
  <2> QED
    BY <1>5, <2>1, <2>2 DEF DriversFirst
<1> QED
  BY <1>3, <1>4, <1>5, StepInPlace DEF Numbered
-----------------------------------------------------------------------------
TurnInv == TypeOK /\ Numbered /\ Advance /\ Told /\ Results /\ AtRest /\ DriversFirst

LEMMA TurnInvariant == Spec => []TurnInv
<1>1. Init => TurnInv
  <2> SUFFICES ASSUME Init PROVE TurnInv
    OBVIOUS
  <2>1. plan.waves \in Seq(Seq(Member) \ {<< >>}) /\ 0 \notin Turn
    BY PlanAssumption DEF Init, Turn
  <2>2. TypeOK
    <3>1. 0 \in 0 .. Len(plan.waves)
      BY <2>1
    <3>2. 0 \in 0 .. MaxTurns /\ 0 \in 0 .. 2 /\ 0 \in Nat
      BY BoundAssumption
    <3>3. due \in [Member -> 0 .. 2]
      BY <3>2 DEF Init
    <3> QED
      BY <3>1, <3>2, <3>3 DEF Init, TypeOK, AtWork
  <2>3. Numbered /\ Told
    BY DEF Init, Numbered, Told
  <2>4. Advance
    BY DEF Init, Advance
  <2>5. Results /\ AtRest /\ DriversFirst
    BY <2>1 DEF Init, Results, AtRest, DriversFirst
  <2> QED
    BY <2>2, <2>3, <2>4, <2>5 DEF TurnInv
<1>2. TurnInv /\ [Next]_vars => TurnInv'
  BY TypeStep, NumberedStep, AdvanceStep, ToldStep, ResultsStep, AtRestStep, DriversStep DEF TurnInv
<1> QED
  BY <1>1, <1>2, PTL DEF Spec

\* The variables of the executor keep their types; and the session shows a context
\* exactly while a turn runs, that of this turn.
THEOREM Typing == Spec => []TypeOK
  BY TurnInvariant, PTL DEF TurnInv

\* Two steps of one turn never run on one connection at a time, whatever the members,
\* their connections and the plan.
THEOREM OneStatement == Spec => []OneStatementPerConnection
<1>1. TurnInv => OneStatementPerConnection
  <2> SUFFICES ASSUME TurnInv, turn \in Turn,
                      NEW m \in Workers(turn), NEW n \in Workers(turn), m # n
               PROVE  Slug[m] # Slug[n]
    BY DEF OneStatementPerConnection
  <2>1. m \in Busy /\ n \in Busy
    BY DEF Workers, Busy, AtWork
  <2>2. \A k \in Member : ~ (Busy \subseteq {k})
    BY <2>1
  <2>3. pc \in {"poll", "await", "cancelling", "shutdown"}
    BY <2>1, <2>2 DEF TurnInv, TypeOK, AtRest
  <2>4. m \in batch /\ n \in batch
    BY <2>1, <2>3 DEF TurnInv, AtRest
  <2> QED
    BY <2>4 DEF TurnInv, Advance
<1> QED
  BY <1>1, TurnInvariant, PTL

\* A step is not submitted before the frames of all drivers of its wave and the waves
\* before it have come, unless the drivers of a wave go round in a circle.
THEOREM DriversBeforeDriven == Spec => []DriversFirst
  BY TurnInvariant, PTL DEF TurnInv

\* A turn is told of rows only when each member's frame of that very turn is in
\* them, and of a cancellation only when a caller has cancelled it.
THEOREM TurnIsToldTruly == Spec => []ToldTruly
<1>1. TurnInv => ToldTruly
  <2> SUFFICES ASSUME TurnInv PROVE ToldTruly
    OBVIOUS
  <2>1. ASSUME outcome = "complete"
        PROVE  frames = Members(plan) /\ \A m \in frames : worker[turn][m] = "ok"
    <3>1. pc = "idle" /\ frames = Members(plan)
      BY <2>1 DEF TurnInv, Advance
    <3>2. turn \in Turn
      BY <2>1 DEF TurnInv, Told
    <3> QED
      BY <3>1, <3>2 DEF TurnInv, Results
  <2> QED
    BY <2>1 DEF TurnInv, Told, ToldTruly
<1> QED
  BY <1>1, TurnInvariant, PTL

\* Between batches and after the turn no worker of it is at work, save the one that a
\* caller's cancellation of a polled step leaves behind.
THEOREM WorkersAreWaitedFor == Spec => []NoneLeftBehind
<1>1. TurnInv => NoneLeftBehind
  <2> SUFFICES ASSUME TurnInv, turn \in Turn, Busy # {},
                      pc \notin {"submit", "poll", "await", "cancelling", "shutdown"}
               PROVE  pc = "idle" /\ LeftBehind /\ Cardinality(Busy) = 1
    BY DEF NoneLeftBehind, Busy, LeftBehind
  <2>1. pc = "idle" /\ LeftBehind /\ \E m \in Member : Busy \subseteq {m}
    BY DEF TurnInv, TypeOK, AtRest
  <2>2. PICK m \in Member : Busy = {m}
    BY <2>1
  <2> QED
    BY <2>1, <2>2, FS_Singleton
<1> QED
  BY <1>1, TurnInvariant, PTL
=============================================================================
