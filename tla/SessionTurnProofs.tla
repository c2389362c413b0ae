------------------------- MODULE SessionTurnProofs -------------------------
(***************************************************************************)
(* Theorems of SessionTurn, for any number of threads, uses, turns and     *)
(* prompts.                                                                *)
(***************************************************************************)
EXTENDS SessionTurn, SequenceTheorems, TLAPS

ThreadStep(t) == AskActions(t) \/ TurnActions(t) \/ StepActions(t) \/ StopActions(t)
-----------------------------------------------------------------------------
(* Type correctness *)

\* A turn suspends on a well-formed prompt.
LEMMA NewPrompt ==
    ASSUME TypeOK, NEW t \in Thread, NEW s \in Stage, prompts < MaxPrompts
    PROVE  /\ [id |-> prompts + 1, turn |-> turn[t], stage |-> s] \in Prompt
           /\ prompts + 1 \in 0 .. MaxPrompts
  BY BoundAssumption DEF TypeOK, Prompt, Turn

\* What a prompt carries.
LEMMA PromptParts == \A p \in Prompt : p.turn \in Turn /\ p.stage \in Stage
  BY DEF Prompt

\* What is left of the queued answers when the first is taken.
LEMMA TailOfAnswers == TypeOK /\ queue # << >> => Tail(queue) \in Seq(Prompt)
  BY HeadTailProperties DEF TypeOK

\* A restored session waits on a well-formed prompt.
LEMMA RestoredPrompt == Restored => suspended \in Prompt
  BY BoundAssumption DEF Restored, Prompt, Turn

\* The next turn is a turn.
LEMMA NextTurn == TypeOK /\ turns < MaxTurns => turns + 1 \in Turn
  BY BoundAssumption DEF TypeOK, Turn

\* The turns that poll an event are turns.
LEMMA PollingTurns == TypeOK => Polling \subseteq Turn
  BY DEF TypeOK, Polling

\* A reset leaves the session well formed.
LEMMA ClearedTypes ==
    ASSUME TypeOK, Cleared
    PROVE  /\ suspended' \in Prompt \cup {None} /\ resuming' \in Stage \cup {None}
           /\ queue' \in Seq(Prompt)
           /\ signalled' \subseteq Turn /\ pending' \in Turn \cup {None}
<1>1. << >> \in Seq(Prompt)
  BY EmptySeq
<1> QED
  BY <1>1 DEF TypeOK, Cleared

\* A step of any thread keeps the session and its callers well formed.
LEMMA TypeStep ==
    ASSUME TypeOK, NEW t \in Thread, ThreadStep(t)
    PROVE  TypeOK'
  <1> USE DEF TypeOK, InTurn, Methods, At, Calls, Got, Release,
          session, threads, counts, ghosts
  <1>1. CASE Ask(t)
    BY <1>1, NextTurn DEF Ask
  <1>2. CASE BeginTurn(t)
    BY <1>2, ClearedTypes DEF BeginTurn
  <1>3. CASE Prepare(t)
    BY <1>3 DEF Prepare
  <1>4. CASE PrepareFails(t)
    BY <1>4 DEF PrepareFails
  <1>5. CASE PassCheckpoint(t)
    BY <1>5 DEF PassCheckpoint
  <1>6. CASE StopAtCheckpoint(t)
    BY <1>6, ClearedTypes DEF StopAtCheckpoint
  <1>7. CASE ReachCheckpoint(t)
    BY <1>7 DEF ReachCheckpoint
  <1>8. CASE Suspend(t)
    BY <1>8, NewPrompt DEF Suspend
  <1>9. CASE TurnFails(t)
    BY <1>9, ClearedTypes DEF TurnFails
  <1>10. CASE Close(t)
    BY <1>10, ClearedTypes DEF Close
  <1>11. CASE Complete(t)
    BY <1>11, ClearedTypes DEF Complete
  <1>12. CASE CompleteMeta(t)
    BY <1>12, ClearedTypes DEF CompleteMeta
  <1>13. CASE CompleteFails(t)
    BY <1>13 DEF CompleteFails
  <1>14. CASE Expire(t)
    BY <1>14, ClearedTypes DEF Expire
  <1>15. CASE TakeStepPutAside(t)
    BY <1>15, PromptParts DEF TakeStepPutAside
  <1>16. CASE Answer(t)
    BY <1>16 DEF Answer
  <1>17. CASE Resume(t)
    BY <1>17, PromptParts DEF Resume
  <1>18. CASE ResumeNothing(t)
    BY <1>18 DEF ResumeNothing
  <1>19. CASE Consume(t)
    BY <1>19, TailOfAnswers DEF Consume, Fits
  <1>20. CASE ConsumeMismatch(t)
    BY <1>20, ClearedTypes DEF ConsumeMismatch
  <1>21. CASE CancelPrompt(t)
    BY <1>21, PollingTurns, PromptParts DEF CancelPrompt
  <1>22. CASE ResetCancelled(t)
    BY <1>22, ClearedTypes DEF ResetCancelled
  <1>23. CASE PutStepAside(t)
    BY <1>23 DEF PutStepAside
  <1>24. CASE CancelRunning(t)
    BY <1>24, PollingTurns DEF CancelRunning
  <1>25. CASE Leave(t)
    BY <1>25, ClearedTypes DEF Leave
  <1>26. CASE Reset(t)
    BY <1>26, ClearedTypes DEF Reset
  <1> QED
    BY <1>1, <1>2, <1>3, <1>4, <1>5, <1>6, <1>7, <1>8, <1>9,
       <1>10, <1>11, <1>12, <1>13, <1>14, <1>15, <1>16, <1>17, <1>18,
       <1>19, <1>20, <1>21, <1>22, <1>23, <1>24, <1>25, <1>26
    DEF ThreadStep, AskActions, TurnActions, StepActions, StopActions

\* The session and its callers are well formed in every state, whatever the
\* threads call on the shared session (PipelineSession).
THEOREM Typing == Spec => []TypeOK
<1>1. Init => TypeOK
  <2> SUFFICES ASSUME Init PROVE TypeOK
    OBVIOUS
  <2>0. << >> \in Seq(Prompt)
    BY EmptySeq
  <2>a. /\ 0 \in Turn /\ turns \in Turn /\ prompts \in 0 .. MaxPrompts
    <3>1. \/ turns = 0 /\ prompts = 0
          \/ turns = 1 /\ prompts = 1 /\ MaxTurns > 0 /\ MaxPrompts > 0
      BY DEF Init, Fresh, Restored
    <3> QED
      BY <3>1, BoundAssumption DEF Turn
  <2>b. busy \in BOOLEAN
    BY DEF Init, Fresh, Restored
  <2>1. CASE Fresh
    BY <2>0, <2>a, <2>b, <2>1 DEF Init, Fresh, TypeOK, InTurn
  <2>2. CASE Restored
    BY <2>0, <2>a, <2>b, <2>2, RestoredPrompt DEF Init, TypeOK, InTurn
  <2> QED
    BY <2>1, <2>2 DEF Init
<1>2. TypeOK /\ [Next]_vars => TypeOK'
  <2> SUFFICES ASSUME TypeOK, [Next]_vars PROVE TypeOK'
    OBVIOUS
  <2>1. CASE UNCHANGED vars
    BY <2>1 DEF TypeOK, vars, session, threads, counts, ghosts
  <2>2. CASE Next
    BY <2>2, TypeStep DEF Next, ThreadStep
  <2> QED
    BY <2>1, <2>2
<1> QED
  BY <1>1, <1>2, PTL DEF Spec
-----------------------------------------------------------------------------
(* The busy flag *)

\* A step of any thread leaves the use of the session as it is.
LEMMA UseStep == ASSUME NEW t \in Thread, ThreadStep(t) PROVE use' = use
  BY DEF ThreadStep, AskActions, TurnActions, StepActions, StopActions,
         Ask, BeginTurn, Prepare, PrepareFails, PassCheckpoint, StopAtCheckpoint,
         ReachCheckpoint, Suspend, TurnFails, Close, Complete, CompleteMeta,
         CompleteFails, Expire, TakeStepPutAside, Answer, Resume, ResumeNothing,
         Consume, ConsumeMismatch, CancelPrompt, ResetCancelled,
         PutStepAside, CancelRunning, Leave, Reset

\* A session is busy only on behalf of a prompt or of a call that will free it
\* or leave a prompt.
Owed ==
    use.faults \subseteq {"turn"} /\ busy =>
        suspended # None \/ \E t \in Thread : pc[t] \in InTurn \cup {"answered"}

LEMMA OwedStep ==
    ASSUME TypeOK, Owed, NEW t \in Thread, ThreadStep(t)
    PROVE  Owed'
  <1> USE DEF TypeOK, Owed, At, Calls, Got, Cleared, Release, InTurn,
              session, threads, counts, ghosts
  <1>1. CASE Ask(t)
    BY <1>1 DEF Ask
  <1>2. CASE BeginTurn(t)
    BY <1>2 DEF BeginTurn
  <1>3. CASE Prepare(t)
    BY <1>3 DEF Prepare
  <1>4. CASE PrepareFails(t)
    BY <1>4 DEF PrepareFails
  <1>5. CASE PassCheckpoint(t)
    BY <1>5 DEF PassCheckpoint
  <1>6. CASE StopAtCheckpoint(t)
    BY <1>6 DEF StopAtCheckpoint
  <1>7. CASE ReachCheckpoint(t)
    BY <1>7 DEF ReachCheckpoint
  <1>8. CASE Suspend(t)
    BY <1>8, NewPrompt, NoneAssumption DEF Suspend
  <1>9. CASE TurnFails(t)
    BY <1>9 DEF TurnFails
  <1>10. CASE Close(t)
    BY <1>10 DEF Close
  <1>11. CASE Complete(t)
    BY <1>11 DEF Complete
  <1>12. CASE CompleteMeta(t)
    BY <1>12 DEF CompleteMeta
  <1>13. CASE CompleteFails(t)
    BY <1>13 DEF CompleteFails
  <1>14. CASE Expire(t)
    BY <1>14 DEF Expire
  <1>15. CASE TakeStepPutAside(t)
    BY <1>15 DEF TakeStepPutAside
  <1>16. CASE Answer(t)
    BY <1>16 DEF Answer
  <1>17. CASE Resume(t)
    BY <1>17 DEF Resume
  <1>18. CASE ResumeNothing(t)
    BY <1>18 DEF ResumeNothing
  <1>19. CASE Consume(t)
    BY <1>19 DEF Consume, Fits
  <1>20. CASE ConsumeMismatch(t)
    BY <1>20 DEF ConsumeMismatch
  <1>21. CASE CancelPrompt(t)
    BY <1>21 DEF CancelPrompt
  <1>22. CASE ResetCancelled(t)
    BY <1>22 DEF ResetCancelled
  <1>23. CASE PutStepAside(t)
    BY <1>23 DEF PutStepAside
  <1>24. CASE CancelRunning(t)
    BY <1>24 DEF CancelRunning
  <1>25. CASE Leave(t)
    BY <1>25 DEF Leave
  <1>26. CASE Reset(t)
    BY <1>26 DEF Reset
  <1> QED
    BY <1>1, <1>2, <1>3, <1>4, <1>5, <1>6, <1>7, <1>8, <1>9,
       <1>10, <1>11, <1>12, <1>13, <1>14, <1>15, <1>16, <1>17, <1>18,
       <1>19, <1>20, <1>21, <1>22, <1>23, <1>24, <1>25, <1>26
    DEF ThreadStep, AskActions, TurnActions, StepActions, StopActions

\* Whatever the threads call, a session at rest that waits on no prompt is not
\* busy: ask, the pipeline and step free it on every path (PipelineSession).
THEOREM NeverStuck == Spec => []Reusable
<1>1. Init => Owed
  <2>1. Fresh => ~busy
    BY DEF Fresh
  <2>2. Restored => suspended # None
    BY RestoredPrompt, NoneAssumption
  <2> QED
    BY <2>1, <2>2 DEF Init, Owed
<1>2. TypeOK /\ Owed /\ [Next]_vars => Owed'
  <2> SUFFICES ASSUME TypeOK, Owed, [Next]_vars PROVE Owed'
    OBVIOUS
  <2>1. CASE UNCHANGED vars
    BY <2>1 DEF Owed, vars, session, threads, counts, ghosts
  <2>2. CASE Next
    BY <2>2, OwedStep DEF Next, ThreadStep
  <2> QED
    BY <2>1, <2>2
<1>3. Owed => Reusable
  BY DEF Owed, Reusable, InTurn
<1> QED
  BY <1>1, <1>2, <1>3, Typing, PTL DEF Spec
-----------------------------------------------------------------------------
(* The expected stage *)

\* An expected stage belongs to a thread that resumes; the calls of ask and of
\* step are told apart by where they are.
StageHeld ==
    /\ StageOnlyWhileResuming
    /\ \A t \in Thread :
        /\ pc[t] \in {"asked", "preparing"} => call[t] = "ask"
        /\ pc[t] \in {"answered", "consume"} => call[t] = "step"

LEMMA StageStep ==
    ASSUME TypeOK, StageHeld, NEW t \in Thread, ThreadStep(t)
    PROVE  StageHeld'
  <1> USE DEF TypeOK, StageHeld, StageOnlyWhileResuming, Running, At, Calls, Got,
              Cleared, Release, InTurn, session, threads, counts, ghosts
  <1>1. CASE Ask(t)
    BY <1>1 DEF Ask
  <1>2. CASE BeginTurn(t)
    BY <1>2 DEF BeginTurn
  <1>3. CASE Prepare(t)
    BY <1>3 DEF Prepare
  <1>4. CASE PrepareFails(t)
    BY <1>4 DEF PrepareFails
  <1>5. CASE PassCheckpoint(t)
    BY <1>5 DEF PassCheckpoint
  <1>6. CASE StopAtCheckpoint(t)
    BY <1>6 DEF StopAtCheckpoint
  <1>7. CASE ReachCheckpoint(t)
    BY <1>7 DEF ReachCheckpoint
  <1>8. CASE Suspend(t)
    BY <1>8 DEF Suspend
  <1>9. CASE TurnFails(t)
    BY <1>9 DEF TurnFails
  <1>10. CASE Close(t)
    BY <1>10 DEF Close
  <1>11. CASE Complete(t)
    BY <1>11 DEF Complete
  <1>12. CASE CompleteMeta(t)
    BY <1>12 DEF CompleteMeta
  <1>13. CASE CompleteFails(t)
    BY <1>13 DEF CompleteFails
  <1>14. CASE Expire(t)
    BY <1>14 DEF Expire
  <1>15. CASE TakeStepPutAside(t)
    BY <1>15 DEF TakeStepPutAside
  <1>16. CASE Answer(t)
    BY <1>16 DEF Answer
  <1>17. CASE Resume(t)
    BY <1>17 DEF Resume
  <1>18. CASE ResumeNothing(t)
    BY <1>18 DEF ResumeNothing
  <1>19. CASE Consume(t)
    BY <1>19 DEF Consume, Fits
  <1>20. CASE ConsumeMismatch(t)
    BY <1>20 DEF ConsumeMismatch
  <1>21. CASE CancelPrompt(t)
    BY <1>21 DEF CancelPrompt
  <1>22. CASE ResetCancelled(t)
    BY <1>22 DEF ResetCancelled
  <1>23. CASE PutStepAside(t)
    BY <1>23 DEF PutStepAside
  <1>24. CASE CancelRunning(t)
    BY <1>24 DEF CancelRunning
  <1>25. CASE Leave(t)
    BY <1>25 DEF Leave
  <1>26. CASE Reset(t)
    BY <1>26 DEF Reset
  <1> QED
    BY <1>1, <1>2, <1>3, <1>4, <1>5, <1>6, <1>7, <1>8, <1>9,
       <1>10, <1>11, <1>12, <1>13, <1>14, <1>15, <1>16, <1>17, <1>18,
       <1>19, <1>20, <1>21, <1>22, <1>23, <1>24, <1>25, <1>26
    DEF ThreadStep, AskActions, TurnActions, StepActions, StopActions

\* In every use of the session, an expected stage is set only while a resumed
\* turn runs (PipelineSession._resume_from_suspend).
THEOREM StageDropped == Spec => []StageOnlyWhileResuming
<1>1. Init => StageHeld
  BY DEF Init, StageHeld, StageOnlyWhileResuming
<1>2. TypeOK /\ StageHeld /\ [Next]_vars => StageHeld'
  <2> SUFFICES ASSUME TypeOK, StageHeld, [Next]_vars PROVE StageHeld'
    OBVIOUS
  <2>1. CASE UNCHANGED vars
    BY <2>1 DEF StageHeld, StageOnlyWhileResuming, Running, vars, session, threads,
                counts, ghosts
  <2>2. CASE Next
    BY <2>2, StageStep DEF Next, ThreadStep
  <2> QED
    BY <2>1, <2>2
<1>3. StageHeld => StageOnlyWhileResuming
  BY DEF StageHeld
<1> QED
  BY <1>1, <1>2, <1>3, Typing, PTL DEF Spec
-----------------------------------------------------------------------------
(* One turn at a time *)

\* What Asking says of each thread.
LEMMA AskersOnly ==
    Asking => /\ \A t \in Thread : \A m \in {"cancel", "reset", "exit"} : m \notin use.may[t]
              /\ \A t, u \in Thread :
                    "step" \in use.may[t] /\ "step" \in use.may[u] => t = u
              /\ use.faults = {}
  BY DEF Asking, Calling, AtMostOne, Methods

(***************************************************************************)
(* The strengthening: nothing is signalled or put aside; one turn runs or  *)
(* one prompt is open, and the session is busy with it; only the stepping  *)
(* thread answers and resumes; the queue holds the one answer it has given *)
(* and not yet consumed.                                                   *)
(***************************************************************************)
Quiet ==
    /\ signalled = {} /\ pending = None
    /\ \A t \in Thread : pc[t] \in InTurn \cup {"idle", "answered"}

Exclusive ==
    /\ \A t, u \in Thread : pc[t] \in InTurn /\ pc[u] \in InTurn => t = u
    /\ \A t \in Thread : pc[t] \in InTurn => suspended = None /\ busy
    /\ suspended # None => busy

Answering ==
    /\ \A t \in Thread : pc[t] \in {"answered", "consume"} => "step" \in use.may[t]
    /\ \A t \in Thread : pc[t] = "answered" => suspended # None /\ queue = <<suspended>>
    /\ \A t \in Thread : pc[t] = "consume" =>
            queue = <<prompt[t]>> /\ resuming = prompt[t].stage
    /\ queue # << >> => \E t \in Thread : pc[t] \in {"answered", "consume"}

Served == Asking => Quiet /\ Exclusive /\ Answering

\* While threads ask and one steps, a resumed turn finds its own answer.
LEMMA ServedFits ==
    ASSUME Served, Asking, NEW t \in Thread, pc[t] = "consume"
    PROVE  Fits /\ Tail(queue) = << >> /\ Head(queue) = prompt[t]
<1>1. queue = <<prompt[t]>> /\ resuming = prompt[t].stage
  BY DEF Served, Answering
<1>2. Head(queue) = prompt[t]
  BY <1>1
<1>3. queue # << >> /\ Tail(queue) = << >>
  BY <1>1
<1> QED
  BY <1>1, <1>2, <1>3 DEF Fits

\* The only queued answer.
LEMMA FirstAnswer == \A p : Append(<< >>, p) = <<p>>
  OBVIOUS

LEMMA ServedStep ==
    ASSUME TypeOK, Served, NEW t \in Thread, ThreadStep(t)
    PROVE  Served'
<1>1. use' = use
  BY UseStep
<1>2. SUFFICES ASSUME Asking PROVE (Quiet /\ Exclusive /\ Answering)'
  BY <1>1 DEF Served, Asking, Calling
<1>3. /\ \A u \in Thread : \A m \in {"cancel", "reset", "exit"} : m \notin use.may[u]
      /\ \A u, v \in Thread : "step" \in use.may[u] /\ "step" \in use.may[v] => u = v
      /\ use.faults = {}
  BY <1>2, AskersOnly
<1>4. Quiet /\ Exclusive /\ Answering
  BY <1>2 DEF Served
<1> USE DEF TypeOK, Quiet, Exclusive, Answering, At, Calls, Got, Cleared, Release,
            InTurn, session, threads, counts, ghosts
<1>11. CASE Ask(t)
  BY <1>11, <1>1, <1>3, <1>4 DEF Ask
<1>12. CASE BeginTurn(t)
  BY <1>12, <1>1, <1>3, <1>4 DEF BeginTurn
<1>13. CASE Prepare(t)
  BY <1>13, <1>1, <1>3, <1>4 DEF Prepare
<1>14. CASE PrepareFails(t)
  BY <1>14, <1>1, <1>3, <1>4 DEF PrepareFails
<1>15. CASE PassCheckpoint(t)
  BY <1>15, <1>1, <1>3, <1>4 DEF PassCheckpoint
<1>16. CASE StopAtCheckpoint(t)
  BY <1>16, <1>1, <1>3, <1>4 DEF StopAtCheckpoint
<1>17. CASE ReachCheckpoint(t)
  BY <1>17, <1>1, <1>3, <1>4 DEF ReachCheckpoint
<1>18. CASE Suspend(t)
  BY <1>18, <1>1, <1>3, <1>4, NewPrompt, NoneAssumption DEF Suspend
<1>19. CASE TurnFails(t)
  BY <1>19, <1>1, <1>3, <1>4 DEF TurnFails
<1>20. CASE Close(t)
  BY <1>20, <1>1, <1>3, <1>4 DEF Close
<1>21. CASE Complete(t)
  BY <1>21, <1>1, <1>3, <1>4 DEF Complete
<1>22. CASE CompleteMeta(t)
  BY <1>22, <1>1, <1>3, <1>4 DEF CompleteMeta
<1>23. CASE CompleteFails(t)
  BY <1>23, <1>1, <1>3, <1>4 DEF CompleteFails
<1>24. CASE Expire(t)
  BY <1>24, <1>1, <1>3, <1>4 DEF Expire
<1>25. CASE TakeStepPutAside(t)
  BY <1>25, <1>1, <1>3, <1>4 DEF TakeStepPutAside
<1>26. CASE Answer(t)
  <2>1. /\ pc[t] = "idle" /\ pc' = [pc EXCEPT ![t] = "answered"]
        /\ "step" \in use.may[t] /\ suspended # None
        /\ queue' = Append(queue, suspended)
        /\ suspended' = suspended /\ prompt' = prompt /\ resuming' = resuming
        /\ signalled' = signalled /\ pending' = pending /\ (busy' <=> busy)
    BY <1>26 DEF Answer
  <2>2. \A u \in Thread : pc[u] \notin {"answered", "consume"}
    BY <1>3, <1>4, <2>1
  <2>3. queue' = <<suspended>>
    BY <1>4, <2>1, <2>2, FirstAnswer
  <2>4. \A u \in Thread : pc'[u] = IF u = t THEN "answered" ELSE pc[u]
    BY <2>1
  <2>5. Quiet' /\ Exclusive'
    BY <1>4, <2>1, <2>4
  <2>6. Answering'
    BY <1>1, <2>1, <2>2, <2>3, <2>4
  <2> QED
    BY <2>5, <2>6
<1>27. CASE Resume(t)
  BY <1>27, <1>1, <1>3, <1>4 DEF Resume
<1>28. CASE ResumeNothing(t)
  BY <1>28, <1>1, <1>3, <1>4 DEF ResumeNothing
<1>29. CASE Consume(t)
  BY <1>29, <1>1, <1>3, <1>4, <1>2, ServedFits DEF Consume, Fits
<1>30. CASE ConsumeMismatch(t)
  BY <1>30, <1>1, <1>3, <1>4, <1>2, ServedFits DEF ConsumeMismatch
<1>31. CASE CancelPrompt(t)
  BY <1>31, <1>1, <1>3, <1>4 DEF CancelPrompt
<1>32. CASE ResetCancelled(t)
  BY <1>32, <1>1, <1>3, <1>4 DEF ResetCancelled
<1>33. CASE PutStepAside(t)
  BY <1>33, <1>1, <1>3, <1>4 DEF PutStepAside
<1>34. CASE CancelRunning(t)
  BY <1>34, <1>1, <1>3, <1>4 DEF CancelRunning
<1>35. CASE Leave(t)
  BY <1>35, <1>1, <1>3, <1>4 DEF Leave
<1>36. CASE Reset(t)
  BY <1>36, <1>1, <1>3, <1>4 DEF Reset
<1> QED
  BY <1>11, <1>12, <1>13, <1>14, <1>15, <1>16, <1>17, <1>18, <1>19,
       <1>20, <1>21, <1>22, <1>23, <1>24, <1>25, <1>26, <1>27, <1>28,
       <1>29, <1>30, <1>31, <1>32, <1>33, <1>34, <1>35, <1>36
    DEF ThreadStep, AskActions, TurnActions, StepActions, StopActions


\* The strengthening holds in every state.
LEMMA ServedAlways == Spec => []Served
<1>1. Init => Served
  <2>1. Fresh => ~busy /\ suspended = None
    BY DEF Fresh
  <2>2. Restored => busy /\ suspended # None
    BY RestoredPrompt, NoneAssumption DEF Restored
  <2>3. Init => Quiet /\ \A t \in Thread : pc[t] = "idle"
    BY DEF Init, Quiet
  <2>4. Init => Exclusive /\ Answering
    BY <2>1, <2>2, <2>3 DEF Init, Exclusive, Answering, InTurn
  <2> QED
    BY <2>3, <2>4 DEF Served
<1>2. TypeOK /\ Served /\ [Next]_vars => Served'
  <2> SUFFICES ASSUME TypeOK, Served, [Next]_vars PROVE Served'
    OBVIOUS
  <2>1. CASE UNCHANGED vars
    BY <2>1 DEF Served, Asking, Calling, Quiet, Exclusive, Answering, vars,
                session, threads, counts, ghosts
  <2>2. CASE Next
    BY <2>2, ServedStep DEF Next, ThreadStep
  <2> QED
    BY <2>1, <2>2
<1> QED
  BY <1>1, <1>2, Typing, PTL DEF Spec

\* While the threads ask and one of them steps, the busy flag lets only one
\* turn run, and none beside an open prompt (PipelineSession.ask).
THEOREM AskersExclude == Spec => []AskersTakeTurns
<1>1. Served => AskersTakeTurns
  BY DEF Served, Exclusive, AskersTakeTurns, OneTurn, Running, AtMostOne
<1> QED
  BY <1>1, ServedAlways, PTL
-----------------------------------------------------------------------------
(* Answers and outcomes *)

(***************************************************************************)
(* What one caller finds: only it is inside a call; the queue holds the    *)
(* answer it has given and not yet consumed; a step put aside waits only   *)
(* while no prompt is open, and is gone before the pipeline runs.          *)
(***************************************************************************)
Lone == \A t \in Thread : pc[t] # "idle" => t \in Calling(Methods)

LoneAnswer ==
    /\ \A t \in Thread : pc[t] = "answered" => suspended # None /\ queue = <<suspended>>
    /\ \A t \in Thread : pc[t] = "consume" =>
            queue = <<prompt[t]>> /\ resuming = prompt[t].stage
    /\ queue # << >> => \E t \in Thread : pc[t] \in {"answered", "consume"}

LoneAside ==
    /\ \A t \in Thread : pc[t] = "cancelled" => suspended = None
    /\ pending # None =>
        suspended = None /\ \A t \in Thread : pc[t] \in {"idle", "asked", "leaving"}

Attended == Lone /\ (Alone => LoneAnswer /\ LoneAside)

\* Nobody else is inside a call when the lone caller acts.
LEMMA OthersIdle ==
    ASSUME Attended, Alone, NEW t \in Thread, ThreadStep(t)
    PROVE  \A u \in Thread : u # t => pc[u] = "idle"
<1>1. t \in Calling(Methods)
  <2> USE DEF Attended, Lone, Calling, Methods, At, Calls
  <2>1. CASE Ask(t)
    BY <2>1 DEF Ask
  <2>2. CASE BeginTurn(t)
    BY <2>2 DEF BeginTurn
  <2>3. CASE Prepare(t)
    BY <2>3 DEF Prepare
  <2>4. CASE PrepareFails(t)
    BY <2>4 DEF PrepareFails
  <2>5. CASE PassCheckpoint(t)
    BY <2>5 DEF PassCheckpoint
  <2>6. CASE StopAtCheckpoint(t)
    BY <2>6 DEF StopAtCheckpoint
  <2>7. CASE ReachCheckpoint(t)
    BY <2>7 DEF ReachCheckpoint
  <2>8. CASE Suspend(t)
    BY <2>8 DEF Suspend
  <2>9. CASE TurnFails(t)
    BY <2>9 DEF TurnFails
  <2>10. CASE Close(t)
    BY <2>10 DEF Close
  <2>11. CASE Complete(t)
    BY <2>11 DEF Complete
  <2>12. CASE CompleteMeta(t)
    BY <2>12 DEF CompleteMeta
  <2>13. CASE CompleteFails(t)
    BY <2>13 DEF CompleteFails
  <2>14. CASE Expire(t)
    BY <2>14 DEF Expire
  <2>15. CASE TakeStepPutAside(t)
    BY <2>15 DEF TakeStepPutAside
  <2>16. CASE Answer(t)
    BY <2>16 DEF Answer
  <2>17. CASE Resume(t)
    BY <2>17 DEF Resume
  <2>18. CASE ResumeNothing(t)
    BY <2>18 DEF ResumeNothing
  <2>19. CASE Consume(t)
    BY <2>19 DEF Consume, Fits
  <2>20. CASE ConsumeMismatch(t)
    BY <2>20 DEF ConsumeMismatch
  <2>21. CASE CancelPrompt(t)
    BY <2>21 DEF CancelPrompt
  <2>22. CASE ResetCancelled(t)
    BY <2>22 DEF ResetCancelled
  <2>23. CASE PutStepAside(t)
    BY <2>23 DEF PutStepAside
  <2>24. CASE CancelRunning(t)
    BY <2>24 DEF CancelRunning
  <2>25. CASE Leave(t)
    BY <2>25 DEF Leave
  <2>26. CASE Reset(t)
    BY <2>26 DEF Reset
  <2> QED
    BY <2>1, <2>2, <2>3, <2>4, <2>5, <2>6, <2>7, <2>8, <2>9,
         <2>10, <2>11, <2>12, <2>13, <2>14, <2>15, <2>16, <2>17, <2>18,
         <2>19, <2>20, <2>21, <2>22, <2>23, <2>24, <2>25, <2>26
      DEF ThreadStep, AskActions, TurnActions, StepActions, StopActions
<1> QED
  BY <1>1 DEF Attended, Lone, Alone, AtMostOne

LEMMA AttendedStep ==
    ASSUME TypeOK, Attended, NEW t \in Thread, ThreadStep(t)
    PROVE  Attended'
<1>1. use' = use
  BY UseStep
<1>2. Lone'
  <2> USE <1>1 DEF TypeOK, Attended, Lone, Calling, Methods, At, Calls, threads
  <2>1. CASE Ask(t)
    BY <2>1 DEF Ask
  <2>2. CASE BeginTurn(t)
    BY <2>2 DEF BeginTurn
  <2>3. CASE Prepare(t)
    BY <2>3 DEF Prepare
  <2>4. CASE PrepareFails(t)
    BY <2>4 DEF PrepareFails
  <2>5. CASE PassCheckpoint(t)
    BY <2>5 DEF PassCheckpoint
  <2>6. CASE StopAtCheckpoint(t)
    BY <2>6 DEF StopAtCheckpoint
  <2>7. CASE ReachCheckpoint(t)
    BY <2>7 DEF ReachCheckpoint
  <2>8. CASE Suspend(t)
    BY <2>8 DEF Suspend
  <2>9. CASE TurnFails(t)
    BY <2>9 DEF TurnFails
  <2>10. CASE Close(t)
    BY <2>10 DEF Close
  <2>11. CASE Complete(t)
    BY <2>11 DEF Complete
  <2>12. CASE CompleteMeta(t)
    BY <2>12 DEF CompleteMeta
  <2>13. CASE CompleteFails(t)
    BY <2>13 DEF CompleteFails
  <2>14. CASE Expire(t)
    BY <2>14 DEF Expire
  <2>15. CASE TakeStepPutAside(t)
    BY <2>15 DEF TakeStepPutAside
  <2>16. CASE Answer(t)
    BY <2>16 DEF Answer
  <2>17. CASE Resume(t)
    BY <2>17 DEF Resume
  <2>18. CASE ResumeNothing(t)
    BY <2>18 DEF ResumeNothing
  <2>19. CASE Consume(t)
    BY <2>19 DEF Consume, Fits
  <2>20. CASE ConsumeMismatch(t)
    BY <2>20 DEF ConsumeMismatch
  <2>21. CASE CancelPrompt(t)
    BY <2>21 DEF CancelPrompt
  <2>22. CASE ResetCancelled(t)
    BY <2>22 DEF ResetCancelled
  <2>23. CASE PutStepAside(t)
    BY <2>23 DEF PutStepAside
  <2>24. CASE CancelRunning(t)
    BY <2>24 DEF CancelRunning
  <2>25. CASE Leave(t)
    BY <2>25 DEF Leave
  <2>26. CASE Reset(t)
    BY <2>26 DEF Reset
  <2> QED
    BY <2>1, <2>2, <2>3, <2>4, <2>5, <2>6, <2>7, <2>8, <2>9,
         <2>10, <2>11, <2>12, <2>13, <2>14, <2>15, <2>16, <2>17, <2>18,
         <2>19, <2>20, <2>21, <2>22, <2>23, <2>24, <2>25, <2>26
      DEF ThreadStep, AskActions, TurnActions, StepActions, StopActions
<1>3. ASSUME Alone PROVE (LoneAnswer /\ LoneAside)'
  <2>a. \A u \in Thread : u # t => pc[u] = "idle"
    BY <1>3, OthersIdle
  <2>b. LoneAnswer /\ LoneAside
    BY <1>3 DEF Attended
  <2> USE DEF TypeOK, LoneAnswer, LoneAside, At, Calls, Got, Cleared, Release, InTurn,
              session, threads, counts, ghosts
  <2>1. CASE Ask(t)
    BY <2>1, <2>a, <2>b DEF Ask
  <2>2. CASE BeginTurn(t)
    BY <2>2, <2>a, <2>b DEF BeginTurn
  <2>3. CASE Prepare(t)
    BY <2>3, <2>a, <2>b DEF Prepare
  <2>4. CASE PrepareFails(t)
    BY <2>4, <2>a, <2>b DEF PrepareFails
  <2>5. CASE PassCheckpoint(t)
    BY <2>5, <2>a, <2>b DEF PassCheckpoint
  <2>6. CASE StopAtCheckpoint(t)
    BY <2>6, <2>a, <2>b DEF StopAtCheckpoint
  <2>7. CASE ReachCheckpoint(t)
    BY <2>7, <2>a, <2>b DEF ReachCheckpoint
  <2>8. CASE Suspend(t)
    BY <2>8, <2>a, <2>b, NewPrompt, NoneAssumption DEF Suspend
  <2>9. CASE TurnFails(t)
    BY <2>9, <2>a, <2>b DEF TurnFails
  <2>10. CASE Close(t)
    BY <2>10, <2>a, <2>b DEF Close
  <2>11. CASE Complete(t)
    BY <2>11, <2>a, <2>b DEF Complete
  <2>12. CASE CompleteMeta(t)
    BY <2>12, <2>a, <2>b DEF CompleteMeta
  <2>13. CASE CompleteFails(t)
    BY <2>13, <2>a, <2>b DEF CompleteFails
  <2>14. CASE Expire(t)
    BY <2>14, <2>a, <2>b DEF Expire
  <2>15. CASE TakeStepPutAside(t)
    BY <2>15, <2>a, <2>b DEF TakeStepPutAside
  <2>16. CASE Answer(t)
    <3>1. /\ pc[t] = "idle" /\ pc' = [pc EXCEPT ![t] = "answered"]
          /\ suspended # None /\ queue' = Append(queue, suspended)
          /\ suspended' = suspended /\ prompt' = prompt /\ resuming' = resuming
          /\ pending = None /\ pending' = pending
      BY <2>16 DEF Answer
    <3>2. \A u \in Thread : pc[u] \notin {"answered", "consume"}
      BY <2>a, <3>1
    <3>3. queue' = <<suspended>>
      BY <2>b, <3>1, <3>2, FirstAnswer
    <3>4. \A u \in Thread : pc'[u] = IF u = t THEN "answered" ELSE pc[u]
      BY <3>1
    <3> QED
      BY <2>b, <3>1, <3>2, <3>3, <3>4
  <2>17. CASE Resume(t)
    BY <2>17, <2>a, <2>b DEF Resume
  <2>18. CASE ResumeNothing(t)
    BY <2>18, <2>a, <2>b DEF ResumeNothing
  <2>19. CASE Consume(t)
    BY <2>19, <2>a, <2>b DEF Consume, Fits
  <2>20. CASE ConsumeMismatch(t)
    BY <2>20, <2>a, <2>b DEF ConsumeMismatch
  <2>21. CASE CancelPrompt(t)
    BY <2>21, <2>a, <2>b DEF CancelPrompt
  <2>22. CASE ResetCancelled(t)
    BY <2>22, <2>a, <2>b DEF ResetCancelled
  <2>23. CASE PutStepAside(t)
    BY <2>23, <2>a, <2>b DEF PutStepAside
  <2>24. CASE CancelRunning(t)
    BY <2>24, <2>a, <2>b DEF CancelRunning
  <2>25. CASE Leave(t)
    BY <2>25, <2>a, <2>b DEF Leave
  <2>26. CASE Reset(t)
    BY <2>26, <2>a, <2>b DEF Reset
  <2> QED
    BY <2>1, <2>2, <2>3, <2>4, <2>5, <2>6, <2>7, <2>8, <2>9,
         <2>10, <2>11, <2>12, <2>13, <2>14, <2>15, <2>16, <2>17, <2>18,
         <2>19, <2>20, <2>21, <2>22, <2>23, <2>24, <2>25, <2>26
      DEF ThreadStep, AskActions, TurnActions, StepActions, StopActions
<1> QED
  BY <1>1, <1>2, <1>3 DEF Attended, Alone, Calling

\* A lone caller is attended to in every state.
LEMMA AttendedAlways == Spec => []Attended
<1>1. Init => Attended
  <2>1. Init => queue = << >> /\ pending = None /\ \A t \in Thread : pc[t] = "idle"
    BY DEF Init
  <2> QED
    BY <2>1 DEF Attended, Lone, LoneAnswer, LoneAside
<1>2. TypeOK /\ Attended /\ [Next]_vars => Attended'
  <2> SUFFICES ASSUME TypeOK, Attended, [Next]_vars PROVE Attended'
    OBVIOUS
  <2>1. CASE UNCHANGED vars
    BY <2>1 DEF Attended, Alone, Calling, Lone, LoneAnswer, LoneAside, vars, session,
                threads, counts, ghosts
  <2>2. CASE Next
    BY <2>2, AttendedStep DEF Next, ThreadStep
  <2> QED
    BY <2>1, <2>2
<1> QED
  BY <1>1, <1>2, Typing, PTL DEF Spec

\* With one caller, or with askers of whom one steps, a resumed turn consumes
\* the answer given to its own prompt (PipelineSession._consume_next_queued_choice).
THEOREM AnswersMatch == Spec => AnswersItsPrompt
<1>1. Served /\ Attended => \A t \in Thread :
        (Alone \/ Asking) /\ pc[t] = "consume" => Head(queue).id = prompt[t].id
  <2> SUFFICES ASSUME Served, Attended, NEW t \in Thread, Alone \/ Asking,
                      pc[t] = "consume"
               PROVE  Head(queue).id = prompt[t].id
    OBVIOUS
  <2>1. CASE Asking
    BY <2>1, ServedFits
  <2>2. CASE Alone
    <3>1. queue = <<prompt[t]>>
      BY <2>2 DEF Attended, LoneAnswer
    <3>2. Head(queue) = prompt[t]
      BY <3>1
    <3> QED
      BY <3>2
  <2> QED
    BY <2>1, <2>2
<1>2. Served /\ Attended => [ \A t \in Thread :
          (Alone \/ Asking) /\ pc[t] = "consume" /\ pc'[t] = "work" =>
            Head(queue).id = prompt[t].id ]_vars
  BY <1>1
<1> QED
  BY <1>2, ServedAlways, AttendedAlways, PTL DEF AnswersItsPrompt

\* Nothing is ever put aside where nobody cancels.
Uncancelled == Calling({"cancel", "exit"}) = {}

NoneAside ==
    pending = None /\ \A t \in Thread : pc[t] \notin {"cancelling", "cancelled"}

ToldRightly ==
    /\ Uncancelled => NoneAside
    /\ OwnOutcome

LEMMA NobodyCancels ==
    Uncancelled => \A t \in Thread : "cancel" \notin use.may[t] /\ "exit" \notin use.may[t]
  BY DEF Uncancelled, Calling

LEMMA NoneAsideStep ==
    ASSUME TypeOK, Uncancelled, NoneAside, NEW t \in Thread, ThreadStep(t)
    PROVE  NoneAside'
<1>1. "cancel" \notin use.may[t] /\ "exit" \notin use.may[t]
  BY NobodyCancels
<1> USE <1>1 DEF TypeOK, NoneAside, At, Calls, Got, Cleared, Release, session, threads
<1>2. CASE Ask(t)
  BY <1>2 DEF Ask
<1>3. CASE BeginTurn(t)
  BY <1>3 DEF BeginTurn
<1>4. CASE Prepare(t)
  BY <1>4 DEF Prepare
<1>5. CASE PrepareFails(t)
  BY <1>5 DEF PrepareFails
<1>6. CASE PassCheckpoint(t)
  BY <1>6 DEF PassCheckpoint
<1>7. CASE StopAtCheckpoint(t)
  BY <1>7 DEF StopAtCheckpoint
<1>8. CASE ReachCheckpoint(t)
  BY <1>8 DEF ReachCheckpoint
<1>9. CASE Suspend(t)
  BY <1>9 DEF Suspend
<1>10. CASE TurnFails(t)
  BY <1>10 DEF TurnFails
<1>11. CASE Close(t)
  BY <1>11 DEF Close
<1>12. CASE Complete(t)
  BY <1>12 DEF Complete
<1>13. CASE CompleteMeta(t)
  BY <1>13 DEF CompleteMeta
<1>14. CASE CompleteFails(t)
  BY <1>14 DEF CompleteFails
<1>15. CASE Expire(t)
  BY <1>15 DEF Expire
<1>16. CASE TakeStepPutAside(t)
  BY <1>16 DEF TakeStepPutAside
<1>17. CASE Answer(t)
  BY <1>17 DEF Answer
<1>18. CASE Resume(t)
  BY <1>18 DEF Resume
<1>19. CASE ResumeNothing(t)
  BY <1>19 DEF ResumeNothing
<1>20. CASE Consume(t)
  BY <1>20 DEF Consume, Fits
<1>21. CASE ConsumeMismatch(t)
  BY <1>21 DEF ConsumeMismatch
<1>22. CASE CancelPrompt(t)
  BY <1>22 DEF CancelPrompt
<1>23. CASE ResetCancelled(t)
  BY <1>23 DEF ResetCancelled
<1>24. CASE PutStepAside(t)
  BY <1>24 DEF PutStepAside
<1>25. CASE CancelRunning(t)
  BY <1>25 DEF CancelRunning
<1>26. CASE Leave(t)
  BY <1>26 DEF Leave
<1>27. CASE Reset(t)
  BY <1>27 DEF Reset
<1> QED
  BY <1>2, <1>3, <1>4, <1>5, <1>6, <1>7, <1>8, <1>9, <1>10,
       <1>11, <1>12, <1>13, <1>14, <1>15, <1>16, <1>17, <1>18, <1>19,
       <1>20, <1>21, <1>22, <1>23, <1>24, <1>25, <1>26, <1>27
    DEF ThreadStep, AskActions, TurnActions, StepActions, StopActions

\* A step tells a caller of its own turn unless another turn's step is put aside.
LEMMA OutcomeStep ==
    ASSUME TypeOK, NEW t \in Thread, ThreadStep(t),
           \A u \in Thread : outcome[u].asked = outcome[u].got,
           pending # None => suspended = None /\ pc[t] # "work"
    PROVE  \A u \in Thread : outcome'[u].asked = outcome'[u].got
  <1> USE DEF TypeOK, At, Got, ghosts, threads
  <1>1. CASE Ask(t)
    BY <1>1 DEF Ask
  <1>2. CASE BeginTurn(t)
    BY <1>2 DEF BeginTurn
  <1>3. CASE Prepare(t)
    BY <1>3 DEF Prepare
  <1>4. CASE PrepareFails(t)
    BY <1>4 DEF PrepareFails
  <1>5. CASE PassCheckpoint(t)
    BY <1>5 DEF PassCheckpoint
  <1>6. CASE StopAtCheckpoint(t)
    BY <1>6 DEF StopAtCheckpoint
  <1>7. CASE ReachCheckpoint(t)
    BY <1>7 DEF ReachCheckpoint
  <1>8. CASE Suspend(t)
    BY <1>8 DEF Suspend
  <1>9. CASE TurnFails(t)
    BY <1>9 DEF TurnFails
  <1>10. CASE Close(t)
    BY <1>10 DEF Close
  <1>11. CASE Complete(t)
    BY <1>11 DEF Complete
  <1>12. CASE CompleteMeta(t)
    BY <1>12 DEF CompleteMeta
  <1>13. CASE CompleteFails(t)
    BY <1>13 DEF CompleteFails
  <1>14. CASE Expire(t)
    BY <1>14 DEF Expire
  <1>15. CASE TakeStepPutAside(t)
    BY <1>15 DEF TakeStepPutAside
  <1>16. CASE Answer(t)
    BY <1>16 DEF Answer
  <1>17. CASE Resume(t)
    BY <1>17 DEF Resume
  <1>18. CASE ResumeNothing(t)
    BY <1>18 DEF ResumeNothing
  <1>19. CASE Consume(t)
    BY <1>19 DEF Consume, Fits
  <1>20. CASE ConsumeMismatch(t)
    BY <1>20 DEF ConsumeMismatch
  <1>21. CASE CancelPrompt(t)
    BY <1>21 DEF CancelPrompt
  <1>22. CASE ResetCancelled(t)
    BY <1>22 DEF ResetCancelled
  <1>23. CASE PutStepAside(t)
    BY <1>23 DEF PutStepAside
  <1>24. CASE CancelRunning(t)
    BY <1>24 DEF CancelRunning
  <1>25. CASE Leave(t)
    BY <1>25 DEF Leave
  <1>26. CASE Reset(t)
    BY <1>26 DEF Reset
  <1> QED
    BY <1>1, <1>2, <1>3, <1>4, <1>5, <1>6, <1>7, <1>8, <1>9,
       <1>10, <1>11, <1>12, <1>13, <1>14, <1>15, <1>16, <1>17, <1>18,
       <1>19, <1>20, <1>21, <1>22, <1>23, <1>24, <1>25, <1>26
    DEF ThreadStep, AskActions, TurnActions, StepActions, StopActions

\* The last step a caller gets reports on the caller's own turn, with one caller
\* or where nobody cancels (PipelineSession._completed_step, step).
THEOREM OutcomeIsOwn == Spec => []OwnOutcome
<1>1. Init => ToldRightly
  BY DEF Init, ToldRightly, NoneAside, OwnOutcome
<1>2. TypeOK /\ Attended /\ ToldRightly /\ [Next]_vars => ToldRightly'
  <2> SUFFICES ASSUME TypeOK, Attended, ToldRightly, [Next]_vars PROVE ToldRightly'
    OBVIOUS
  <2>1. CASE UNCHANGED vars
    BY <2>1 DEF ToldRightly, Uncancelled, NoneAside, OwnOutcome, Alone, Calling, vars,
                session, threads, counts, ghosts
  <2>2. CASE Next
    <3> PICK t \in Thread : ThreadStep(t)
      BY <2>2 DEF Next, ThreadStep
    <3>1. use' = use
      BY UseStep
    <3>2. (Uncancelled => NoneAside)'
      BY <3>1, NoneAsideStep DEF ToldRightly, Uncancelled, Calling
    <3>3. ASSUME Alone \/ Uncancelled
          PROVE  \A u \in Thread : outcome'[u].asked = outcome'[u].got
      <4>1. pending # None => suspended = None /\ pc[t] # "work"
        BY <3>3 DEF ToldRightly, NoneAside, Attended, LoneAside
      <4> QED
        BY <3>3, <4>1, OutcomeStep DEF ToldRightly, OwnOutcome, Uncancelled
    <3> QED
      BY <3>1, <3>2, <3>3 DEF ToldRightly, OwnOutcome, Alone, Uncancelled, Calling
  <2> QED
    BY <2>1, <2>2
<1>3. ToldRightly => OwnOutcome
  BY DEF ToldRightly
<1> QED
  BY <1>1, <1>2, <1>3, Typing, AttendedAlways, PTL DEF Spec
-----------------------------------------------------------------------------
(* A cancel seen in time *)

(***************************************************************************)
(* One thread asks and another cancels.  Only these two are inside calls.  *)
(* A session that waits is busy and no turn runs on it, so the reset that  *)
(* ends the cancelling of a prompt clears the event of no running turn;    *)
(* a turn is never told before it polls its event, and one that was told   *)
(* has it set until it stops.                                              *)
(***************************************************************************)
InAsk == {"asked", "preparing", "check", "work", "closing"}

PartsKept == \A t \in Thread : pc[t] # "idle" =>
    \/ t \in Calling({"ask"}) /\ pc[t] \in InAsk
    \/ t \in Calling({"cancel"}) /\ pc[t] \in {"cancelling", "cancelled"} /\ call[t] = "cancel"

WaitsAlone ==
    /\ \A t \in Thread : pc[t] \in InAsk /\ pc[t] # "closing" => busy
    /\ suspended # None => busy /\ \A t \in Thread : pc[t] \notin InAsk
    /\ \A t \in Thread : pc[t] = "cancelling" => suspended # None

TurnsNumbered ==
    /\ \A n \in told : n <= turns
    /\ \A t \in Thread : turn[t] <= turns
    /\ suspended # None => suspended.turn <= turns

StillSet ==
    /\ \A t \in Thread : pc[t] \in {"asked", "preparing"} => turn[t] \notin told
    /\ \A t \in Thread : pc[t] \in {"check", "work"} /\ turn[t] \in told => bound[t] \in signalled

Noticed == Cancelling => PartsKept /\ WaitsAlone /\ TurnsNumbered /\ StillSet

\* Nothing else is called, and only one thread is inside ask.
LEMMA TwoParts ==
    ASSUME Cancelling, PartsKept
    PROVE  /\ \A t \in Thread : use.may[t] \subseteq {"ask", "cancel"} \cup (use.may[t] \ Methods)
           /\ \A t, u \in Thread : pc[t] \in InAsk /\ pc[u] \in InAsk => t = u
           /\ \A t, u \in Thread : pc[t] \in InAsk /\ "ask" \in use.may[u] => t = u
           /\ \A t, u \in Thread : pc[t] = "cancelling" /\ pc[u] = "cancelling" => t = u
<1>1. ASSUME NEW t \in Thread, pc[t] \in InAsk PROVE t \in Calling({"ask"})
  BY <1>1 DEF PartsKept, InAsk
<1>2. \A t, u \in Calling({"ask"}) : t = u
  BY DEF Cancelling, AtMostOne
<1>3. \A u \in Thread : "ask" \in use.may[u] => u \in Calling({"ask"})
  BY DEF Calling
<1>4. \A t \in Thread : use.may[t] \cap (Methods \ {"ask", "cancel"}) = {}
  BY DEF Cancelling, Calling
<1>5. \A t, u \in Calling({"cancel"}) : t = u
  BY DEF Cancelling, AtMostOne
<1>6. ASSUME NEW t \in Thread, pc[t] = "cancelling" PROVE t \in Calling({"cancel"})
  BY <1>6 DEF PartsKept, InAsk
<1> QED
  BY <1>1, <1>2, <1>3, <1>4, <1>5, <1>6

\* What a step of thread t may be.
LEMMA PartsOnly ==
    ASSUME TypeOK, Cancelling, PartsKept, NEW t \in Thread, ThreadStep(t)
    PROVE  \/ Ask(t) \/ BeginTurn(t) \/ Prepare(t) \/ PrepareFails(t)
           \/ PassCheckpoint(t) \/ StopAtCheckpoint(t) \/ ReachCheckpoint(t) \/ Suspend(t)
           \/ TurnFails(t) \/ Close(t) \/ Complete(t) \/ CompleteMeta(t) \/ CompleteFails(t)
           \/ CancelPrompt(t) /\ call'[t] = "cancel"
           \/ ResetCancelled(t)
           \/ PutStepAside(t) /\ pc'[t] = "idle"
           \/ CancelRunning(t) /\ pc'[t] = "idle"
<1>1. "step" \notin use.may[t] /\ "reset" \notin use.may[t] /\ "exit" \notin use.may[t]
  BY TwoParts DEF Methods
<1>2. pc[t] \notin {"answered", "consume", "leaving"}
  BY DEF PartsKept, InAsk
<1>3. ~ Expire(t) /\ ~ TakeStepPutAside(t) /\ ~ Answer(t) /\ ~ Reset(t) /\ ~ Leave(t)
  BY <1>1, <1>2 DEF Expire, TakeStepPutAside, Answer, Reset, Leave, Calls, At
<1>4. ~ Resume(t) /\ ~ ResumeNothing(t) /\ ~ Consume(t) /\ ~ ConsumeMismatch(t)
  BY <1>2 DEF Resume, ResumeNothing, Consume, ConsumeMismatch, At
<1>5. CancelPrompt(t) => call'[t] = "cancel"
  BY <1>1 DEF CancelPrompt, Calls, TypeOK
<1>6. CancelRunning(t) => pc'[t] = "idle"
  BY <1>1 DEF CancelRunning, Calls, At, TypeOK
<1>7. PutStepAside(t) => pc'[t] = "idle"
  BY DEF PutStepAside, At, PartsKept, InAsk, TypeOK
<1> QED
  BY <1>3, <1>4, <1>5, <1>6, <1>7
  DEF ThreadStep, AskActions, TurnActions, StepActions, StopActions

\* Each thread stays in the part it plays.
LEMMA PartsStep ==
    ASSUME TypeOK, Cancelling, PartsKept,
           NEW t \in Thread, ThreadStep(t)
    PROVE  PartsKept'
<1>1. \A u \in Thread : "ask" \in use.may[u] => u \in Calling({"ask"})
  BY DEF Calling
<1>0. use' = use /\ \A u \in Thread : "cancel" \in use.may[u] => u \in Calling({"cancel"})
  BY UseStep DEF Calling
<1> USE <1>1, <1>0 DEF TypeOK, PartsKept, InAsk, Calling, At, Calls, threads
<1>2. CASE Ask(t)
  BY <1>2 DEF Ask
<1>3. CASE BeginTurn(t)
  BY <1>3 DEF BeginTurn
<1>4. CASE Prepare(t)
  BY <1>4 DEF Prepare
<1>5. CASE PrepareFails(t)
  BY <1>5 DEF PrepareFails
<1>6. CASE PassCheckpoint(t)
  BY <1>6 DEF PassCheckpoint
<1>7. CASE StopAtCheckpoint(t)
  BY <1>7 DEF StopAtCheckpoint
<1>8. CASE ReachCheckpoint(t)
  BY <1>8 DEF ReachCheckpoint
<1>9. CASE Suspend(t)
  BY <1>9 DEF Suspend
<1>10. CASE TurnFails(t)
  BY <1>10 DEF TurnFails
<1>11. CASE Close(t)
  BY <1>11 DEF Close
<1>12. CASE Complete(t)
  BY <1>12 DEF Complete
<1>13. CASE CompleteMeta(t)
  BY <1>13 DEF CompleteMeta
<1>14. CASE CompleteFails(t)
  BY <1>14 DEF CompleteFails
<1>15. CASE CancelPrompt(t) /\ call'[t] = "cancel"
  BY <1>15 DEF CancelPrompt
<1>16. CASE ResetCancelled(t)
  BY <1>16 DEF ResetCancelled
<1>17. CASE PutStepAside(t) /\ pc'[t] = "idle"
  BY <1>17 DEF PutStepAside
<1>18. CASE CancelRunning(t) /\ pc'[t] = "idle"
  BY <1>18 DEF CancelRunning
<1> QED
  BY <1>2, <1>3, <1>4, <1>5, <1>6, <1>7, <1>8, <1>9, <1>10,
     <1>11, <1>12, <1>13, <1>14, <1>15, <1>16, <1>17, <1>18, PartsOnly

\* A session that waits stays busy and alone.
LEMMA WaitsStep ==
    ASSUME TypeOK, Cancelling, PartsKept, WaitsAlone,
           NEW t \in Thread, ThreadStep(t)
    PROVE  WaitsAlone'
<1>1. /\ \A u \in Thread : pc[t] \in InAsk /\ pc[u] \in InAsk => u = t
      /\ \A u \in Thread : pc[u] \in InAsk /\ "ask" \in use.may[t] => u = t
  BY TwoParts
<1> USE <1>1 DEF TypeOK, WaitsAlone, InAsk, At, Calls, Cleared, Release, session, threads
<1>2. CASE Ask(t)
  BY <1>2 DEF Ask
<1>3. CASE BeginTurn(t)
  BY <1>3 DEF BeginTurn
<1>4. CASE Prepare(t)
  BY <1>4 DEF Prepare
<1>5. CASE PrepareFails(t)
  BY <1>5 DEF PrepareFails
<1>6. CASE PassCheckpoint(t)
  BY <1>6 DEF PassCheckpoint
<1>7. CASE StopAtCheckpoint(t)
  BY <1>7 DEF StopAtCheckpoint
<1>8. CASE ReachCheckpoint(t)
  BY <1>8 DEF ReachCheckpoint
<1>9. CASE Suspend(t)
  <2>1. /\ pc[t] = "work" /\ busy' = busy
        /\ pc' = [pc EXCEPT ![t] = "idle"]
    BY <1>9 DEF Suspend
  <2>2. busy /\ suspended = None /\ \A u \in Thread : pc[u] # "cancelling"
    BY <2>1
  <2>3. \A u \in Thread : u # t => pc[u] \notin {"asked", "preparing", "check", "work", "closing"}
    BY <2>1, <1>1
  <2> QED
    BY <2>1, <2>2, <2>3
<1>10. CASE TurnFails(t)
  <2>1. /\ pc[t] \in {"check", "work"} /\ pc' = [pc EXCEPT ![t] = "closing"]
        /\ suspended' = None
    BY <1>10 DEF TurnFails, PartsKept
  <2>2. \A u \in Thread : u # t => pc[u] \notin {"asked", "preparing", "check", "work", "closing"}
    BY <2>1, <1>1
  <2>3. suspended = None /\ \A u \in Thread : pc[u] # "cancelling"
    BY <2>1 DEF WaitsAlone
  <2> QED
    BY <2>1, <2>2, <2>3
<1>11. CASE Close(t)
  BY <1>11 DEF Close
<1>12. CASE Complete(t)
  BY <1>12 DEF Complete
<1>13. CASE CompleteMeta(t)
  BY <1>13 DEF CompleteMeta
<1>14. CASE CompleteFails(t)
  BY <1>14 DEF CompleteFails
<1>15. CASE CancelPrompt(t) /\ call'[t] = "cancel"
  <2>1. /\ suspended # None /\ suspended' = suspended /\ busy' = busy
        /\ pc' = [pc EXCEPT ![t] = "cancelling"]
    BY <1>15 DEF CancelPrompt
  <2> QED
    BY <2>1
<1>16. CASE ResetCancelled(t)
  <2>1. /\ pc[t] = "cancelling" /\ suspended' = None
        /\ pc' = [pc EXCEPT ![t] = "cancelled"]
    BY <1>16 DEF ResetCancelled
  <2>2. \A u \in Thread : pc[u] \notin {"asked", "preparing", "check", "work", "closing"}
    BY <2>1
  <2>3. \A u \in Thread : pc[u] = "cancelling" => u = t
    BY <2>1, TwoParts
  <2> QED
    BY <2>1, <2>2, <2>3
<1>17. CASE PutStepAside(t) /\ pc'[t] = "idle"
  BY <1>17 DEF PutStepAside
<1>18. CASE CancelRunning(t) /\ pc'[t] = "idle"
  BY <1>18 DEF CancelRunning
<1> QED
  BY <1>2, <1>3, <1>4, <1>5, <1>6, <1>7, <1>8, <1>9, <1>10,
     <1>11, <1>12, <1>13, <1>14, <1>15, <1>16, <1>17, <1>18, PartsOnly

\* Turns that are known have begun.
LEMMA NumbersStep ==
    ASSUME TypeOK, Cancelling, PartsKept, TurnsNumbered,
           NEW t \in Thread, ThreadStep(t)
    PROVE  TurnsNumbered'
<1>1. turns \in Nat /\ turn \in [Thread -> Turn] /\ Turn \subseteq Nat /\ told \subseteq Nat
  BY BoundAssumption DEF TypeOK, Turn
<1>2. \A n \in Polling : n <= turns
  BY DEF Polling, TurnsNumbered
<1> USE <1>1 DEF TypeOK, TurnsNumbered, At, Calls, Cleared, session, threads, counts, ghosts
<1>3. CASE Ask(t)
  <2>1. /\ turns' = turns + 1 /\ turn' = [turn EXCEPT ![t] = turns + 1]
        /\ told' = told /\ suspended' = suspended
    BY <1>3 DEF Ask
  <2>2. suspended # None => suspended.turn \in Nat
    <3>1. suspended # None => suspended \in Prompt
      BY DEF TypeOK
    <3> QED
      BY <3>1, PromptParts, BoundAssumption DEF Turn
  <2>0. \A a \in Nat : (a <= turns => a <= turns + 1) /\ turns + 1 <= turns + 1
    BY <1>1
  <2>3. \A n \in told' : n <= turns'
    BY <2>0, <2>1
  <2>4. ASSUME NEW u \in Thread PROVE turn'[u] <= turns'
    <3>1. turn[u] \in Nat /\ turn[u] <= turns
      BY <1>1
    <3>2. turn'[u] = turn[u] \/ turn'[u] = turns + 1
      BY <2>1
    <3> QED
      BY <2>0, <2>1, <3>1, <3>2
  <2>5. suspended' # None => suspended'.turn <= turns'
    BY <2>0, <2>1, <2>2
  <2> QED
    BY <2>3, <2>4, <2>5 DEF TurnsNumbered
<1>4. CASE BeginTurn(t)
  BY <1>4 DEF BeginTurn
<1>5. CASE Prepare(t)
  BY <1>5 DEF Prepare
<1>6. CASE PrepareFails(t)
  BY <1>6 DEF PrepareFails
<1>7. CASE PassCheckpoint(t)
  BY <1>7 DEF PassCheckpoint
<1>8. CASE StopAtCheckpoint(t)
  BY <1>8 DEF StopAtCheckpoint
<1>9. CASE ReachCheckpoint(t)
  BY <1>9 DEF ReachCheckpoint
<1>10. CASE Suspend(t)
  <2>1. PICK s \in Stage : suspended' = [id |-> prompts + 1, turn |-> turn[t], stage |-> s]
    BY <1>10 DEF Suspend
  <2>2. turns' = turns /\ turn' = turn /\ told' = told
    BY <1>10 DEF Suspend
  <2> QED
    BY <2>1, <2>2
<1>11. CASE TurnFails(t)
  BY <1>11 DEF TurnFails
<1>12. CASE Close(t)
  BY <1>12 DEF Close
<1>13. CASE Complete(t)
  BY <1>13 DEF Complete
<1>14. CASE CompleteMeta(t)
  BY <1>14 DEF CompleteMeta
<1>15. CASE CompleteFails(t)
  BY <1>15 DEF CompleteFails
<1>16. CASE CancelPrompt(t) /\ call'[t] = "cancel"
  <2>1. /\ suspended # None /\ suspended' = suspended /\ turns' = turns
        /\ turn' = [turn EXCEPT ![t] = suspended.turn]
        /\ told' = told \cup Polling
    BY <1>16 DEF CancelPrompt
  <2> QED
    BY <2>1, <1>2
<1>17. CASE ResetCancelled(t)
  BY <1>17 DEF ResetCancelled
<1>18. CASE PutStepAside(t) /\ pc'[t] = "idle"
  BY <1>18 DEF PutStepAside
<1>19. CASE CancelRunning(t) /\ pc'[t] = "idle"
  <2>1. /\ suspended' = suspended /\ turns' = turns /\ turn' = turn
        /\ told' = told \cup Polling
    BY <1>19 DEF CancelRunning
  <2> QED
    BY <2>1, <1>2
<1> QED
  BY <1>3, <1>4, <1>5, <1>6, <1>7, <1>8, <1>9, <1>10, <1>11,
     <1>12, <1>13, <1>14, <1>15, <1>16, <1>17, <1>18, <1>19, PartsOnly

\* A turn that was told stays so until it stops.
LEMMA SetStep ==
    ASSUME TypeOK, Cancelling, PartsKept, WaitsAlone, TurnsNumbered, StillSet,
           NEW t \in Thread, ThreadStep(t)
    PROVE  StillSet'
<1>1. /\ \A u \in Thread : pc[t] \in InAsk /\ pc[u] \in InAsk => u = t
      /\ \A u \in Thread : pc[u] \in InAsk /\ "ask" \in use.may[t] => u = t
  BY TwoParts
<1>2. turns \in Nat /\ told \subseteq Nat
  BY BoundAssumption DEF TypeOK, Turn
<1> USE <1>1 DEF TypeOK, StillSet, InAsk, At, Calls, Cleared, session, threads, ghosts
<1>3. CASE Ask(t)
  <2>1. /\ turns' = turns + 1 /\ turn' = [turn EXCEPT ![t] = turns + 1]
        /\ pc' = [pc EXCEPT ![t] = "asked"]
        /\ told' = told /\ bound' = bound /\ signalled' = signalled
    BY <1>3 DEF Ask
  <2>2. turns + 1 \notin told
    BY <1>2 DEF TurnsNumbered
  <2> QED
    BY <2>1, <2>2
<1>4. CASE BeginTurn(t)
  BY <1>4 DEF BeginTurn
<1>5. CASE Prepare(t)
  BY <1>5 DEF Prepare
<1>6. CASE PrepareFails(t)
  BY <1>6 DEF PrepareFails
<1>7. CASE PassCheckpoint(t)
  BY <1>7 DEF PassCheckpoint
<1>8. CASE StopAtCheckpoint(t)
  BY <1>8 DEF StopAtCheckpoint
<1>9. CASE ReachCheckpoint(t)
  BY <1>9 DEF ReachCheckpoint
<1>10. CASE Suspend(t)
  <2>1. /\ turn' = turn /\ told' = told /\ bound' = bound /\ signalled' = signalled
        /\ pc' = [pc EXCEPT ![t] = "idle"]
    BY <1>10 DEF Suspend
  <2> QED
    BY <2>1
<1>11. CASE TurnFails(t)
  <2>1. /\ pc[t] \in {"check", "work"} /\ pc' = [pc EXCEPT ![t] = "closing"]
    BY <1>11 DEF TurnFails, PartsKept
  <2>2. \A u \in Thread : pc'[u] \notin {"asked", "preparing", "check", "work"}
    BY <2>1, <1>1
  <2> QED
    BY <2>2
<1>12. CASE Close(t)
  BY <1>12 DEF Close
<1>13. CASE Complete(t)
  BY <1>13 DEF Complete
<1>14. CASE CompleteMeta(t)
  BY <1>14 DEF CompleteMeta
<1>15. CASE CompleteFails(t)
  BY <1>15 DEF CompleteFails
<1>16. CASE CancelPrompt(t) /\ call'[t] = "cancel"
  <2>1. /\ suspended # None /\ pc' = [pc EXCEPT ![t] = "cancelling"]
    BY <1>16 DEF CancelPrompt
  <2>2. \A u \in Thread : pc'[u] \notin {"asked", "preparing", "check", "work"}
    BY <2>1 DEF WaitsAlone
  <2> QED
    BY <2>2
<1>17. CASE ResetCancelled(t)
  <2>1. /\ pc[t] = "cancelling" /\ pc' = [pc EXCEPT ![t] = "cancelled"]
    BY <1>17 DEF ResetCancelled
  <2>2. \A u \in Thread : pc'[u] \notin {"asked", "preparing", "check", "work"}
    BY <2>1 DEF WaitsAlone
  <2> QED
    BY <2>2
<1>18. CASE PutStepAside(t) /\ pc'[t] = "idle"
  BY <1>18 DEF PutStepAside
<1>19. CASE CancelRunning(t) /\ pc'[t] = "idle"
  <2>1. /\ pc' = [pc EXCEPT ![t] = "idle"] /\ turn' = turn /\ bound' = bound
        /\ told' = told \cup Polling /\ signalled' = signalled \cup {event}
    BY <1>19 DEF CancelRunning
  <2>2. ASSUME NEW u \in Thread, pc'[u] \in {"asked", "preparing"} PROVE turn'[u] \notin told'
    <3>1. pc[u] \in {"asked", "preparing"}
      BY <2>1, <2>2
    <3>2. \A y \in Thread : pc[y] \in {"check", "work", "closing"} => y = u
      BY <3>1, TwoParts
    <3>3. \A y \in Thread : pc[y] # "consume"
      BY DEF PartsKept
    <3>4. Polling = {}
      BY <3>1, <3>2, <3>3 DEF Polling
    <3> QED
      BY <2>1, <3>1, <3>4
  <2>3. ASSUME NEW u \in Thread, pc'[u] \in {"check", "work"}, turn'[u] \in told'
        PROVE  bound'[u] \in signalled'
    <3>1. pc[u] \in {"check", "work"} /\ turn[u] \in told \cup Polling
      BY <2>1, <2>3
    <3>2. CASE turn[u] \in told
      BY <2>1, <3>1, <3>2
    <3>3. CASE turn[u] \in Polling
      <4>1. PICK y \in Thread : pc[y] \in {"check", "work", "consume"} /\ bound[y] = event
        BY <3>3 DEF Polling
      <4>2. y = u
        BY <4>1, <3>1, TwoParts DEF PartsKept
      <4> QED
        BY <2>1, <4>1, <4>2
    <3> QED
      BY <3>1, <3>2, <3>3
  <2> QED
    BY <2>2, <2>3
<1> QED
  BY <1>3, <1>4, <1>5, <1>6, <1>7, <1>8, <1>9, <1>10, <1>11,
     <1>12, <1>13, <1>14, <1>15, <1>16, <1>17, <1>18, <1>19, PartsOnly

\* While one thread asks and another cancels, no turn passes a checkpoint once the
\* event it polls was set: nothing clears the event of a turn that still runs
\* (PipelineSession.cancel, raise_if_session_turn_cancelled).
THEOREM CancelIsSeen == Spec => SignalSeen
<1>1. Init => Noticed
  <2> SUFFICES ASSUME Init PROVE PartsKept /\ WaitsAlone /\ TurnsNumbered /\ StillSet
    BY DEF Noticed
  <2>1. /\ \A t \in Thread : pc[t] = "idle" /\ turn[t] = 0
        /\ told = {}
    BY DEF Init
  <2>2. /\ turns \in {0, 1}
        /\ suspended # None => busy /\ turns = 1 /\ suspended.turn = 1
    BY DEF Init, Fresh, Restored
  <2> QED
    BY <2>1, <2>2 DEF PartsKept, WaitsAlone, TurnsNumbered, StillSet, InAsk
<1>2. TypeOK /\ Noticed /\ [Next]_vars => Noticed'
  <2> SUFFICES ASSUME TypeOK, Noticed, [Next]_vars PROVE Noticed'
    OBVIOUS
  <2>1. CASE UNCHANGED vars
    BY <2>1 DEF Noticed, Cancelling, Calling, PartsKept, WaitsAlone, TurnsNumbered, StillSet,
                vars, session, threads, counts, ghosts
  <2>2. CASE Next
    <3> PICK t \in Thread : ThreadStep(t)
      BY <2>2 DEF Next, ThreadStep
    <3>1. Cancelling' => Cancelling
      BY UseStep DEF Cancelling, Calling
    <3> QED
      BY <3>1, PartsStep, WaitsStep, NumbersStep, SetStep DEF Noticed
  <2> QED
    BY <2>1, <2>2
<1>3. TypeOK /\ Noticed /\ [Next]_vars => [ \A t \in Thread :
          Cancelling /\ pc[t] = "check" /\ pc'[t] = "work" => turn[t] \notin told ]_vars
  <2> SUFFICES ASSUME TypeOK, Noticed, Next, NEW t \in Thread, Cancelling,
                      pc[t] = "check", pc'[t] = "work"
               PROVE  turn[t] \notin told
    OBVIOUS
  <2>1. PartsKept /\ StillSet
    BY DEF Noticed
  <2>2. PICK s \in Thread : ThreadStep(s)
    BY DEF Next, ThreadStep
  <2>3. PassCheckpoint(s) /\ s = t
    BY <2>1, <2>2, PartsOnly
    DEF TypeOK, At, Calls, Ask, BeginTurn, Prepare, PrepareFails, PassCheckpoint, StopAtCheckpoint,
        ReachCheckpoint, Suspend, TurnFails, Close, Complete, CompleteMeta, CompleteFails,
        CancelPrompt, ResetCancelled, PutStepAside, CancelRunning
  <2> QED
    BY <2>1, <2>3 DEF PassCheckpoint, StillSet
<1> QED
  BY <1>1, <1>2, <1>3, Typing, PTL DEF Spec, SignalSeen
=============================================================================
