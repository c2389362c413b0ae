----------------------------- MODULE SessionTurn -----------------------------
(***************************************************************************)
(* The turn protocol of one PipelineSession (`_main_session.py`): `ask`    *)
(* starts a turn, which runs until it ends or suspends on a prompt, `step` *)
(* answers the prompt and resumes it, `cancel` asks it to stop at its next *)
(* checkpoint, `reset` abandons it.  AsyncPipelineSession runs each call   *)
(* on a worker thread, so calls of several threads interleave between the  *)
(* accesses to the session's attributes; only the busy flag has a lock.    *)
(*                                                                         *)
(* What a turn computes is left out.  A prompt is its stage and a serial   *)
(* number; an answer carries the stage of the prompt it was given for.     *)
(***************************************************************************)
EXTENDS Naturals, FiniteSets, Sequences

CONSTANTS
    Thread,         \* callers of the session
    Use,            \* the ways the session is used, see `use`
    Stage,          \* suspend ids (PIPELINE_SUSPEND_ID_*)
    MaxTurns,       \* bounds on the turns and prompts of a behaviour
    MaxPrompts,
    None

Methods == {"ask", "step", "cancel", "reset", "exit"}

Places == {"prepare", "turn", "complete"}

ASSUME UseAssumption ==
    Use \subseteq [may : [Thread -> SUBSET Methods], faults : SUBSET Places]
ASSUME BoundAssumption == MaxTurns \in Nat /\ MaxPrompts \in Nat
ASSUME StageAssumption == None \notin Stage

VARIABLES
    use,            \* the methods each thread calls, and where calls may raise
    busy,           \* _session_busy
    suspended,      \* _suspended, the prompt the turn waits on, or None
    resuming,       \* _resume_choice_stage_id, or None
    queue,          \* _choice_queue
    event,          \* the Event object in _turn_cancel_event, by its turn
    signalled,      \* the Event objects that are set
    pending,        \* the turn _pending_terminal_step reports on, or None
    turns, prompts, \* how many have begun
    pc,             \* where each thread's call is
    call,           \* the method it is in
    turn,           \* the turn it works for
    bound,          \* the event its pipeline polls
    prompt,         \* the prompt it resumes from
    told,           \* turns whose own event was set while they ran
    outcome         \* per thread, the turn it asked of and the turn it was told of

session == <<busy, suspended, resuming, queue, event, signalled, pending>>
threads == <<pc, call, turn, bound, prompt>>
counts == <<turns, prompts>>
ghosts == <<told, outcome>>
vars == <<use, session, threads, counts, ghosts>>

Turn == 0 .. MaxTurns
Prompt == [id : 1 .. MaxPrompts, turn : Turn, stage : Stage]

ASSUME NoneAssumption == None \notin Turn /\ None \notin Prompt

InTurn == {"asked", "preparing", "check", "work", "consume"}

\* Type invariant.
TypeOK ==
    /\ use \in Use
    /\ busy \in BOOLEAN
    /\ suspended \in Prompt \cup {None} /\ resuming \in Stage \cup {None}
    /\ queue \in Seq(Prompt)
    /\ event \in Turn /\ signalled \subseteq Turn /\ pending \in Turn \cup {None}
    /\ turns \in Turn /\ prompts \in 0 .. MaxPrompts
    /\ pc \in [Thread -> InTurn \cup {"idle", "closing", "answered",
                                       "cancelling", "cancelled", "leaving"}]
    /\ call \in [Thread -> Methods \cup {None}]
    /\ turn \in [Thread -> Turn] /\ bound \in [Thread -> Turn]
    /\ prompt \in [Thread -> Prompt \cup {None}]
    /\ told \subseteq Turn
    /\ outcome \in [Thread -> [asked : Turn, got : Turn]]

Fresh ==
    /\ busy = FALSE /\ suspended = None /\ turns = 0 /\ prompts = 0

\* restore_serialized_state: a new session object that waits on a prompt.
Restored ==
    /\ MaxTurns > 0 /\ MaxPrompts > 0
    /\ busy = TRUE /\ turns = 1 /\ prompts = 1
    /\ \E s \in Stage : suspended = [id |-> 1, turn |-> 1, stage |-> s]

Init ==
    /\ use \in Use
    /\ Fresh \/ Restored
    /\ resuming = None /\ queue = << >> /\ pending = None
    /\ event = 0 /\ signalled = {}
    /\ pc = [t \in Thread |-> "idle"]
    /\ call = [t \in Thread |-> None]
    /\ turn = [t \in Thread |-> 0] /\ bound = turn
    /\ prompt = [t \in Thread |-> None]
    /\ told = {}
    /\ outcome = [t \in Thread |-> [asked |-> 0, got |-> 0]]
-----------------------------------------------------------------------------
At(t, from, to) == pc[t] = from /\ pc' = [pc EXCEPT ![t] = to]

Calls(t, m, to) ==
    /\ m \in use.may[t]
    /\ At(t, "idle", to)
    /\ call' = [call EXCEPT ![t] = m]

Got(t, a, b) == outcome' = [outcome EXCEPT ![t] = [asked |-> a, got |-> b]]

\* Two wrong variants: answers, and the step put aside, outlive their turn.
ClearedKeepingAnswers ==
    /\ suspended' = None /\ resuming' = None /\ pending' = None
    /\ signalled' = signalled \ {event}
    /\ UNCHANGED queue

ClearedKeepingStep ==
    /\ queue' = << >> /\ suspended' = None /\ resuming' = None
    /\ signalled' = signalled \ {event}
    /\ UNCHANGED pending

\* _reset_after_turn
Cleared ==
    /\ queue' = << >> /\ suspended' = None /\ resuming' = None /\ pending' = None
    /\ signalled' = signalled \ {event}

Release == busy' = FALSE
-----------------------------------------------------------------------------
(* ask *)

\* A wrong variant: the busy flag is set without being looked at.
AskAnyway(t) ==
    /\ Calls(t, "ask", "asked")
    /\ turns < MaxTurns
    /\ busy' = TRUE
    /\ turns' = turns + 1
    /\ turn' = [turn EXCEPT ![t] = turns + 1]
    /\ UNCHANGED <<use, suspended, resuming, queue, event, signalled, pending>>
    /\ UNCHANGED <<bound, prompt, prompts, ghosts>>

\* A busy session refuses with SessionActiveError and stays as it is.
Ask(t) ==
    /\ Calls(t, "ask", "asked")
    /\ turns < MaxTurns
    /\ ~busy
    /\ busy' = TRUE
    /\ turns' = turns + 1
    /\ turn' = [turn EXCEPT ![t] = turns + 1]
    /\ UNCHANGED <<use, suspended, resuming, queue, event, signalled, pending>>
    /\ UNCHANGED <<bound, prompt, prompts, ghosts>>

BeginTurn(t) ==
    /\ At(t, "asked", "preparing")
    /\ Cleared
    /\ event' = turn[t]
    /\ UNCHANGED <<use, busy, call, turn, bound, prompt, counts, ghosts>>

\* Resources are loaded, the cancel event is bound, the write queue drained.
Prepare(t) ==
    /\ At(t, "preparing", "check")
    /\ bound' = [bound EXCEPT ![t] = event]
    /\ UNCHANGED <<use, session, call, turn, prompt, counts, ghosts>>

\* Loading the store or draining the queue raises; nothing catches it.
PrepareFails(t) ==
    /\ "prepare" \in use.faults
    /\ At(t, "preparing", "idle")
    /\ UNCHANGED <<use, session, call, turn, bound, prompt, counts, ghosts>>
-----------------------------------------------------------------------------
(* The pipeline, under ask or under step *)

\* A wrong variant: the event is not looked at.
PassUnlooked(t) ==
    /\ At(t, "check", "work")
    /\ UNCHANGED <<use, session, call, turn, bound, prompt, counts, ghosts>>

\* raise_if_session_turn_cancelled
PassCheckpoint(t) ==
    /\ At(t, "check", "work")
    /\ bound[t] \notin signalled
    /\ UNCHANGED <<use, session, call, turn, bound, prompt, counts, ghosts>>

StopAtCheckpoint(t) ==
    /\ At(t, "check", "closing")
    /\ bound[t] \in signalled
    /\ Cleared /\ Release
    /\ UNCHANGED <<use, event, call, turn, bound, prompt, counts, ghosts>>

ReachCheckpoint(t) ==
    /\ At(t, "work", "check")
    /\ UNCHANGED <<use, session, call, turn, bound, prompt, counts, ghosts>>

\* A wrong variant: the serial is taken before it is counted.
SuspendUncounted(t) == \E s \in Stage :
    /\ At(t, "work", "idle")
    /\ prompts < MaxPrompts
    /\ prompts' = prompts + 1
    /\ suspended' = [id |-> prompts, turn |-> turn[t], stage |-> s]
    /\ resuming' = IF call[t] = "step" THEN None ELSE resuming
    /\ UNCHANGED <<use, busy, queue, event, signalled, pending>>
    /\ UNCHANGED <<call, turn, bound, prompt, turns, ghosts>>

Suspend(t) == \E s \in Stage :
    /\ At(t, "work", "idle")
    /\ prompts < MaxPrompts
    /\ prompts' = prompts + 1
    /\ suspended' = [id |-> prompts + 1, turn |-> turn[t], stage |-> s]
    /\ resuming' = IF call[t] = "step" THEN None ELSE resuming
    /\ UNCHANGED <<use, busy, queue, event, signalled, pending>>
    /\ UNCHANGED <<call, turn, bound, prompt, turns, ghosts>>

\* The pipeline raises; the session is freed and then, in `closing`, the error
\* step is built, which resets the session once more.
TurnFails(t) ==
    /\ "turn" \in use.faults
    /\ pc[t] \in {"check", "work", "consume"}
    /\ pc' = [pc EXCEPT ![t] = "closing"]
    /\ Cleared /\ Release
    /\ UNCHANGED <<use, event, call, turn, bound, prompt, counts, ghosts>>

Close(t) ==
    /\ At(t, "closing", "idle")
    /\ Cleared /\ Release
    /\ Got(t, turn[t], turn[t])
    /\ UNCHANGED <<use, event, call, turn, bound, prompt, counts, told>>

\* A wrong variant: the last step is returned without freeing the session.
CompleteBusy(t) ==
    /\ At(t, "work", "idle")
    /\ Got(t, turn[t], turn[t])
    /\ Cleared
    /\ UNCHANGED <<use, busy, event, call, turn, bound, prompt, counts, told>>

\* Under ask, a step put aside for the caller replaces the turn's own.
Complete(t) ==
    /\ At(t, "work", "idle")
    /\ Got(t, turn[t], IF call[t] = "ask" /\ pending # None THEN pending ELSE turn[t])
    /\ Cleared /\ Release
    /\ UNCHANGED <<use, event, call, turn, bound, prompt, counts, told>>

\* A metadata answer is put aside by the pipeline itself and then returned.
CompleteMeta(t) ==
    /\ At(t, "work", "idle")
    /\ call[t] = "ask"
    /\ Got(t, turn[t], turn[t])
    /\ Cleared /\ Release
    /\ UNCHANGED <<use, event, call, turn, bound, prompt, counts, told>>

\* A wrong variant: the expected stage outlives the resumed part of the turn.
CompleteFailsKeepingStage(t) ==
    /\ "complete" \in use.faults
    /\ At(t, "work", "idle")
    /\ UNCHANGED <<use, session, call, turn, bound, prompt, counts, ghosts>>

\* Building the last step raises outside every handler; the `finally` of a
\* resume still drops the expected stage.
CompleteFails(t) ==
    /\ "complete" \in use.faults
    /\ At(t, "work", "idle")
    /\ resuming' = IF call[t] = "step" THEN None ELSE resuming
    /\ UNCHANGED <<use, busy, suspended, queue, event, signalled, pending>>
    /\ UNCHANGED <<call, turn, bound, prompt, counts, ghosts>>
-----------------------------------------------------------------------------
(* step *)

\* A suspended turn older than suspended_session_ttl_seconds is abandoned.
Expire(t) ==
    /\ "step" \in use.may[t] /\ pc[t] = "idle"
    /\ suspended # None
    /\ Cleared /\ Release
    /\ UNCHANGED <<use, event, threads, counts, ghosts>>

TakeStepPutAside(t) ==
    /\ "step" \in use.may[t] /\ pc[t] = "idle"
    /\ pending # None
    /\ pending' = None
    /\ Got(t, IF suspended # None THEN suspended.turn ELSE pending, pending)
    /\ UNCHANGED <<use, busy, suspended, resuming, queue, event, signalled>>
    /\ UNCHANGED <<threads, counts, told>>

\* A reply that does not parse is asked for again and changes nothing.
Answer(t) ==
    /\ Calls(t, "step", "answered")
    /\ pending = None /\ suspended # None
    /\ queue' = Append(queue, suspended)
    /\ UNCHANGED <<use, busy, suspended, resuming, event, signalled, pending>>
    /\ UNCHANGED <<turn, bound, prompt, counts, ghosts>>

Resume(t) ==
    /\ At(t, "answered", "consume")
    /\ suspended # None
    /\ suspended' = None
    /\ resuming' = suspended.stage
    /\ prompt' = [prompt EXCEPT ![t] = suspended]
    /\ turn' = [turn EXCEPT ![t] = suspended.turn]
    /\ bound' = [bound EXCEPT ![t] = event]
    /\ UNCHANGED <<use, busy, queue, event, signalled, pending, call, counts, ghosts>>

\* The prompt is gone by now: the session is freed and an error returned.
ResumeNothing(t) ==
    /\ At(t, "answered", "idle")
    /\ suspended = None
    /\ Release
    /\ UNCHANGED <<use, suspended, resuming, queue, event, signalled, pending>>
    /\ UNCHANGED <<call, turn, bound, prompt, counts, ghosts>>

Fits == queue # << >> /\ resuming \in {None, Head(queue).stage}

\* A wrong variant: the answer is read and left in the queue.
ConsumeAndKeep(t) ==
    /\ At(t, "consume", "work")
    /\ Fits
    /\ UNCHANGED <<use, session, call, turn, bound, prompt, counts, ghosts>>

\* _consume_next_queued_choice, after the drain that a resume starts with.
Consume(t) ==
    /\ At(t, "consume", "work")
    /\ Fits
    /\ queue' = Tail(queue)
    /\ UNCHANGED <<use, busy, suspended, resuming, event, signalled, pending>>
    /\ UNCHANGED <<call, turn, bound, prompt, counts, ghosts>>

ConsumeMismatch(t) ==
    /\ At(t, "consume", "closing")
    /\ ~Fits
    /\ Cleared /\ Release
    /\ UNCHANGED <<use, event, call, turn, bound, prompt, counts, ghosts>>
-----------------------------------------------------------------------------
(* cancel, reset, leaving a with block *)

\* The turns whose pipeline polls the event that is set now.
Polling == {turn[x] : x \in {y \in Thread :
                pc[y] \in {"check", "work", "consume"} /\ bound[y] = event}}

\* cancel() while a turn waits on a prompt: the step that reports it is built,
\* which resets the session, and then put aside for the next call of step.
CancelPrompt(t) == \E m \in {"cancel", "exit"} :
    /\ Calls(t, m, "cancelling")
    /\ suspended # None
    /\ signalled' = signalled \cup {event}
    /\ turn' = [turn EXCEPT ![t] = suspended.turn]
    /\ told' = told \cup Polling
    /\ UNCHANGED <<use, busy, suspended, resuming, queue, event, pending>>
    /\ UNCHANGED <<bound, prompt, counts, outcome>>

ResetCancelled(t) ==
    /\ At(t, "cancelling", "cancelled")
    /\ Cleared /\ Release
    /\ UNCHANGED <<use, event, call, turn, bound, prompt, counts, ghosts>>

PutStepAside(t) ==
    /\ At(t, "cancelled", IF call[t] = "exit" THEN "leaving" ELSE "idle")
    /\ pending' = turn[t]
    /\ UNCHANGED <<use, busy, suspended, resuming, queue, event, signalled>>
    /\ UNCHANGED <<call, turn, bound, prompt, counts, told, outcome>>

\* cancel() while a turn runs.
CancelRunning(t) == \E m \in {"cancel", "exit"} :
    /\ Calls(t, m, IF m = "exit" THEN "leaving" ELSE "idle")
    /\ suspended = None /\ busy
    /\ signalled' = signalled \cup {event}
    /\ told' = told \cup Polling
    /\ UNCHANGED <<use, busy, suspended, resuming, queue, event, pending>>
    /\ UNCHANGED <<turn, bound, prompt, counts, outcome>>

\* __exit__ calls reset whatever cancel returned.
Leave(t) ==
    /\ \/ At(t, "leaving", "idle") /\ UNCHANGED call
       \/ Calls(t, "exit", "idle") /\ suspended = None /\ ~busy
    /\ Cleared /\ Release
    /\ UNCHANGED <<use, event, turn, bound, prompt, counts, ghosts>>

Reset(t) ==
    /\ Calls(t, "reset", "idle")
    /\ Cleared /\ Release
    /\ UNCHANGED <<use, event, turn, bound, prompt, counts, ghosts>>

AskActions(t) == Ask(t) \/ BeginTurn(t) \/ Prepare(t) \/ PrepareFails(t)

TurnActions(t) ==
    \/ PassCheckpoint(t) \/ StopAtCheckpoint(t) \/ ReachCheckpoint(t) \/ Suspend(t)
    \/ TurnFails(t) \/ Close(t) \/ Complete(t) \/ CompleteMeta(t) \/ CompleteFails(t)

StepActions(t) ==
    \/ Expire(t) \/ TakeStepPutAside(t) \/ Answer(t) \/ Resume(t) \/ ResumeNothing(t)
    \/ Consume(t) \/ ConsumeMismatch(t)

StopActions(t) ==
    \/ CancelPrompt(t) \/ ResetCancelled(t) \/ PutStepAside(t) \/ CancelRunning(t)
    \/ Leave(t) \/ Reset(t)

Next == \E t \in Thread :
    AskActions(t) \/ TurnActions(t) \/ StepActions(t) \/ StopActions(t)

Spec == Init /\ [][Next]_vars
-----------------------------------------------------------------------------
(* Ways of using a session that the properties speak of *)

Calling(methods) == {t \in Thread : use.may[t] \cap methods # {}}

AtMostOne(ts) == \A t, u \in ts : t = u

\* One thread makes all calls.
Alone == AtMostOne(Calling(Methods))

\* Threads ask, one of them steps, and no call raises.
Asking ==
    /\ Calling(Methods \ {"ask", "step"}) = {}
    /\ AtMostOne(Calling({"step"}))
    /\ use.faults = {}

\* One thread asks and another cancels.
Cancelling ==
    /\ Calling(Methods \ {"ask", "cancel"}) = {}
    /\ AtMostOne(Calling({"ask"})) /\ AtMostOne(Calling({"cancel"}))

Running == {t \in Thread : pc[t] \in InTurn}

\* Only one turn is in flight per session, and none runs while it waits: what
\* the class promises of every use.
OneTurn == AtMostOne(Running) /\ (suspended # None => Running = {})

\* It is so while the threads ask and one of them steps.
AskersTakeTurns == Asking => OneTurn

\* Whatever the threads call and wherever pipelines raise, a session with no
\* call under way and no open prompt can be asked: the busy flag never sticks.
\* (Calls that raise outside the pipeline do leave it set.)
Reusable ==
    /\ use.faults \subseteq {"turn"}
    /\ \A t \in Thread : pc[t] = "idle"
    /\ suspended = None
    => ~busy

\* An expected stage is set only while a resumed turn runs, in every use: one
\* left behind would turn a later answer away.
StageOnlyWhileResuming ==
    resuming # None => \E t \in Running : call[t] = "step" /\ pc[t] # "asked"

\* The last step a caller gets reports on the turn the caller is in.
OwnOutcome ==
    Alone \/ Calling({"cancel", "exit"}) = {} =>
        \A t \in Thread : outcome[t].asked = outcome[t].got

\* A resumed turn consumes the answer that was given to its own prompt.
AnswersItsPrompt ==
    [][ \A t \in Thread :
          (Alone \/ Asking) /\ pc[t] = "consume" /\ pc'[t] = "work" =>
            Head(queue).id = prompt[t].id ]_vars

\* A turn that is polling an event passes no checkpoint once the event was set.
SignalSeen ==
    [][ \A t \in Thread :
          Cancelling /\ pc[t] = "check" /\ pc'[t] = "work" => turn[t] \notin told ]_vars
=============================================================================
