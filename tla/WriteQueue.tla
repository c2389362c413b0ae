----------------------------- MODULE WriteQueue -----------------------------
(***************************************************************************)
(* The deferred-learning queue `write_queue.jsonl` of one artifacts        *)
(* directory: `emit_write_queue_event` appends a line, and every writer    *)
(* turn drains the file at its start (`_drain_write_queue_at_path`).       *)
(*                                                                         *)
(* A drain reads the file, applies line after line to its template stores, *)
(* saves the stores and rewrites the file.  Accepts and rejections save    *)
(* the store themselves; feedback waits in memory for the save at the end. *)
(* A writer may die, a line may raise, a save may fail anywhere between.   *)
(* A store is modelled by how often each event's effect reached the disk   *)
(* (`learned`); what a store holds is the subject of TemplateStore.        *)
(***************************************************************************)
EXTENDS Naturals, FiniteSets, SequencesExt

CONSTANTS
    Event,          \* the lines producers append
    KindOf,         \* "feedback", "verdict" (accept, reject), "override", "junk"
    SpaceOf,        \* the learning partition an event names
    GraphOf,        \* the schema graph an event was produced for
    SizeOf,         \* the length of its line
    Space,
    Graph,
    Writer,         \* processes that drain
    Consumer,       \* the writers with schema role CONSUMER
    HomeSpace,      \* the active space of each writer
    LiveGraph,      \* the schema graph each writer has loaded
    Poison,         \* events whose application raises every time
    DrainLimit,     \* WRITE_QUEUE_MAX_BYTES_PER_DRAIN
    FileCap,        \* write_queue_max_file_bytes
    TornRewrites,   \* whether a writer may die inside the final rewrite
    MaxFailures,    \* bound on crashes and failed calls in a behaviour
    None

Kinds == {"feedback", "verdict", "override", "junk"}

ASSUME EventAssumption ==
    /\ KindOf \in [Event -> Kinds]
    /\ SpaceOf \in [Event -> Space]
    /\ GraphOf \in [Event -> Graph]
    /\ SizeOf \in [Event -> Nat \ {0}]
    /\ Poison \subseteq Event
ASSUME WriterAssumption ==
    /\ Consumer \subseteq Writer
    /\ HomeSpace \in [Writer -> Space]
    /\ LiveGraph \in [Writer -> Graph]
    /\ None \notin Writer
ASSUME LimitAssumption ==
    /\ DrainLimit \in Nat \ {0} /\ FileCap \in Nat /\ MaxFailures \in Nat
    /\ TornRewrites \in BOOLEAN

VARIABLES
    queue,          \* the lines of write_queue.jsonl
    lock,           \* the writer inside artifact_lock, or None
    pc,             \* where each writer's drain is
    batch,          \* to_process, from the current line on
    tail,           \* the bytes beyond the limit
    deferred,       \* deferred_lines
    pending,        \* pending_suffix
    unsaved,        \* per writer and space, effects in memory but not on disk
    checkpoint,     \* the same, when the drain began
    saves,          \* stores_to_save
    learned,        \* how often each event's effect reached the disk
    emitted,        \* every line ever appended, in order
    dropped,        \* lines the code discards on purpose
    failures        \* crashes and failed calls so far

drain == <<batch, tail, deferred, pending, checkpoint, saves>>
vars == <<queue, lock, pc, drain, unsaved, learned, emitted, dropped, failures>>

\* Type invariant: the file and every local of the drain hold events.
TypeOK ==
    /\ queue \in Seq(Event) /\ emitted \in Seq(Event)
    /\ lock \in Writer \cup {None}
    /\ pc \in [Writer -> {"idle", "read", "line", "persist", "torn"}]
    /\ {batch, tail, deferred, pending} \subseteq [Writer -> Seq(Event)]
    /\ unsaved \in [Writer -> [Space -> SUBSET Event]]
    /\ checkpoint \in [Writer -> [Space -> SUBSET Event]]
    /\ saves \in [Writer -> SUBSET Space]
    /\ learned \in [Event -> Nat]
    /\ dropped \subseteq Event
    /\ failures \in 0 .. MaxFailures

Nothing == [w \in Writer |-> << >>]
NoEffects == [s \in Space |-> {}]

Init ==
    /\ queue = << >> /\ emitted = << >>
    /\ lock = None
    /\ pc = [w \in Writer |-> "idle"]
    /\ batch = Nothing /\ tail = Nothing /\ deferred = Nothing /\ pending = Nothing
    /\ unsaved = [w \in Writer |-> NoEffects]
    /\ checkpoint = [w \in Writer |-> NoEffects]
    /\ saves = [w \in Writer |-> {}]
    /\ learned = [e \in Event |-> 0]
    /\ dropped = {}
    /\ failures = 0
-----------------------------------------------------------------------------
At(w, from, to) == pc[w] = from /\ pc' = [pc EXCEPT ![w] = to]

Fail == failures < MaxFailures /\ failures' = failures + 1

Bytes(lines) == FoldSeq(LAMBDA e, n : SizeOf[e] + n, 0, lines)

\* Whole lines that fit under the limit, counted from the head of the file.
HeadLength(lines) ==
    Cardinality({n \in 1 .. Len(lines) : Bytes(SubSeq(lines, 1, n)) <= DrainLimit})

\* emit_write_queue_event; a full file refuses the line with a diagnostic.
Emit(e) ==
    /\ lock = None
    /\ e \notin ToSet(emitted)
    /\ Bytes(queue) + SizeOf[e] <= FileCap
    /\ queue' = Append(queue, e)
    /\ emitted' = Append(emitted, e)
    /\ UNCHANGED <<lock, pc, drain, unsaved, learned, dropped, failures>>

\* A wrong variant: the drain does not take the artifact lock.
BeginDrainUnlocked(w) ==
    /\ At(w, "idle", "read")
    /\ lock' = w
    /\ UNCHANGED <<queue, drain, unsaved, learned, emitted, dropped, failures>>

BeginDrain(w) ==
    /\ lock = None
    /\ At(w, "idle", "read")
    /\ lock' = w
    /\ UNCHANGED <<queue, drain, unsaved, learned, emitted, dropped, failures>>

FindEmpty(w) ==
    /\ queue = << >>
    /\ At(w, "read", "idle")
    /\ lock' = None
    /\ UNCHANGED <<queue, drain, unsaved, learned, emitted, dropped, failures>>

\* A first line longer than the limit moves the whole file aside.
ArchiveCorrupt(w) ==
    /\ queue # << >>
    /\ HeadLength(queue) = 0
    /\ At(w, "read", "idle")
    /\ lock' = None
    /\ queue' = << >>
    /\ dropped' = dropped \cup ToSet(queue)
    /\ UNCHANGED <<drain, unsaved, learned, emitted, failures>>

ReadQueue(w) ==
    LET n == HeadLength(queue) IN
    /\ n > 0
    /\ At(w, "read", "line")
    /\ batch' = [batch EXCEPT ![w] = SubSeq(queue, 1, n)]
    /\ tail' = [tail EXCEPT ![w] = SubSeq(queue, n + 1, Len(queue))]
    /\ deferred' = [deferred EXCEPT ![w] = << >>]
    /\ pending' = [pending EXCEPT ![w] = << >>]
    /\ checkpoint' = [checkpoint EXCEPT ![w] = unsaved[w]]
    /\ saves' = [saves EXCEPT ![w] = {}]
    /\ UNCHANGED <<queue, lock, unsaved, learned, emitted, dropped, failures>>

-----------------------------------------------------------------------------
(* One line at a time *)

NextLine(w) == pc[w] = "line" /\ batch[w] # << >>

\* Until it ends, a drain leaves the file alone and keeps the lock.
StepOver(w) ==
    batch' = [batch EXCEPT ![w] = Tail(@)] /\ UNCHANGED <<pc, queue, lock, emitted>>

\* A consumer leaves structure proposals and other spaces' lines alone.
LeavesAlone(w, e) ==
    /\ w \in Consumer
    /\ KindOf[e] # "junk"
    /\ KindOf[e] = "override" \/ SpaceOf[e] # HomeSpace[w]

Defer(w) ==
    /\ NextLine(w)
    /\ LeavesAlone(w, Head(batch[w]))
    /\ deferred' = [deferred EXCEPT ![w] = Append(@, Head(batch[w]))]
    /\ StepOver(w)
    /\ UNCHANGED <<tail, pending, checkpoint, saves, unsaved, learned, dropped, failures>>

\* A line without meaning is skipped; one for another schema graph counts as
\* applied and changes nothing.
Discards(w, e) == KindOf[e] = "junk" \/ GraphOf[e] # LiveGraph[w]

\* A wrong variant: a line without meaning is kept for another drain.
KeepMeaningless(w) ==
    /\ NextLine(w)
    /\ ~LeavesAlone(w, Head(batch[w]))
    /\ Discards(w, Head(batch[w]))
    /\ deferred' = [deferred EXCEPT ![w] = Append(@, Head(batch[w]))]
    /\ StepOver(w)
    /\ UNCHANGED <<tail, pending, checkpoint, saves, unsaved, learned, dropped, failures>>

Drop(w) ==
    /\ NextLine(w)
    /\ ~LeavesAlone(w, Head(batch[w]))
    /\ Discards(w, Head(batch[w]))
    /\ dropped' = dropped \cup {Head(batch[w])}
    /\ StepOver(w)
    /\ UNCHANGED <<tail, deferred, pending, checkpoint, saves, unsaved, learned, failures>>

Applies(w, e) == NextLine(w) /\ e = Head(batch[w]) /\ ~LeavesAlone(w, e) /\ ~Discards(w, e)

\* A wrong variant: the partition is recorded in place of the event.
RememberPlace(w, e) ==
    /\ unsaved' = [unsaved EXCEPT ![w][SpaceOf[e]] = @ \cup {SpaceOf[e]}]
    /\ UNCHANGED learned

Remember(w, e) ==
    /\ unsaved' = [unsaved EXCEPT ![w][SpaceOf[e]] = @ \cup {e}]
    /\ UNCHANGED learned

Learn(E) ==
    learned' = [e \in Event |-> IF e \in E THEN learned[e] + 1 ELSE learned[e]]

\* Feedback stays in memory; accepts and rejections save the store, with
\* whatever was waiting in it; a structure proposal is written to the schema
\* document.
Effect(w, e) ==
    \/ KindOf[e] = "feedback" /\ Remember(w, e)
    \/ /\ KindOf[e] = "verdict"
       /\ Learn(unsaved[w][SpaceOf[e]] \cup {e})
       /\ unsaved' = [unsaved EXCEPT ![w][SpaceOf[e]] = {}]
    \/ KindOf[e] = "override" /\ Learn({e}) /\ UNCHANGED unsaved

Apply(w) == \E e \in Event :
    /\ Applies(w, e)
    /\ e \notin Poison
    /\ Effect(w, e)
    /\ saves' = IF KindOf[e] = "feedback"
                THEN [saves EXCEPT ![w] = @ \cup {SpaceOf[e]}] ELSE saves
    /\ StepOver(w)
    /\ UNCHANGED <<tail, deferred, pending, checkpoint, dropped, failures>>

\* An exception keeps this line and all behind it, and ends the loop.
StopAt(w) ==
    /\ pc' = [pc EXCEPT ![w] = "persist"]
    /\ pending' = [pending EXCEPT ![w] = batch[w]]
    /\ batch' = [batch EXCEPT ![w] = << >>]
    /\ UNCHANGED <<queue, lock, emitted, tail, deferred, checkpoint, saves, dropped>>

ApplyRaises(w) == \E e \in Event :
    /\ Applies(w, e)
    /\ (e \in Poison /\ UNCHANGED failures) \/ (e \notin Poison /\ Fail)
    /\ StopAt(w)
    /\ UNCHANGED <<unsaved, learned>>

\* The audit sink may raise once the effect is made.
AuditRaises(w) == \E e \in Event :
    /\ Applies(w, e)
    /\ e \notin Poison
    /\ Fail
    /\ Effect(w, e)
    /\ StopAt(w)

\* Loading the partition a line names is outside the handler: an exception
\* there leaves the drain with the file untouched and the memory as it is.
LoadFails(w) ==
    /\ NextLine(w)
    /\ ~LeavesAlone(w, Head(batch[w]))
    /\ KindOf[Head(batch[w])] # "junk"
    /\ Fail
    /\ pc' = [pc EXCEPT ![w] = "idle"]
    /\ lock' = None
    /\ UNCHANGED <<queue, drain, unsaved, learned, emitted, dropped>>

\* A structure proposal that cannot be applied is reported and forgotten.
OverrideRefused(w) == \E e \in Event :
    /\ Applies(w, e)
    /\ KindOf[e] = "override"
    /\ Fail
    /\ dropped' = dropped \cup {e}
    /\ StepOver(w)
    /\ UNCHANGED <<tail, deferred, pending, checkpoint, saves, unsaved, learned>>

EndOfBatch(w) ==
    /\ batch[w] = << >>
    /\ At(w, "line", "persist")
    /\ UNCHANGED <<queue, lock, drain, unsaved, learned, emitted, dropped, failures>>

-----------------------------------------------------------------------------
(* Saving the stores, then the file *)

Unsaved(w) == {s \in saves[w] : unsaved[w][s] # {}}

Persist(w) == \E s \in Unsaved(w) :
    /\ pc[w] = "persist"
    /\ Learn(unsaved[w][s])
    /\ unsaved' = [unsaved EXCEPT ![w][s] = {}]
    /\ UNCHANGED <<queue, lock, pc, drain, emitted, dropped, failures>>

\* A failed save restores the stores of this drain and keeps the file.
PersistFails(w) ==
    /\ saves[w] # {}
    /\ At(w, "persist", "idle")
    /\ Fail
    /\ unsaved' = [unsaved EXCEPT ![w] =
           [s \in Space |-> IF s \in saves[w] THEN checkpoint[w][s] ELSE @[s]]]
    /\ lock' = None
    /\ UNCHANGED <<queue, drain, learned, emitted, dropped>>

\* A wrong variant: the file is rewritten before the stores are saved.
TruncateEarly(w) ==
    /\ At(w, "persist", "torn")
    /\ queue' = << >>
    /\ UNCHANGED <<lock, drain, unsaved, learned, emitted, dropped, failures>>

\* open(path, "wb") empties the file; the lines follow when it is closed.
Truncate(w) ==
    /\ Unsaved(w) = {}
    /\ At(w, "persist", "torn")
    /\ queue' = << >>
    /\ UNCHANGED <<lock, drain, unsaved, learned, emitted, dropped, failures>>

\* A wrong variant: the bytes beyond the limit go ahead of the lines read.
RemainderSwapped(w) == tail[w] \o deferred[w] \o pending[w]

Remainder(w) == deferred[w] \o pending[w] \o tail[w]

WriteBack(w) ==
    /\ At(w, "torn", "idle")
    /\ queue' = Remainder(w)
    /\ lock' = None
    /\ UNCHANGED <<drain, unsaved, learned, emitted, dropped, failures>>

\* A dead writer leaves its lock free and its memory lost; it starts again.
Crash(w) ==
    /\ pc[w] = "torn" => TornRewrites
    /\ Fail
    /\ pc' = [pc EXCEPT ![w] = "idle"]
    /\ lock' = IF lock = w THEN None ELSE lock
    /\ unsaved' = [unsaved EXCEPT ![w] = NoEffects]
    /\ UNCHANGED <<queue, drain, learned, emitted, dropped>>

Drain(w) ==
    \/ FindEmpty(w) \/ ArchiveCorrupt(w) \/ ReadQueue(w) \/ Defer(w) \/ Drop(w)
    \/ Apply(w) \/ ApplyRaises(w) \/ AuditRaises(w) \/ LoadFails(w) \/ OverrideRefused(w)
    \/ EndOfBatch(w) \/ Persist(w) \/ PersistFails(w) \/ Truncate(w) \/ WriteBack(w)

Next ==
    \/ \E e \in Event : Emit(e)
    \/ \E w \in Writer : BeginDrain(w) \/ Drain(w) \/ Crash(w)

Spec == Init /\ [][Next]_vars

\* Writers keep taking turns, and a turn's drain runs to its end; nothing makes
\* a producer append, a call fail or a writer die.
Fairness == \A w \in Writer : SF_vars(BeginDrain(w)) /\ WF_vars(Drain(w))

FairSpec == Spec /\ Fairness
-----------------------------------------------------------------------------
Position(e) == CHOOSE i \in 1 .. Len(emitted) : emitted[i] = e

Precedes(e, f) ==
    {e, f} \subseteq ToSet(emitted) /\ Position(e) < Position(f)

\* The drain saves the stores before it gives up the lines: an appended event
\* is still in the file, or its effect is on disk, or the code discarded it on
\* purpose; the lines of a rewrite in progress are in that writer's hands.
NothingLost ==
    \A e \in ToSet(emitted) :
        \/ e \in ToSet(queue) \cup dropped
        \/ learned[e] > 0
        \/ \E w \in Writer : pc[w] = "torn" /\ e \in ToSet(Remainder(w))

\* Deferring, failing, replaying and rewriting never let a later event of a
\* partition reach the disk before an earlier one: users' verdicts on one
\* question keep their order.
LearnedInOrder ==
    [][ \A e, f \in Event :
          /\ learned[f] = 0 /\ learned'[f] > 0
          /\ Precedes(e, f) /\ SpaceOf[e] = SpaceOf[f]
          /\ {KindOf[e], KindOf[f]} \subseteq {"feedback", "verdict"}
          /\ e \notin dropped
          => learned'[e] > 0 ]_vars

\* An event is learned twice only if something failed: the drains of several
\* writers never both apply a line.
ReplayedOnlyAfterFailure == failures = 0 => \A e \in Event : learned[e] <= 1

Blocked(e) ==
    \E p \in Poison : p \in ToSet(queue) /\ (p = e \/ Precedes(p, e))

Settled(e) == learned[e] > 0 \/ e \in dropped

\* Every line is eventually dealt with, unless it stands behind one whose
\* application always raises.
EventuallyDrained ==
    \A e \in Event : e \in ToSet(queue) ~> Settled(e) \/ Blocked(e)
=============================================================================
