# Verification of aether-dialect

aether-dialect turns a question into SQL, runs it, and learns from what the user
says of the answer.  A turn is a long pipeline of language-model calls and
checks; around it stands a stateful core that must survive threads, processes,
crashes and users who change their mind.  This directory holds TLA+ models of
that core, the TLC configurations that check them, and theorems about them that
TLAPS proves.

Source paths below are relative to `src/src/aetherdialect/`.  `PROJECT.json`
maps each definition to the lines it stands for, lists every run with its
properties, every hazard with its line, and, for each property, a plausible bug
in the code that the property catches.

## 1. The system

### Components

| Component | State it keeps | Operations | What makes it correct |
|---|---|---|---|
| **Advisory artifact lock** (`_utils_artifacts.py`) | lock file, sidecar with the holder's pid, per-thread re-entry counts | `artifact_lock`, closing an engine | one holder at a time; no attempt hangs; a dead holder does not block |
| **Write queue** (`_utils_artifacts.py`, `_main_spaces.py`) | `write_queue.jsonl`, one event per line | `emit_write_queue_event`, `drain_write_queue` | no event lost, none applied twice, order kept inside a partition |
| **Partitioned template store** (`_templates.py`) | header, template shards, feedback shards on disk; views with caches and dirty marks in memory | open and repair, add, improve, remove, record and forget feedback, save | what a save returned for is on disk and reachable from the header; ids are unique |
| **Session turn** (`_main_session.py`, `_main_interactive.py`) | busy flag, open prompt, queued answers, cancel event, put-aside step | `ask`, `step`, `cancel`, `reset`, `__exit__`, restore | one turn at a time; an answer goes to its own prompt; a session never sticks |
| **Engine directory** (`_main_init.py`, `_schema_finalize.py`, `_schema_reflect.py`, `_templates_ops.py`, `_templates.py`) | schema graph, manifest, stores, migration map and checkpoint in one directory | open, refresh, gate, apply a map, roll back, prune, restore | what is served, what is saved and what was learned are of one structure |
| **Federation tree** (`_federation_execute.py`, `_main_init.py`, `aetherdialect.py`) | manifest, mappings, composite, artifact manifest, sidecars | compose, publish, recompose, load, replay edits, apply structure | a reader is served one publication; a failed replacement leaves no trace |
| **Federated turn** (`_pipeline_execute.py`, `_federation_execute.py`) | workers, frames, contexts, registered statements | run waves, batches and steps, cancel, time out, combine | a cancelled turn stops; frames of one turn are never mixed with another's |
| Manifest (`_utils_artifacts.py`) | `artifact_manifest.json` | read, write | never torn, never behind the schema it names |
| Schema publication (`_schema_reflect.py`, `_schema_graph.py`, `_schema_profile.py`) | schema cache and manifest as a pair | reflect, profile, save the pair | readers see a pair that existed |
| Finalization and overrides (`_schema_finalize.py`) | override document and audit log | apply, propose, replay | document and audit agree |
| Owner and consumer pinning (`_main_init.py`, `_main_spaces.py`) | role, pinned graph, a reader's store | open, reload | consumers never publish structure |
| Template trust (`_templates_ops.py`, `_pipeline_generate.py`) | trust and evidence of a template | accept, reject, revalidate | trust rises only on evidence |
| AetherSpaces (`_main_spaces.py`, `_templates.py`) | space documents, learning partitions | create, rename, delete, merge | a partition belongs to one space |
| Federation planning (`_federation_plan.py`, `_federation_compose.py`) | none across calls | translate one query into member steps | drivers come before what they reduce |
| Statement execution (`_pipeline_execute.py`, `_dialect*.py`) | connections, in-flight statements | run with a deadline, cancel | a timed-out connection is not reused |
| LLM provider (`_llm_provider.py`) | clients, budgets | call with retries | bounded retries |
| Seed warm-up (`_seed_warmup.py`) | progress file | warm up, resume | work done once |
| Knowledge overlay (`_knowledge_*.py`) | claims | merge, join, expire | precedence is a total order |
| Intent, SQL generation, validation, question simulation, data quality, sandbox, facade, contracts | none across calls | transformations and wiring | out of scope of a state model |

### How they interact

A session's `ask` starts a turn.  The facade gives writer turns the instance's
writer lock around learning.  At its start a writer turn **drains the write
queue** under the directory's **artifact lock**; a drained event changes a
**template store** view, which is saved under the artifact lock of the store's
own directory.  Reader turns never write a store: they append events to the queue
under the lock.  Several processes may share an artifacts directory; they meet
only in files, so the lock, the queue, the header file and the manifest are the
whole of their protocol.  A suspended session can be serialized and restored in
another process.  **Opening an engine** is where most of its files meet: the owner
reads the snapshot, rebuilds the graph from the catalog and saves it with the
manifest, applies a migration map under the directory lock, passes the gate,
prunes the stores of other graphs and loads its own; a consumer pins the saved
graph and loads.  Every later save of a store rewrites the manifest too.  A
**federation** composes the graphs of its members and keeps a tree of its own; a
federated turn sends steps to the members' connections from worker threads.
`AsyncPipelineSession` runs each call on a worker thread, so
the calls of one session interleave inside the process.

### What is hard

- **Interleaving**: the lock protocol is four system calls wide on either side;
  `cancel` and `__exit__` come from other threads and touch the attributes of a
  running turn without a lock.
- **Crashes**: a store is several files replaced one by one; the queue is
  rewritten in place after the stores are saved.
- **Partial failure**: one of several stores of a drain cannot be saved; one
  line of a batch raises; a pipeline raises inside or outside its handlers.
- **Stale state**: caches with a limit, views of a store that another process has
  saved, events produced for a schema graph that is gone.
- **Ordering**: deferred, kept and unread lines are put back and must not overtake
  one another.
- **Sequences of legal calls**: a map that outlives the opening it was written
  for, a structure that changes and changes back, a directory left by an opening
  that died, an edit between two publications.
- **Timeouts**: lock deadlines, stale-lock breaking, the time to live of a
  suspended turn.

## 2. The modules

| Module | Role |
|---|---|
| `AbstractLock` | what a lock promises: at most one thread inside, every try ends |
| `ArtifactLock` | the lock file protocol, one system call per step |
| `WriteQueue` | producers, draining writers, the queue file, effects in memory and on disk |
| `TemplateStore` | views, caches, the merging save, the commit file by file, repair |
| `SessionTurn` | one session object and the threads that call its methods |
| `EngineTree` | the artifact directory of one engine across openings, migrations, deaths and restarts |
| `FederationTree` | the files of a federation, its publications and its readers |
| `FederatedTurn` | the thread of a federated turn, its workers and a caller that cancels |
| `MC<module>` | the constants of the instances that TLC checks |
| `<module>Proofs`, `WriteQueueOrderProofs` | the theorems and their proofs |

Each component module stands alone and abstracts its neighbours to what it needs
of them: `WriteQueue` and `TemplateStore` use one variable `lock` where the code
enters `artifact_lock`, which is justified by `ArtifactLock` on Windows only (see
section 5); `WriteQueue` counts how often an event's effect reached a store and
leaves to `TemplateStore` how a store reaches the disk; `EngineTree` takes a save
of a store as one, except that of a remap, which has a step for the header and one
or more for the rows; `FederatedTurn` keeps of a member's step how it is queued,
registered, sent, answered and cancelled.

### ArtifactLock

`path` is the inode at the lock path, `fd[t]` the file a thread has open,
`owner[i]` the thread to which the operating system has granted inode `i`,
`content` and `sidecar` the pids in the lock file and in `<lock>.holder`, `depth`
the re-entry map, `retried` and `expired` the two locals of `_file_lock` that
steer its loop.  The program counter has one value per point at which another
thread may come between two system calls.

| Action | Code |
|---|---|
| `Enter`, `EnterNested`, `LeaveNested` | `artifact_lock` and its re-entry count |
| `OpenLock`, `TryLock`, `LockBusy`, `TimeOut`, `Poll` | the wait loop of `_file_lock` |
| `FindStale`, `BreakClose`, `BreakUnlink`, `BreakUnstamp` | breaking a lock whose holder looks dead |
| `StampSidecar`, `StampFails`, `FillLockFile` | `_write_lock_metadata` |
| `Leave`, `Unlock`, `CloseLock`, `UnlinkLock`, `RemoveSidecar` | the `finally` block |
| `OwnerClose`, `OwnerUnlink`, `OwnerUnstamp` | `release_close_resources` |
| `Crash` | the operating system closes a dead process's descriptors; files stay |

The platforms differ in what `unlink` may remove: on Windows it fails on an open
file, on POSIX it removes the name of a file that others may hold locked.

### WriteQueue

`queue` is the file.  A drain's locals are `batch` (the lines still to apply),
`tail` (bytes beyond the limit), `deferred` and `pending` (lines to put back),
`checkpoint` (the stores as they were) and `saves`.  `unsaved[w][s]` are effects
that writer `w` holds in memory for partition `s`; `learned[e]` counts how often
the effect of `e` reached the disk.  `emitted`, `dropped` and `failures` are
history.  Feedback waits for the save that ends the drain; an accept or a
rejection saves its store itself, with all that waits in it; a structure proposal
goes to the override document.  A consumer defers proposals and the lines of
other spaces.  The rewrite is two steps, `Truncate` and `WriteBack`, because
`open(path, "wb")` is.  A writer may die in any step, an application may raise
before or after its effect, loading a partition may raise outside the handler,
and a save may fail.

### TemplateStore

`disk` holds the header (template ids, next id, feedback questions) and the
shards; `view[v]` what a `TemplateStoreView` holds: its header, its two caches in
least-recently-used order, bodies, rows, dirty marks.  A body is the set of marks
of the changes made to it, so that "this change is on disk" can be said of every
change.  Loading, eviction (which flushes a dirty feedback shard but passes over
dirty template shards), reservation of ids, the merge of a save with what is on
disk, the commit (header first, then one shard after another) and the repair on
opening are operators on views, and an action per operation applies them.
`keep`, `drop` and `durable` record what saves owe the disk.  How the store is
used (which sessions run, which operations they call, how large caches are) is
the variable `use`, chosen once in `Init`; the guards of the properties
name the uses they speak of.

### SessionTurn

The seven attributes of the session are variables under their own names or close
to them.  A thread's call is a program counter with the locals it read: the turn
it works for, the event its pipeline polls, the prompt it resumes.  Threads
interleave between accesses to the attributes, as worker threads do; only the
busy flag is tested and set under a lock.

| Actions | Code |
|---|---|
| `Ask`, `BeginTurn`, `Prepare` | `ask`, the start of `_drive_question_turn` |
| `ReachCheckpoint`, `PassCheckpoint`, `StopAtCheckpoint` | `raise_if_session_turn_cancelled` between stages |
| `Suspend`, `Complete`, `CompleteMeta`, `Close` | how a turn ends or waits |
| `PrepareFails`, `TurnFails`, `CompleteFails` | an exception before, in and after the pipeline's handlers |
| `Expire`, `TakeStepPutAside`, `Answer`, `Resume`, `ResumeNothing`, `Consume`, `ConsumeMismatch` | `step` |
| `CancelPrompt`, `ResetCancelled`, `PutStepAside`, `CancelRunning` | `cancel`, on an open prompt or a running turn |
| `Leave`, `Reset` | `__exit__`, `reset` |

How a session is used - which methods each thread calls, and where pipelines
raise - is the variable `use`, chosen once in `Init` from the constant `Use`.  One
run thus covers several uses, and a property names the uses it speaks of
(`Alone`, `Asking`, `Cancelling`).

### EngineTree

A structure of the catalog is a version: equal versions have equal probes,
hashes and schema graph ids, and any two differ by renamings, the drift for
which a remap exists.  `graph`, `manifest`, `store`, `map` and `checkpoint` are the
files; a manifest is an id and the version its hashes are of, a store a header id
and the versions whose names its templates use.  `work[p]` holds the locals of an
opening: the snapshot `was`, the graph `built`, the spaces left `todo`, the space
whose rows a remap is rewriting in `rows`.  Of a store, `whole` is history: FALSE from
the moment a remap has replaced its header until all its rows are replaced too.

| Action | Code |
|---|---|
| `Start`, `RestoreLeftover` | the snapshot, and `restore_leftover_migration_checkpoints_on_init` or, for a refresh, `collect_orphaned_migration_checkpoints` |
| `Build`, `SaveGraph`, `SaveManifest`, `SaveFails` | `build_schema_graph_with_diff` and the pair it saves |
| `NoMap`, `StaleMap`, `MapRefused` | `validate_schema_migration_map` and `abort` |
| `BeginMap`, `CopyFiles`, `Wipe`, `EndMap`, `MapFails`, `Rebuild` | `apply_schema_migration_map`, its checkpoint and the second build |
| `RemapHeader`, `RewriteRows` | `_remap_templates_in_view` and the save of what it leaves: the header with the new id, the shards, the manifest |
| `GatePasses`, `GateRefuses` | `classify_migration_tier` |
| `Policy`, `BeginPolicy`, `EndPolicy`, `PolicyFails` | `apply_migration_policy`, which reads the manifest again and may wipe, or remap without a checkpoint |
| `Prune`, `Load`, `NoSnapshot` | pruning and loading; a store of another graph is reconciled and saved |
| `Learn`, `ReadManifest`, `WriteManifest` | a save of a store, which ends by rewriting the manifest |
| `SupplyMap`, `Drift`, `Close`, `Crash` | the operator, the catalog, and the end of a process |

The integrator's guide allows one owner process, so there is one.  It either has
the directory to itself, and then the catalog changes only between two openings
(`use = "alone"`), or shares it with consumers, with changes at any time
(`"shared"`).  A map is put in place while no owner is opening.  `Build` may remove a
saved graph that no longer fits the scope, the notes or its own hashes, and does so
without the lock.  The id a template save finds under the process-wide default path is
left out.

### FederationTree

`files` are the four files of a publication (the quad) and the schema cache that
`apply_structure` writes; contents are what the hash comparisons tell apart: members,
revision of their catalogs, joins and logical names.  A replacement is a `job`: the
files to put, those done, the backups.  `Replace` is one `os.replace`, `Fails` and
`Restore` the roll-back, `RestoreFails` a roll-back that fails in its turn.
`OwnerOpens` composes and begins a publication; where `PolicyActs` the migration policy
has by then replaced the artifact manifest by one that declares no federation
(`Restamped`), and the backups are taken of that.  `ConsumerOpens` loads,
`ReplayEdits` and `SavePair` are the two saves of a replay, `ApplyStructure` leads to
the recomposition that `Publishes` accepts or `OwnerRefused` refuses.

### FederatedTurn

`pc` is the thread of the turn; `wave` the number of the wave it is in, `steps` and
`batch` the members of that wave whose steps are still to run and under way;
`worker[t][m]` the worker that runs the step of member `m` in turn `t`; `active[m]`
the turn whose statement the member's backend has registered for cancellation.  A
wave of one step is polled every twenty milliseconds, other waves run in pools that are
awaited.

A turn that finds itself cancelled calls `cancel_in_flight_statement` before it ends, on
its own thread (`pc = "cancelling"`): `due[m]` such calls for member `m` are still to be
made, twice for a polled step, once for each member of a pooled batch, once for a step
not yet sent, none before a pooled batch. A call waits for the lock of the member's
backend and reads the statement registered there, whoever's it is (`CancelRead`, `aim`);
it returns when the driver or the server has answered (`CancelReturns`), or raises
(`CancelRaises`). `Served` are the members on PostgreSQL and SQL Server. Their backend
holds that lock while it asks the server who the connection is (`worker =
"registering"`), and to cancel is a statement to the server too, for PostgreSQL on the
very connection that is busy. That a cancelled statement raises needs no action of its
own: any statement may raise at any time (`Answer`).

`ReadContext` and `CancelContext` are the two halves of a caller's `cancel`: the context
it has read may belong to a turn that is over. A worker abandoned by a cancelled turn
stays in `worker` and may send its statement in the next one.

A plan is a record of its waves and, for each member, the drivers whose frames reduce
its step.  Reducing edges go both ways of a join while a stage depends on another in one
direction only (`_federation_plan.py:504`, `:963`), so a driver may well be in a later
wave than the step it drives; that step then runs without the reduction.  `NextBatch` is
the greedy loop of `federation_member_execution_batches` in closed form: of each
connection the first free step, or the first step of all where the drivers go round in a
circle.  `DriversFirst` therefore speaks of the drivers in the waves up to the step's
own, and of waves that are `Orderly`.

## 3. The runs

| Run | Instance | What it shows |
|---|---|---|
| `lock_win32` | 3 threads in 2 processes, both may die, engines may close, re-entry depth 2 | mutual exclusion, and each step is one of `AbstractLock` |
| `lock_posix` | 2 threads in 2 processes, fair | every attempt ends |
| `lock_overtake` | 3 threads, nobody dies or closes | **violation**: two threads inside on POSIX |
| `queue_order` | owner and consumer, feedback before a verdict in two partitions, one failure | nothing lost, nothing twice without a failure, order kept |
| `queue_drained` | a line of each kind, one too long for a drain, one that always raises | every line not behind the poisoned one is settled |
| `store` | one session with 3 ids, 3 changes, 2 failures and caches that hold all; two sessions with views of their own, caches of one, 2 changes, 1 failure | saved changes are durable, removed templates are gone, header first, ids are not reissued, a view opened after a crash is consistent |
| `session_uses` | two threads, five uses, fresh or restored | the six properties of the turn protocol |
| `fed_publish` | one owner, one consumer, three sources, two declarations, one drift, 2 crashes or failures | a reader is served one publication, a replacement is all or nothing but for a manifest that seals the tree, the lock is given back |
| `fed_apply` | the same | **violation**: a federation refuses to recompose after its own structure edit |
| `fed_turns` | three members, two of them on one connection, one reduced by another, the third on a server that is asked to cancel; four plans, two turns, at most two steps at a time | a cancelled turn stops soon, and ends if no server has to answer; batches keep connections and drivers apart, turns are told truly, nobody is left at work |
| `engine_open` | three structures; the owner alone with 3 changes and 2 crashes or failures; an owner and a consumer with one of each | a failed map is undone, templates of whole stores fit the graph and are kept, the graph is replaced under the lock or removed by a build |
| `engine_drift` | the owner alone, nothing fails | **violation**: a change of structure does not stop the opening |

### Bounds and why they are enough

- *Lock*: three threads are a holder, a waiter with the old file open and a
  newcomer, the most that any violation of the protocol needs; two processes make
  a lock stale; four inodes let each thread create a file while an unlinked one
  is held.  Inodes are interchangeable, so they are symmetric.
- *Queue*: two writers of different roles and two events in each of two
  partitions give every pair of events both orders of emission; the drain limit
  of two lines leaves a tail behind every batch; one failure is enough for each
  single fault, and after it a full recovery.
- *Store*: two partitions of each kind, one of them with two templates, reach
  every combination of cached, dirty and evicted; caches of one force eviction at
  each load; two failures let a save fail and its repetition crash.
- *Engine*: three structures let a map's source, the snapshot and the catalog be
  three different ones; three changes lead away, further and back; two faults let an
  application die and its repetition fail.  Structures are interchangeable, so
  they are symmetric.  Beside a consumer one change and one fault suffice for what
  is claimed there, which is about a single section of the lock.
- *Federation*: of three sources one can leave while two still join; two faults
  let a replacement fail and its roll-back fail as well.
- *Federated turn*: two members on one connection and a third that one of them
  reduces give batches of one, two and three; a second turn meets the worker that
  the first one left, which may hold the lock the second one's cancellation needs.
  One of the members is `Served`, so that each kind is polled and is in a pool.
- *Session*: two threads are enough for every check-then-act pair in the class;
  two turns tell a turn from its successor, two prompts a prompt from the next.

`MaxFailures`, `MaxFaults`, `MaxDrift`, `MaxDepth`, `MaxId`, `MaxMarks`, `MaxTurns`,
`MaxPrompts` and the finite `Event` and `Inode` are the bounds; each is a constant and a guard.

### Fairness

- `lock_posix`: a thread inside `_file_lock` runs on (weak fairness of its own
  steps) and its deadline comes.  No holder is made to leave, no process is made
  to try, no process dies by fairness: the loop polls with a sleep, so a thread
  does run on whatever others do.
- `queue_drained`: writers keep taking turns (`SF(BeginDrain)`, strong because the
  lock may be taken and freed between two looks) and a drain that has begun runs
  to its end (`WF(Drain)`: it is a loop over a finite batch).  Producers, failures
  and crashes have no fairness.
- `fed_publish`: a process that is not killed carries a replacement it has begun to
  its end (`WF(Commit \/ Finish)`: a loop over at most four files).  Opening,
  failing and dying have no fairness.
- `fed_turns`: the thread of the turn runs on (`WF(Coordinate)`), through calls of a
  driver that stay in the process too.  No member is ever made to answer, neither to a
  statement nor, where the server is asked (`Served`), to its registration or
  cancellation: `CancelledStepEnds` holds because the thread polls, for turns none of
  whose members still to answer is `Served`.
- Nothing else is a liveness property.  A turn of a session waits for people.

Runs with `CHECK_DEADLOCK FALSE` say in the cfg why the system may stop: every
process has died, or a bound on turns, changes or ids is used up.

## 4. The theorems

Each theorem holds for every value of the constants that satisfies the named
assumptions.  Each proof has one step per action of `Next`.

**ArtifactLockProofs** - from `PlatformAssumption`, `ProcessAssumption`,
`NoneAssumption`, `DepthAssumption`.
- `Typing`: `TypeOK`, which is inductive as it stands.
- `WindowsExclusion`: `MutualExclusion` if the platform is Windows, with any
  number of threads, processes, closers and crashes.  Exclusion alone is not
  inductive: a step that unlinks says nothing of who is inside.  The invariant adds
  that a thread inside has open the inode the path names and that this inode is
  granted to it, which the failure of `unlink` on open files preserves.
- `WindowsRefinement`: `ImplementsAbstractLock`, from the same invariant.

**SessionTurnProofs** - from `UseAssumption`, `BoundAssumption`,
`StageAssumption`, `NoneAssumption`.
- `Typing`: `TypeOK`.
- `NeverStuck`: `Reusable`.  Its invariant `Owed` says who is answerable for a busy
  session: a call on its way, or an open prompt.
- `StageDropped`: `StageOnlyWhileResuming`, by `StageHeld`: the expected stage is
  that of a running resumed turn.
- `AskersExclude`: `AskersTakeTurns`, and `AnswersMatch`: `AnswersItsPrompt`, by
  `Served`: of the askers and the one stepper only one is past the busy test, an
  open prompt excludes all of them, and the queue holds at most the answer the
  stepper has just given.  For a single caller that may also cancel and reset, the
  invariant is `Attended`.
- `OutcomeIsOwn`: `OwnOutcome`, by `Attended` for the single caller, and where
  nobody cancels by `ToldRightly`: no step is ever put aside.
- `CancelIsSeen`: `SignalSeen`, by `Noticed`: a session that waits is busy and no turn
  runs on it, so the reset that ends the cancelling of a prompt clears the event of no
  running turn (`WaitsAlone`); a turn is told only once it polls (`TurnsNumbered`); and
  one that was told has its event set until it stops (`StillSet`).

**WriteQueueProofs** and **WriteQueueOrderProofs** - from `EventAssumption`,
`WriterAssumption`, `LimitAssumption`.
- `Typing`: `TypeOK`, inductive as it stands; the one fact of substance is that the
  part of the file a drain reads is a prefix of it (`HeadLengthType`).
- `EventsKept`: `NothingLost` if `TornRewrites = FALSE` (otherwise a writer that dies
  between `Truncate` and `WriteBack` loses lines, and it fails).  The invariant `Safe` adds that only the holder of the
  artifact lock drains, and `Accounted`: each line of the file is in the drain's
  hands, discarded, learned, or in a memory the drain has promised to save.
- `LearnedOnce`: `ReplayedOnlyAfterFailure`.  The invariant `Once` says that while
  nothing has failed no line occurs twice in the file and in what a drain holds, and
  that a line in the file has left no effect in memory or on disk once no drain is at
  work on it.
- `PartitionsInOrder`: `LearnedInOrder` if `TornRewrites = FALSE`.  The invariant
  `Orderly` follows each event through the system: in the file, in each of the four
  lists of a drain, and in the memory of each partition, an event has those of its
  partition that were appended before it ahead of it, done, or waiting in the same
  memory.  That a consumer leaves whole partitions alone, never single events of one
  (`AloneTogether`), is what keeps the deferred lines from being overtaken.

**EngineTreeProofs** - from `RoleAssumption`, `BoundAssumption`, `NoneAssumption`.
- `Typing`: `TypeOK`.  It is not inductive: the parts `Built` and `Serving` of the
  invariant `Typed` say where an opening has built a graph and an engine serves one.
- `GraphGuarded`: `GraphUnderLock`, by `Holding`: between two steps of a section of
  the lock a process holds it.  The property excepts `Build`, which does not ask.
- For an owner that is the only one (`Owner = {o}`, the case in which the properties
  of the use "alone" say something): `FailedMapLeavesNothing`, `FailedMapUndone`, by
  `Undoable`: while a map is applied the checkpoint is the tree it began with, and the
  manifest is that of the graph built, for a map is only applied after the pair was
  saved; so the manifest each remapped store writes changes nothing;
  `TemplatesAlwaysFit`, `TemplatesFit`, and `FittingKept`, `FittingTemplatesKept`,
  by `Fitting`: the templates of a *whole* store use the names of its header's graph
  only, also in the checkpoint; only the store whose rows are being rewritten, or in
  which a remap has died, is not whole; wherever an opening can still fail and leave
  the engine serving, the store is of the graph served (`Backed`); and an opening that
  has applied a map passes the gate.  Of a store that is not whole the two theorems
  say nothing, and nothing holds (section 5, 20).

**FederationTreeProofs** - from `ProcessAssumption`, `SourceAssumption`,
`FaultAssumption` and `NoneAssumption`; the run has one owner and one consumer, the
theorems any number of each.

- `Typing`: `TypeOK`, which is not inductive: it needs the parts `Composed` (whoever has
  the federation open has a composite in memory) and `SealedWhileWaiting` of the
  invariant of `ReadersServedWhole`, and that every replacement puts contents of the
  right kind into each file (`PutsTyped`, `CommitTyped`).
- `RollbackComplete`: `RolledBack`, by `Rollback`: as long as no restore has failed,
  a file differs from its backup only if it is among those replaced so far.
- `PublishedWhole`: `LastPublication`, by `Publication`: as long as nothing got in
  between, the files - inside the lock the backups - are those of the last
  publication, except that the artifact manifest may be one that declares nothing
  (`Clean`), and a replacement that is not a publication has replaced nothing yet.
  Such a manifest comes from the migration policy of an opening whose publication was
  then rolled back (section 5, 25); over it `Coherent` fails, so that the federation is
  sealed: no reader is served, no owner publishes.
- `ReadersServedWhole`: `ServedWhole`, by `Whole`: an artifact manifest that declares
  a tree carries that tree's own fingerprint (`Own`), on disk, in the backups and in
  what is about to be written.  The second save of a replay could break this, for it
  keeps the declaration of whatever manifest it finds; but the first save has left a
  manifest that declares nothing, and over that one no owner publishes
  (`SealedWhileWaiting`, `SealedStops`).

**FederatedTurnProofs** - from `PlanAssumption`, `ServedAssumption` and
`BoundAssumption`: any plans, any number of members, served or not, connections and
turns.
- `CancelledTurnStops`: `StopsSoon`, by `Checked`: a cancelled turn has begun at most one
  batch since, and while one is about to begin (`pc = "submit"`) none has begun since the
  cancel.
- `Typing`, `OneStatement`, `DriversBeforeDriven`, `TurnIsToldTruly` and
  `WorkersAreWaitedFor`, all by `TurnInv`.  None of these properties is inductive alone;
  the parts of `TurnInv` are: `Numbered`, no turn that has not begun is known to a worker,
  a caller or a cancelled context; `Advance`, the members of the waves begun are the
  steps left, the batch and the frames, no member is both left and begun, and what the
  thread does next fits that; `Told`, while a turn runs its context is cancelled only by
  a caller, and it makes calls to cancel statements only then; `Results`, frames are of
  workers that are done, and only steps begun have workers; `AtRest`, only members of the
  batch are at work, and after the turn at most one, if a caller has cancelled it
  (`LeftBehind`).
- Two lemmas carry the rest: `BatchTaken`, what the partition of a wave into batches
  guarantees for any set of steps left, and `StepOfWorkers`, that every step but the
  submission of a batch only lets workers at work go on.

**TemplateStoreProofs** - from `PartitionAssumption`, `SessionAssumption`,
`BoundAssumption`: any questions, ids, partitions, views, sessions and uses; the run
has two questions, two partitions of each kind, two views and two uses of the store.
- What loading a partition does is said once.  `Kept`, `Counted` and `Visited` are
  recursive functions on an interval.  The library's induction theorems take an
  operator and cannot be used here, so `NatSetInduction` proves induction for sets from the
  well-foundedness of the natural numbers, `UpTo` bounds it, and `Iteration` gives such a
  function its values.  From them follow `Loads` and `Reads`: over any number of loads and
  evictions a changed template partition stays as it is, whatever else is in memory is as
  in the files, and no row comes from nowhere.  `Becomes`, `Changes`, `ChangesFeedback`,
  `Merges` and `IsFresh` do the same for the operations, the merge and an opened view; the
  proofs of the invariants use nothing else of them.
- `Typing`: `TypeOK`, with `Control`: the holder of the lock is the session between merge
  and end of its save, the view of a session at work is loaded, and a view that is not
  loaded is empty.
- `IdsAreNew`: `IdNeverReissued`, by `Ids`: an id that a committed header has named is below
  the counter on disk, one with a body in a view was named or is below that view's counter,
  and a save under way names all it brings.
- `OpensRepaired`: `RepairedWhenOpened`, by `Replaced`: a shard that a save has not to replace
  any more is as the merged view has it.
- `HeadersFirst`: `HeaderFirst`, by `Accounted`: once the header is committed the history
  accounts for all that the save is about to write.
- `Saving`: `SavedIsDurable`, and `Durability`: `StaysDurable`, by `Safe`: a mark that is owed
  or durable has a template or question where it is in the view if its partition is cached,
  in the files and reachable unless the view has changes to that partition, and in the save
  under way.  It needs `Single` (the id a lone session has reserved is new, so the body
  stored under it replaces nothing; after a save nothing is dirty) and `HandedOut` (a new
  mark is owed by nobody).
- `Removal`: `RemovedIsGone`, by `Gone`: a mark that was removed is in no row and in no body
  of the view or of a save under way, and in a shard only where the view has changes to
  save.  It needs `OnePlace`, that a mark never is at two templates: otherwise
  removing one would leave it at the other.  `ComesStep` is the lemma behind that:
  only a mark that is just handed out comes to a template or question.

What stays with TLC: liveness (`AttemptEnds`, `EventuallyDrained`, `LockReleased`,
`CancelledStepEnds`) and everything about `ENABLED`, which TLAPS does not do;
and the POSIX half of the lock, where exclusion fails.  No module uses a `RECURSIVE`
operator.

## 5. What the models showed

Most of what the code and its documentation promise holds.  These do not; those in
bold have a run, and the steps of the others are read off the model and the code.

1. **Two holders on POSIX** (`lock_overtake`, `_utils_artifacts.py:658`).  Release is
   unlock, close, unlink.  A waiter that has the file open locks it after the
   unlock; the releaser then unlinks it; a newcomer creates and locks another.
2. *Lost queue lines* (`_main_spaces.py:3895`, `TornRewrites = TRUE`).  The queue is rewritten
   in place.  A writer that dies between truncation and write loses the lines it
   deferred, kept or had not read.
3. *Feedback missing from the header* (`_templates.py:760`).  Eviction
   writes a dirty feedback shard and clears its mark, so the save that follows does
   not add its questions to the header's index.
4. *Forgotten feedback returns* (`_templates.py:3646`).  The merge
   adds and replaces questions and never removes one.
5. *Two turns in flight* (`_main_session.py:2157`).  A failing turn
   resets and releases the session twice; the second time it may free a turn that
   another thread has started in between.
6. *Cancel lost at the start* (`_main_session.py:2082`).  Between setting the busy flag
   and installing the turn's own event, `cancel` sets an event that nobody polls.
   It answers True and the turn runs on.  `SignalSeen` speaks of a turn that polls
   its event already.
7. *Exit takes its cancel back* (`_main_session.py:1246`).  `__exit__` cancels and then
   resets, and the reset clears the event, perhaps before the turn on another
   thread has looked at it.
8. *A cancelled step delivered to a later turn* (`_main_session.py:1262`).  `cancel` puts
   the cancelled step aside after it has freed the session; a turn begun in between
   gets it.  `OwnOutcome` therefore speaks of one caller, or of callers who do not
   cancel.
9. *Two steppers* (`_main_session.py:2193`).  Two `step` calls may both queue an answer
   to one prompt; the one that then finds no prompt releases the session of the
   turn the other is running.
10. *Stuck after an early exception* (`_main_session.py:2100`).  Loading resources and
    draining stand outside the handlers of a turn; an exception there leaves the
    busy flag set.  `Reusable` speaks of uses in which only pipelines raise.
11. *A consumer's starved lines* (`_main_spaces.py:3833`).  Deferred lines go back to the
    head of the file.  When they fill the drain limit, a consumer's own lines behind
    them are not read until an owner drains.  `EventuallyDrained` assumes that all
    writers take turns.
12. *Two sessions on one view* (`_templates.py:3681`).  The end of a save clears the dirty
    marks, including those another thread has set since the merge; the other save
    then writes nothing.  In the run `store` each session has a view of its own.

Opening an engine:

13. **The migration gate never sees a drift** (`engine_drift`, `_main_init.py:3557`).
    `build_schema_graph_with_diff` has saved the new graph and a manifest with its
    hashes (`_schema_finalize.py:4418`, `_schema_reflect.py:3412`) when the gate reads
    that manifest and compares it with the same graph.  The owner serves, and
    pruning removes the templates of the old structure.  `abort` and a wrong map stop
    one opening only: the next finds the map stale, removes it and serves.
14. *The gate that does fire* (`_schema_reflect.py:3364`).  After a death between the two
    renames of the pair the manifest is the old one, and every later opening is
    refused until a map is supplied, though nothing is left to migrate.  If the
    manifest was missing altogether, everything passes.
15. *A checkpoint that holds nothing yet* (`_templates_ops.py:2273`).  The directory is
    made before the manifest is copied into it.  A process that dies in between
    leaves one that the next opening restores from: stores and graph are removed.
    A consumer that sees it in that moment waits for the lock and then does the same
    to what the owner has just finished (`_templates.py:1855`).
16. *A checkpoint removed under its user* (`_templates.py:1845`).  A filled checkpoint
    matches the manifest until the application ends, so another opening removes it
    at once, without the lock; an application that then fails rolls back to nothing.
    For the same reason a process that dies in the middle of an application leaves a
    checkpoint that is discarded, not restored.
17. *A stale manifest written back* (`_templates.py:1509`).  A store is saved under the
    lock of the store; the manifest it rewrites at the end is the owner's.  A
    consumer that read it before a publication puts the old hashes back: the owner's
    unchanged catalog is refused at the gate, or, between gate and policy, what was
    learned is cleared.
18. *A consumer changes the owner's store* (`_main_init.py:3618`).  Opening loads the
    master space in either role, and a store of another graph is reconciled with the
    consumer's part of the graph and saved.
19. *A refused map stays* (`aetherdialect.py:1697`).  `apply_migration_map` writes the
    file, then validates it against the snapshot and its own graph, which agree, so
    any renaming is refused; the next refresh applies it.

20. *A remap that dies among its rows* (`_templates.py:3580`).  The save of a remapped
    store replaces the header, which has the new id, before the shards.  A process that
    dies in between leaves old rows under the new id.  The checkpoint is not restored,
    although `_templates.py:1841` says "Restore artifacts from incomplete migration
    checkpoints before construction proceeds.": the manifest it holds is the current
    one, for the pair was saved before, so the next opening discards it, and the map as
    stale.  The owner then serves rows that use the old names; or, when the old
    structure has come back, pruning removes rows that fit it
    (`_main_spaces.py:262`).  `TemplatesFit` and `FittingTemplatesKept` except such
    stores; without the exception TLC finds both sequences.
21. *A graph removed without the lock* (`_schema_finalize.py:4472`, `:4514`).  A build that
    cannot use the saved graph deletes it, perhaps inside another process's section of
    the lock.  The guide's single owner makes this harmless but to a consumer that
    opens in that moment.
22. *A roll-back whose copying fails* (`_templates_ops.py:2316`).  The checkpoint is deleted in
    the `finally` clause also when a file could not be put back.

Federations:

23. **A federation that refuses its own edit** (`fed_apply`, `_schema_reflect.py:3412`).
    `apply_structure` saves a schema cache into the federation's directory, whose
    artifact manifest then lacks the federation's hashes; the recomposition that
    follows finds the tree incoherent.
24. *A map that does not help* (`_main_init.py:3985`).  After a refusal for drift the
    replay check refuses again whether or not a map was applied.
25. *A federation sealed by a failed opening* (`_main_init.py:4048`).  The migration
    policy replaces the artifact manifest, outside any backup, by one without the
    federation's hashes; the publication follows.  If that fails, the roll-back restores
    every file to what it was after the policy: consumers are refused, and the next
    opening of the owner too, since the tree is incoherent.
26. *A drift taken for an old format* (`_main_init.py:3969`).  When members leave, the
    error of the applied-mappings sidecar is a subclass of the one that means a stale
    format, and the tree is published anew without a refusal.
27. *Roll-back without backups* (`_federation_execute.py:3036`).  If restoring one file
    fails, the remaining backups are deleted; the tree then stays incoherent and
    every opening is refused.
28. *A cancel before the first step* (`_pipeline_execute.py:2423`).  The context the
    session cancels is made when execution starts; a cancel during the preparation
    sets another one.  In a pooled batch a cancel is seen only when some member
    answers, and the batch is then awaited as a whole.
29. *A cancellation that waits for what it cancels* (`_dialect_sqlglot_helper.py:2592`).
    `_execute_federation_source_step_with_cancel` has a worker thread "so cancellation
    can interrupt it", and the integrator's guide (`INTEGRATOR_GUIDE.md:336`) says that
    the coordinator "also cancels any in-flight database statement".  It calls
    `cancel_statement` on the thread of the turn.  There it waits for the lock a worker
    holds while it asks the server for its identity, and for PostgreSQL it sends
    `pg_cancel_backend` on the connection that is busy.  A member that does not answer
    then holds the turn, and so does a worker an earlier turn has left behind.
    `CancelledStepEnds` excepts these members; without the exception TLC finds the turn
    waiting.
30. *A cancellation told as a failure* (`_pipeline_execute.py:2562`).  If the call that
    cancels raises an error of the database, the turn of a polled step is told of a
    partial failure, and any other turn of the raw error (`CancelRaises`), although all
    it did was to be cancelled.

## 6. What is not modelled

Components without a module, with the reason for each, are in `PROJECT.json`: they
are transformations of data inside one call (intents, SQL, validation, knowledge
claims), batches over what is modelled (seed warm-up, question simulation), or one
call with retries (the language model).  Inside the modelled components:

- the value of timeouts and the wording of diagnostics;
- the removal of a queue whose schema graph was replaced, and the several
  directories of a federation's drain;
- the store's bulk replacement, size limits (unset by default) and format upgrades;
- changes of structure that need no map (additions) and drops inside a remap; the
  chain of renamings, which a single engine never records, because the manifest it
  takes the old id from has the new one already;
- the reload of a reader between turns (`_main_spaces.py:3422`), which loads from the
  process-wide default directory instead of the engine's, and the override audit;
- a federation's spill files, plan templates and the editing of declarations;
- a roll-back of a map that fails itself (section 5, 22);
- what an interrupted statement leaves of its connection;
- two locks taken one inside the other: a save takes the store's lock and then the
  directory's (`_templates.py:1509`), a drain the directory's and then the store's;
  both waits end at their timeout;
- what a pipeline computes, whose SQL and intents are data; methods of a session
  that only read.

Data races on single attributes do not occur: attribute access is atomic under the
interpreter lock, and the models interleave between accesses.

## 7. The plan

In the order of importance, all of it built: `AbstractLock` and `ArtifactLock`, on which
everything on disk relies; `WriteQueue`, the way learning travels between
processes; `TemplateStore`, where it ends up; `SessionTurn`, what a caller sees;
`EngineTree`, schema publication and migration in one directory; `FederationTree` and
`FederatedTurn`.  What would come next: a composition of the two locks of a save, and
the properties of `SessionTurn` for further mixtures of callers.
