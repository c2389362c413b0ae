---------------------------- MODULE FederationTree ----------------------------
(***************************************************************************)
(* The artifact tree of a federation (`_federation_execute.py`,            *)
(* `_main_init.py`): manifest, mappings, composite schema and artifact     *)
(* manifest, published together under the directory lock by replacing      *)
(* each file in turn, with backups to roll back from.  Owners compose and  *)
(* publish, consumers load, and both replay the structure edits that the   *)
(* overrides sidecar holds.                                                *)
(*                                                                         *)
(* Contents are abstracted to what the hash comparisons tell apart: the    *)
(* member sources, the revision of their catalogs, the declared joins and  *)
(* the logical names with the sources each is made of.                     *)
(***************************************************************************)
EXTENDS Integers, FiniteSets, SequencesExt

CONSTANTS
    Source,         \* the member engines a federation can have
    Declaration,    \* what an owner may declare: joins and logical names, each
                    \* given by the set of sources it spans
    Owner,          \* processes that open it in the owner role
    Consumer,       \* processes that open it in the consumer role
    Visible,        \* the sources whose tables a consumer's credentials reach
    MaxDrift,       \* bound on changes of the source catalogs
    MaxFaults,      \* bound on crashes and failed file operations
    None

Process == Owner \cup Consumer

ASSUME ProcessAssumption == Owner \cap Consumer = {} /\ None \notin Process
ASSUME SourceAssumption ==
    /\ Visible \subseteq Source /\ IsFiniteSet(Source)
    /\ Declaration \subseteq [joins : SUBSET SUBSET Source, logical : SUBSET SUBSET Source]
ASSUME FaultAssumption == MaxDrift \in Nat /\ MaxFaults \in Nat

VARIABLES
    files,          \* the live files of the tree
    applied,        \* the applied-mappings sidecar: its logical names, or None
    sidecar,        \* the overrides sidecar: the composite it is stamped with
    map,            \* federation_migration_map.json is there
    lock,           \* the process inside artifact_lock(federation_dir), or None
    job,            \* the replacement under way, or None
    pc,
    graph,          \* each process's composite in memory
    catalog,        \* revision of the source catalogs
    published,      \* the tree of the last complete publication
    mixed,          \* since then a crash, a failed restore or a schema cache
                    \* written into the tree left other files than those
    faults

vars == <<files, applied, sidecar, map, lock, job, pc, graph, catalog,
          published, mixed, faults>>

\* The joins and mappings of a declaration that are left for the members S:
\* prune_cross_source_joins and prune_federation_mappings.
Joins(d, S) == {j \in d.joins : j \subseteq S}
Maps(d, S) == {[name |-> l, members |-> l \cap S] : l \in {k \in d.logical : k \cap S # {}}}

JoinSet == SUBSET SUBSET Source
MapSet == SUBSET [name : SUBSET Source, members : SUBSET Source]

\* What a composite is composed of; its fingerprint (schema graph id and
\* effective structural hash) follows from it, role and sensitivity edits do not.
Tree == [members : SUBSET Source, joins : JoinSet, maps : MapSet, rev : 0 .. MaxDrift]
Composite == [of : Tree, edited : BOOLEAN]

\* An artifact manifest written by a federation declares its members and the
\* manifest and mappings hashes; one written for a schema cache does not.
Manifest == [declares : Tree \cup {None}, print : Tree]

Quad == {"manifest", "mappings", "composite", "artifact"}

Content == [manifest |-> JoinSet, mappings |-> MapSet,
            composite |-> Composite, artifact |-> Manifest, schema |-> Composite]
File == DOMAIN Content
FileTree == {t \in [File -> {None} \cup UNION {Content[f] : f \in File}] :
                \A f \in File : t[f] \in Content[f] \cup {None}}

\* A replacement: the files to put, how many are done, and the backups.
Put == UNION {[file : {f}, content : Content[f]] : f \in File}
Job == [puts : Seq(Put), done : Nat, undo : BOOLEAN, lost : BOOLEAN, before : FileTree]

ASSUME NoneAssumption == None \notin Tree \cup Composite \cup Manifest \cup Job

\* Type invariant.
TypeOK ==
    /\ DOMAIN files = File /\ \A f \in File : files[f] \in Content[f] \cup {None}
    /\ applied \in (SUBSET SUBSET Source) \cup {None}
    /\ sidecar \in Composite \cup {None}
    /\ map \in BOOLEAN /\ mixed \in BOOLEAN
    /\ lock \in Process \cup {None} /\ (lock = None <=> job = None)
    /\ job # None => job.done \in 0 .. Len(job.puts) /\ job.undo \in BOOLEAN /\ job.lost \in BOOLEAN
    /\ pc \in [Process -> {"out", "refused", "opening", "opened", "saving",
                           "replayed", "pairing", "ready", "applying", "recompose"}]
    /\ graph \in [Process -> Composite \cup {None}]
    /\ catalog \in 0 .. MaxDrift /\ faults \in 0 .. MaxFaults
    /\ published \in Tree \cup {None}

Init ==
    /\ files = [f \in File |-> None]
    /\ applied = None /\ sidecar = None /\ map = FALSE
    /\ lock = None /\ job = None
    /\ pc = [p \in Process |-> "out"]
    /\ graph = [p \in Process |-> None]
    /\ catalog = 0 /\ published = None /\ mixed = FALSE /\ faults = 0
-----------------------------------------------------------------------------
\* federation_persist_quad_coherent: no file at all, or all four with the
\* hashes the artifact manifest declares.
Coherent(fs) ==
    \/ \A f \in Quad : fs[f] = None
    \/ /\ \A f \in Quad : fs[f] # None
       /\ fs.artifact.declares # None
       /\ fs.artifact.declares.joins = fs.manifest
       /\ fs.artifact.declares.maps = fs.mappings

\* load_federation_composite_graph returns a graph.
Loadable(fs) ==
    /\ Coherent(fs) /\ fs.composite # None
    /\ fs.artifact.print = fs.composite.of

Live(d, S) == [members |-> S, joins |-> Joins(d, S), maps |-> Maps(d, S), rev |-> catalog]

Names(d, S) == {m.name : m \in Maps(d, S)}

\* recorded_federation_source_ids
Recorded == IF files.artifact = None \/ files.artifact.declares = None THEN {}
            ELSE files.artifact.declares.members

ShrinkOnly(S) == Recorded \ S # {} /\ S \subseteq Recorded

\* apply_federation_migration_map rewrites the applied-mappings sidecar.
AppliedBy(d, S) == IF map THEN Names(d, S) ELSE applied

\* validate_federation_mappings_applied_sidecar raises a subclass of the error
\* that initialization takes for a stale artifact format.
TakenForStale(d, S) ==
    /\ Coherent(files) /\ files.artifact # None
    /\ AppliedBy(d, S) # None /\ ~ (AppliedBy(d, S) \subseteq Names(d, S))

\* mappings_replay_matches
ReplayMatches(d, S) ==
    /\ Coherent(files) /\ files.artifact # None
    /\ S \subseteq Recorded /\ files.artifact.declares.rev = catalog
    /\ ShrinkOnly(S) \/ ( /\ files.artifact.declares.joins = Joins(d, S)
                         /\ files.artifact.declares.maps = Maps(d, S))

\* The composite tier gate: every drift here is one that needs a remap.
TierRefuses(d, S) ==
    /\ Coherent(files) /\ files.artifact # None
    /\ files.artifact.print # Live(d, S) /\ ~ ShrinkOnly(S)

\* The owner branch of initialize_aether_federation gets as far as publishing.
Publishes(d, S) ==
    /\ files.artifact = None \/ TakenForStale(d, S) \/ ReplayMatches(d, S)
    /\ ~ TierRefuses(d, S)

\* The migration policy finds a tier other than no change: the composite is not
\* the one of the artifact manifest, or its notes (a choice of the step) are not.
PolicyActs(t, notes) ==
    /\ Coherent(files) /\ files.artifact # None
    /\ files.artifact.print # t \/ notes

\* A wrong variant: the policy keeps the hashes of the federation in the manifest.
RestampedDeclaring(t) == [files EXCEPT !.artifact.print = t]

\* It then stamps the artifact manifest anew, one that declares nothing.
Restamped(t) == [files EXCEPT !.artifact = [declares |-> None, print |-> t]]
-----------------------------------------------------------------------------
(***************************************************************************)
(* The replacement of several files under the directory lock:              *)
(* _commit_federation_staged_replaces and, with the two files of a schema  *)
(* cache, _commit_schema_cache_and_manifest_pair.  `before` stands for the *)
(* backups, taken of the files as the step that begins it leaves them.     *)
(***************************************************************************)
Begin(p, to, puts) ==
    /\ lock = None /\ lock' = p
    /\ pc' = [pc EXCEPT ![p] = to]
    /\ job' = [puts |-> puts, done |-> 0, undo |-> FALSE, lost |-> FALSE,
               before |-> files']

\* A wrong variant: the end forgets the job.
EndKeepingJob(p, to) == lock' = None /\ pc' = [pc EXCEPT ![p] = to] /\ UNCHANGED job

End(p, to) == lock' = None /\ job' = None /\ pc' = [pc EXCEPT ![p] = to]

QuadPuts(t) == <<
    [file |-> "manifest", content |-> t.joins],
    [file |-> "mappings", content |-> t.maps],
    [file |-> "composite", content |-> [of |-> t, edited |-> FALSE]],
    [file |-> "artifact", content |-> [declares |-> t, print |-> t]] >>

SchemaPuts(file, g) == <<
    [file |-> file, content |-> g],
    [file |-> "artifact", content |-> [declares |-> None, print |-> g.of]] >>

\* _commit_federation_composite_hash_pair keeps what the stored manifest declares.
PairPuts(g) == <<
    [file |-> "composite", content |-> g],
    [file |-> "artifact", content |-> [files.artifact EXCEPT !.print = g.of]] >>

Busy(p) == lock = p /\ job # None

Replaced(p) == Busy(p) /\ ~ job.undo /\ job.done = Len(job.puts)

Replace(p) ==
    /\ Busy(p) /\ ~ job.undo /\ job.done < Len(job.puts)
    /\ LET put == job.puts[job.done + 1] IN files' = [files EXCEPT ![put.file] = put.content]
    /\ job' = [job EXCEPT !.done = @ + 1]
    /\ mixed' = (mixed \/ pc[p] # "opening")
    /\ UNCHANGED <<applied, sidecar, map, lock, pc, graph, catalog, published, faults>>

Fault == faults < MaxFaults /\ faults' = faults + 1

\* A wrong variant: a failed replacement is not rolled back.
FailsForGood(p) ==
    /\ Busy(p) /\ ~ job.undo /\ Fault
    /\ job' = [job EXCEPT !.undo = TRUE, !.done = 0]
    /\ UNCHANGED <<files, applied, sidecar, map, lock, pc, graph, catalog,
                   published, mixed>>

\* Staging or a replacement raises; in the federation's own routine an
\* interrupt after the last replacement is rolled back as well.
Fails(p) ==
    /\ Busy(p) /\ ~ job.undo /\ Fault
    /\ job.done < Len(job.puts) \/ pc[p] \in {"opening", "pairing"}
    /\ job' = [job EXCEPT !.undo = TRUE]
    /\ UNCHANGED <<files, applied, sidecar, map, lock, pc, graph, catalog,
                   published, mixed>>

Undoing(p) == Busy(p) /\ job.undo /\ job.done > 0

\* A wrong variant: a file that had no backup is left in place.
RestoreKeepingNew(p) ==
    /\ Undoing(p)
    /\ LET f == job.puts[job.done].file IN
       files' = [files EXCEPT ![f] = IF job.before[f] = None THEN @ ELSE job.before[f]]
    /\ job' = [job EXCEPT !.done = @ - 1]
    /\ UNCHANGED <<applied, sidecar, map, lock, pc, graph, catalog, published, mixed, faults>>

\* One file back from its backup, or removed when it had none.
Restore(p) ==
    /\ Undoing(p)
    /\ LET f == job.puts[job.done].file IN files' = [files EXCEPT ![f] = job.before[f]]
    /\ job' = [job EXCEPT !.done = @ - 1]
    /\ UNCHANGED <<applied, sidecar, map, lock, pc, graph, catalog, published, mixed, faults>>

\* os.replace of a backup raises, and the backups are deleted on the way out;
\* os.remove of a file that had none may fail unnoticed.
RestoreFails(p) ==
    /\ Undoing(p) /\ Fault
    /\ LET lost == job.before[job.puts[job.done].file] # None IN
       job' = [job EXCEPT !.done = IF lost THEN 0 ELSE @ - 1, !.lost = TRUE]
    /\ mixed' = TRUE
    /\ UNCHANGED <<files, applied, sidecar, map, lock, pc, graph, catalog, published>>

\* A wrong variant: the lock is kept when the error is passed on.
RaiseHoldingLock(p) ==
    /\ Busy(p) /\ job.undo /\ job.done = 0
    /\ pc' = [pc EXCEPT ![p] = IF @ = "applying" THEN "ready" ELSE "out"]
    /\ UNCHANGED <<files, applied, sidecar, map, lock, job, graph, catalog, published,
                   mixed, faults>>

\* The error is passed on: the constructor fails, apply_structure leaves its
\* engine open.
Raise(p) ==
    /\ Busy(p) /\ job.undo /\ job.done = 0
    /\ End(p, IF pc[p] = "applying" THEN "ready" ELSE "out")
    /\ UNCHANGED <<files, applied, sidecar, map, graph, catalog, published, mixed, faults>>

\* The process dies; the lock goes with it (ArtifactLock), the files stay.
Crash(p) ==
    /\ pc[p] # "out" /\ Fault
    /\ IF Busy(p)
       THEN LET complete == \A i \in 1 .. Len(job.puts) :
                    files[job.puts[i].file] = job.puts[i].content
            IN /\ End(p, "out")
               /\ IF complete /\ pc[p] = "opening"
                  THEN published' = graph[p].of /\ mixed' = FALSE
                  ELSE /\ mixed' = (mixed \/ files # job.before)
                       /\ UNCHANGED published
       ELSE /\ pc' = [pc EXCEPT ![p] = "out"]
            /\ UNCHANGED <<lock, job, published, mixed>>
    /\ UNCHANGED <<files, applied, sidecar, map, graph, catalog>>
-----------------------------------------------------------------------------
(***************************************************************************)
(* Operations.  initialize_aether_federation holds the lock from the reads *)
(* to the publication; other members come with a new instance, add_engine  *)
(* or remove_engine, another declaration with apply_federation.            *)
(***************************************************************************)
Asks(p, d, S) ==
    /\ p \in Owner /\ lock = None /\ d \in Declaration /\ Cardinality(S) >= 2
    /\ \/ pc[p] \in {"out", "refused", "ready"}
       \/ pc[p] = "recompose" /\ S = graph[p].of.members /\ Joins(d, S) = graph[p].of.joins
                              /\ Maps(d, S) = graph[p].of.maps

\* Before it publishes, apply_federation_composite_migration_policy has rewritten
\* the artifact manifest of a tree it found to differ; the backups keep that one.
OwnerOpens(p) == \E d \in Declaration, S \in SUBSET Source, notes \in BOOLEAN :
    /\ Asks(p, d, S) /\ Publishes(d, S)
    /\ graph' = [graph EXCEPT ![p] = [of |-> Live(d, S), edited |-> FALSE]]
    /\ files' = IF PolicyActs(Live(d, S), notes) THEN Restamped(Live(d, S)) ELSE files
    /\ Begin(p, "opening", QuadPuts(Live(d, S)))
    /\ applied' = AppliedBy(d, S)
    /\ UNCHANGED <<sidecar, map, catalog, published, mixed, faults>>

\* MigrationPendingError
OwnerRefused(p) == \E d \in Declaration, S \in SUBSET Source :
    /\ Asks(p, d, S) /\ ~ Publishes(d, S)
    /\ applied' = AppliedBy(d, S)
    /\ pc' = [pc EXCEPT ![p] = "refused"]
    /\ UNCHANGED <<files, sidecar, map, lock, job, graph, catalog, published, mixed, faults>>

\* Still under the lock: the applied-mappings sidecar, then the map is archived.
Opened(p) ==
    /\ pc[p] = "opening" /\ Replaced(p)
    /\ End(p, "opened")
    /\ applied' = {m.name : m \in graph[p].of.maps} /\ map' = FALSE
    /\ published' = graph[p].of /\ mixed' = FALSE
    /\ UNCHANGED <<files, sidecar, graph, catalog, faults>>

\* The consumer's composite is the part of the owner's its credentials reach.
ConsumerOpens(p) ==
    /\ p \in Consumer /\ pc[p] \in {"out", "refused"} /\ lock = None
    /\ Loadable(files)
    /\ graph' = [graph EXCEPT ![p] =
                    [files.composite EXCEPT !.of.members = @ \cap Visible]]
    /\ pc' = [pc EXCEPT ![p] = "opened"]
    /\ UNCHANGED <<files, applied, sidecar, map, lock, job, catalog, published, mixed, faults>>

ConsumerRefused(p) ==
    /\ p \in Consumer /\ pc[p] = "out" /\ lock = None
    /\ ~ Loadable(files)
    /\ pc' = [pc EXCEPT ![p] = "refused"]
    /\ UNCHANGED <<files, applied, sidecar, map, lock, job, graph, catalog, published,
                   mixed, faults>>

\* finalize_with_structure has nothing to replay.
NothingToReplay(p) ==
    /\ pc[p] = "opened" /\ sidecar \in {None, graph[p]}
    /\ pc' = [pc EXCEPT ![p] = "ready"]
    /\ UNCHANGED <<files, applied, sidecar, map, lock, job, graph, catalog, published,
                   mixed, faults>>

\* Otherwise the edits are replayed, in either role, and the composite is saved
\* as a schema cache ...
ReplayEdits(p) ==
    /\ pc[p] = "opened" /\ sidecar \notin {None, graph[p]}
    /\ UNCHANGED <<files, applied, map, catalog, published, mixed, faults>>
    /\ LET g == [graph[p] EXCEPT !.edited = TRUE] IN
       /\ graph' = [graph EXCEPT ![p] = g] /\ sidecar' = g
       /\ Begin(p, "saving", SchemaPuts("composite", g))

Replayed(p) ==
    /\ pc[p] = "saving" /\ Replaced(p) /\ End(p, "replayed")
    /\ UNCHANGED <<files, applied, sidecar, map, graph, catalog, published, mixed, faults>>

\* ... and then as the federation's composite, under the lock taken anew; the
\* manifest just saved is there, whoever has replaced it since.
SavePair(p) ==
    /\ pc[p] = "replayed"
    /\ UNCHANGED <<files, applied, sidecar, map, graph, catalog, published, mixed, faults>>
    /\ Begin(p, "pairing", PairPuts(graph[p]))

Paired(p) ==
    /\ pc[p] = "pairing" /\ Replaced(p) /\ End(p, "ready")
    /\ UNCHANGED <<files, applied, sidecar, map, graph, catalog, published, mixed, faults>>

\* AetherFederation.apply_structure: the edits go into the graph, a schema cache
\* and the sidecar, then the federation is recomposed.
ApplyStructure(p) ==
    /\ p \in Owner /\ pc[p] = "ready" /\ ~ graph[p].edited
    /\ UNCHANGED <<files, applied, sidecar, map, catalog, published, mixed, faults>>
    /\ LET g == [graph[p] EXCEPT !.edited = TRUE] IN
       /\ graph' = [graph EXCEPT ![p] = g]
       /\ Begin(p, "applying", SchemaPuts("schema", g))

Applied(p) ==
    /\ pc[p] = "applying" /\ Replaced(p) /\ End(p, "recompose")
    /\ sidecar' = graph[p]
    /\ UNCHANGED <<files, applied, map, graph, catalog, published, mixed, faults>>

\* A member source changes under the federation.
Drift ==
    /\ catalog < MaxDrift /\ catalog' = catalog + 1
    /\ UNCHANGED <<files, applied, sidecar, map, lock, job, pc, graph, published,
                   mixed, faults>>

\* apply_migration_map, or the operator, answers the refusal.
SupplyMap(p) ==
    /\ p \in Owner /\ pc[p] = "refused" /\ ~ map /\ map' = TRUE
    /\ pc' = [pc EXCEPT ![p] = "out"]
    /\ UNCHANGED <<files, applied, sidecar, lock, job, graph, catalog, published,
                   mixed, faults>>

Commit(p) == Replace(p) \/ Restore(p) \/ Raise(p)
Finish(p) == Opened(p) \/ Replayed(p) \/ Paired(p) \/ Applied(p)

Next == Drift \/ \E p \in Process :
    \/ OwnerOpens(p) \/ OwnerRefused(p) \/ ConsumerOpens(p) \/ ConsumerRefused(p)
    \/ NothingToReplay(p) \/ ReplayEdits(p) \/ SavePair(p)
    \/ ApplyStructure(p) \/ SupplyMap(p)
    \/ Commit(p) \/ Finish(p) \/ Fails(p) \/ RestoreFails(p) \/ Crash(p)

Spec == Init /\ [][Next]_vars

\* A process that is not killed finishes the replacement it has begun.
FairSpec == Spec /\ \A p \in Process : WF_vars(Commit(p) \/ Finish(p))
-----------------------------------------------------------------------------
\* What a reader is served is one publication: whatever was interrupted or half
\* rolled back, and also while files are being replaced, a composite that
\* load_federation_composite_graph returns is composed of the members that the
\* manifest, the mappings and the artifact manifest beside it name.
ServedWhole ==
    Loadable(files) =>
        /\ files.manifest = files.composite.of.joins
        /\ files.mappings = files.composite.of.maps
        /\ files.artifact.declares = files.composite.of

\* An artifact manifest that declares nothing: over it Coherent fails, so that no
\* reader is served and no owner publishes.
Seals(m) == m # None /\ m.declares = None

\* All or nothing: outside the lock, the files are the last complete publication,
\* unless a crash, a failed restore or a schema cache got in between.  The one
\* trace a publication rolled back, or dead before its first replacement, may
\* leave is the artifact manifest the migration policy had rewritten before it,
\* and that one seals the federation.
LastPublication ==
    lock = None /\ ~ mixed =>
        \A f \in Quad :
            \/ files[f] = IF published = None THEN None
                          ELSE (CHOOSE put \in ToSet(QuadPuts(published)) : put.file = f).content
            \/ f = "artifact" /\ published # None /\ Seals(files[f])

\* A replacement that fails and is rolled back without a further failure leaves
\* every file as it was.
RolledBack ==
    [][\A p \in Process : Raise(p) /\ ~ job.lost => files = job.before]_vars

\* The lock is not kept: every replacement ends, or its process dies.
LockReleased == lock # None ~> lock = None

\* Recomposing with the members it has is not refused to the federation that has
\* just applied a structure document.
ApplyAccepted == \A p \in Process : pc[p] = "recompose" =>
    \E d \in Declaration : Publishes(d, graph[p].of.members)
=============================================================================
