------------------------------- MODULE EngineTree -------------------------------
(***************************************************************************)
(* The artifact directory of one engine across openings: the owner builds  *)
(* the schema graph from the live catalog and saves it beside the artifact *)
(* manifest, passes the migration gate, applies a migration map, prunes    *)
(* and loads the learned templates (`_main_init.py`, `_schema_finalize.py`,*)
(* `_schema_reflect.py`, `_templates_ops.py`, `_templates.py`); consumers  *)
(* pin the saved graph; both save what their sessions learn.               *)
(*                                                                         *)
(* A structure of the catalog is a version: equal versions have equal      *)
(* probes, hashes and schema graph ids.  Any two of them differ by         *)
(* renamings, the drift a remap can answer.  A store is its header's graph *)
(* id and the versions whose names its templates use.  What was written    *)
(* into a header its rows may not have yet: a save replaces the header,    *)
(* then one shard after another.                                           *)
(***************************************************************************)
EXTENDS Integers

CONSTANTS
    Version,        \* structures the catalog can have
    Owner,          \* processes that open the directory in the owner role
    Consumer,       \* processes that open it in the consumer role
    Action,         \* the actions a migration map may ask for
    Use,            \* which of "alone" and "shared" behaviours there are
    MaxDrift,       \* bound on changes of the catalog, for each use
    MaxFaults,      \* bound on crashes and failing operations, for each use
    None

Process == Owner \cup Consumer

\* Template partitions: the default one, and the one of consumer credentials.
Space == {"master", "credential"}

ASSUME RoleAssumption == Owner \cap Consumer = {} /\ None \notin Process \cup Version \cup Space
ASSUME ActionAssumption == Action \subseteq {"remap", "destructive", "abort"}
ASSUME UseAssumption == Use \subseteq {"alone", "shared"}
ASSUME BoundAssumption == MaxDrift \in [Use -> Nat] /\ MaxFaults \in [Use -> Nat]

VARIABLES
    use,            \* "alone": one opening at a time, and the catalog changes
                    \* only between two; "shared": consumers too, at any time
    catalog,        \* the live structure
    graph,          \* schema_graph.json.gz
    manifest,       \* artifact_manifest.json
    store,          \* header and shards of each space
    map,            \* schema_migration_map.json
    checkpoint,     \* the .migration_checkpoint_ directory
    lock,           \* the process inside artifact_lock(artifacts_dir), or None
    pc,
    work,           \* what each opening has read and built
    serves,         \* the graph of each process's open engine, or None
    before,         \* history: the tree when the map under way was begun
    drifts, faults

vars == <<use, catalog, graph, manifest, store, map, checkpoint, lock, pc, work,
          serves, before, drifts, faults>>

Null(S) == S \cup {None}

\* print stands for the hashes, id for the schema graph id.
Manifest == [id : Version, print : Null(Version)]
\* whole is history: FALSE from a remap's replacement of the header until all
\* of its rows are replaced too.
Store == [id : Version, names : SUBSET Version, whole : BOOLEAN]
Stores == [Space -> Null(Store)]
MigrationMap == [action : Action, from : Version, to : Version]
Checkpoint == [manifest : Null(Manifest), store : Stores, graph : Null(Version)]
ASSUME NoneAssumption == None \notin Checkpoint \cup Manifest

Work == [was : Null(Version), built : Null(Version), undo : Null(Version),
         seen : Null(Manifest), todo : SUBSET Space, rows : Null(Space), mapped : BOOLEAN]

Idle == [was |-> None, built |-> None, undo |-> None, seen |-> None,
         todo |-> {}, rows |-> None, mapped |-> FALSE]

\* A wrong variant: the manifest is written before the graph has its id.
OfUnassigned(v) == [id |-> None, print |-> v]

Of(v) == [id |-> v, print |-> v]

\* Type invariant.
TypeOK ==
    /\ use \in Use
    /\ catalog \in Version /\ graph \in Null(Version) /\ manifest \in Null(Manifest)
    /\ store \in Stores /\ map \in Null(MigrationMap) /\ checkpoint \in Null(Checkpoint)
    /\ lock \in Null(Process)
    /\ pc \in [Process -> {"out", "refused", "restoring", "building", "saving", "pairing",
                           "mapping", "copying", "applying", "rebuilding", "gate", "policy",
                           "remapping", "pruning", "loading", "serving", "saved", "stamping"}]
    /\ work \in [Process -> Work] /\ serves \in [Process -> Null(Version)]
    /\ before \in Null(Checkpoint)
    /\ drifts \in 0 .. MaxDrift[use] /\ faults \in 0 .. MaxFaults[use]

Init ==
    /\ use \in Use
    /\ catalog \in Version
    /\ graph = None /\ manifest = None /\ store = [s \in Space |-> None]
    /\ map = None /\ checkpoint = None /\ lock = None
    /\ pc = [p \in Process |-> "out"]
    /\ work = [p \in Process |-> Idle]
    /\ serves = [p \in Process |-> None]
    /\ before = None
    /\ drifts = 0 /\ faults = 0
-----------------------------------------------------------------------------
files == <<graph, manifest, store, map, checkpoint>>
world == <<use, catalog, drifts>>

Go(p, to) == pc' = [pc EXCEPT ![p] = to]
Put(p, w) == work' = [work EXCEPT ![p] = w]

Fault == faults < MaxFaults[use] /\ faults' = faults + 1

\* An opening that raises: a constructor leaves nothing behind, refresh leaves
\* the engine as it was.
Raises(p, to) ==
    /\ Go(p, IF serves[p] = None THEN to ELSE "serving")
    /\ Put(p, Idle)

\* load_template_store: rows of another graph are dropped, the header restamped.
\* (No chain of renamings is found: _apply_schema_rename_migration_to_store
\* compares with a manifest that has the new id already.  Its header names no
\* dropped row, so a death before the shards leaves only rows the next load drops.)
Reconciled(st, v) ==
    IF st = None \/ st.id = v THEN st
    ELSE [id |-> v, names |-> st.names \cap {v}, whole |-> TRUE]

\* A wrong variant: rows that could not be rewritten are kept.
RewrittenKeepingRows(names, to) == names

\* _remap_templates_in_view: the rows that stay use the new names.
Rewritten(names, to) == IF names = {} THEN {} ELSE {to}

\* The manifest takes the id of the graph whose store was saved; its hashes stay.
Restamped(m, v) == [id |-> v, print |-> IF m = None THEN None ELSE m.print]

Gone == [s \in Space |-> None]

\* What _migration_map_checkpoint_restore copies back, from a directory that may
\* be empty or no longer there.
Held == IF checkpoint = None THEN [manifest |-> None, store |-> Gone, graph |-> None]
        ELSE checkpoint

\* A wrong variant: the learned templates are not put back.
PutBackFiles ==
    /\ manifest' = IF Held.manifest = None THEN manifest ELSE Held.manifest
    /\ graph' = Held.graph
    /\ checkpoint' = None /\ UNCHANGED store

PutBack ==
    /\ manifest' = IF Held.manifest = None THEN manifest ELSE Held.manifest
    /\ store' = Held.store /\ graph' = Held.graph
    /\ checkpoint' = None
-----------------------------------------------------------------------------
(***************************************************************************)
(* Opening: initialize_aether_engine, and refresh_aether_engine for an     *)
(* engine that serves.                                                     *)
(***************************************************************************)

\* _checkpoint_manifest_matches_current
Complete == checkpoint.manifest # None /\ checkpoint.manifest = manifest

AfterCheckpoint(p) == IF p \in Owner THEN "building" ELSE "loading"

\* The snapshot is read, then a leftover checkpoint is looked at without the
\* lock: one that matches the manifest is removed, any other is to be restored
\* by a constructor and retained by refresh.
Start(p) ==
    /\ use = "alone" => p \in Owner
    /\ pc[p] \in {"out", "refused", "serving"}
    /\ pc[p] = "serving" /\ p \in Consumer => graph # None
    /\ Put(p, [Idle EXCEPT !.was = graph])
    /\ IF checkpoint = None THEN Go(p, AfterCheckpoint(p)) /\ UNCHANGED checkpoint
       ELSE IF Complete THEN Go(p, AfterCheckpoint(p)) /\ checkpoint' = None
       ELSE /\ Go(p, IF serves[p] = None THEN "restoring" ELSE AfterCheckpoint(p))
            /\ UNCHANGED checkpoint
    /\ UNCHANGED <<world, graph, manifest, store, map, lock, serves, before, faults>>

\* A wrong variant: the lock is not taken.
RestoreLeftoverUnlocked(p) ==
    /\ pc[p] = "restoring"
    /\ PutBack
    /\ Go(p, AfterCheckpoint(p))
    /\ UNCHANGED <<world, map, lock, work, serves, before, faults>>

RestoreLeftover(p) ==
    /\ pc[p] = "restoring" /\ lock = None
    /\ PutBack
    /\ Go(p, AfterCheckpoint(p))
    /\ UNCHANGED <<world, map, lock, work, serves, before, faults>>

\* build_schema_graph_with_diff.  A cached graph with the live probe is a hit; its
\* notes or statistics may be refreshed and saved, and anything else is saved too.
\* A cached graph that no longer fits the scope, the notes or its own hashes is
\* removed first, without the lock.  A map forces the catalog to be read again.
Build(p) ==
    /\ pc[p] = "building"
    /\ Put(p, [work[p] EXCEPT !.built = catalog])
    /\ \/ map = None /\ graph = catalog /\ Go(p, "mapping") /\ UNCHANGED graph
       \/ Go(p, "saving") /\ UNCHANGED graph
       \/ map = None /\ graph # None /\ Go(p, "saving") /\ graph' = None
    /\ UNCHANGED <<world, manifest, store, map, checkpoint, lock, serves, before, faults>>

\* _commit_schema_cache_and_manifest_pair
SaveGraph(p) ==
    /\ pc[p] = "saving" /\ lock = None /\ lock' = p
    /\ graph' = work[p].built
    /\ Put(p, [work[p] EXCEPT !.undo = graph])
    /\ Go(p, "pairing")
    /\ UNCHANGED <<world, manifest, store, map, checkpoint, serves, before, faults>>

SaveManifest(p) ==
    /\ pc[p] = "pairing" /\ lock' = None
    /\ manifest' = Of(work[p].built)
    /\ Put(p, [work[p] EXCEPT !.undo = None])
    /\ Go(p, "mapping")
    /\ UNCHANGED <<world, graph, store, map, checkpoint, serves, before, faults>>

SaveFails(p) ==
    /\ pc[p] = "pairing" /\ Fault /\ lock' = None
    /\ graph' = work[p].undo
    /\ Raises(p, "out")
    /\ UNCHANGED <<world, manifest, store, map, checkpoint, serves, before>>
-----------------------------------------------------------------------------
\* validate_schema_migration_map against the snapshot read at the start and the
\* graph just built.
Unfounded(p) == \/ map.to # work[p].built
                \/ work[p].was = None /\ map.action # "abort"

Stale(p) == work[p].was # None /\ map.from # work[p].was

NoMap(p) ==
    /\ pc[p] = "mapping" /\ map = None /\ Go(p, "gate")
    /\ UNCHANGED <<world, files, lock, work, serves, before, faults>>

StaleMap(p) ==
    /\ pc[p] = "mapping" /\ map # None /\ Stale(p) /\ ~ Unfounded(p)
    /\ map' = None /\ Go(p, "gate")
    /\ UNCHANGED <<world, graph, manifest, store, checkpoint, lock, work, serves,
                   before, faults>>

\* MigrationPendingError: the map is wrong, or asks for it and is removed.
MapRefused(p) ==
    /\ pc[p] = "mapping" /\ map # None
    /\ \/ Unfounded(p) /\ UNCHANGED map
       \/ ~ Unfounded(p) /\ ~ Stale(p) /\ map.action = "abort" /\ map' = None
    /\ Raises(p, "refused")
    /\ UNCHANGED <<world, graph, manifest, store, checkpoint, lock, serves, before,
                   faults>>

\* apply_schema_migration_map takes the lock and makes the checkpoint, first the
\* directory ...
BeginMap(p) ==
    /\ pc[p] = "mapping" /\ map # None /\ ~ Unfounded(p) /\ ~ Stale(p)
    /\ map.action # "abort"
    /\ lock = None /\ lock' = p
    /\ before' = [manifest |-> manifest, store |-> store, graph |-> graph]
    /\ checkpoint' = [manifest |-> None, store |-> Gone, graph |-> None]
    /\ Go(p, "copying")
    /\ UNCHANGED <<world, graph, manifest, store, map, work, serves, faults>>

\* ... then what it holds.
CopyFiles(p) ==
    /\ pc[p] = "copying"
    /\ checkpoint' = [manifest |-> manifest, store |-> store, graph |-> graph]
    /\ Put(p, [work[p] EXCEPT !.todo = Space])
    /\ Go(p, "applying")
    /\ UNCHANGED <<world, graph, manifest, store, map, lock, serves, before, faults>>

\* Where stores are rewritten, and the structure whose names become the new ones.
Remapping(p) == \/ pc[p] = "applying" /\ map.action = "remap"
                \/ pc[p] = "remapping"

Renamed(p) == IF pc[p] = "applying" THEN map.from ELSE work[p].was

\* A space that holds templates is saved with its rows rewritten, or dropped when
\* the result is not live: first its header, with the new id and without what is
\* dropped; a space without templates is left alone.
RemapHeader(p) == \E s \in work[p].todo :
    /\ Remapping(p) /\ work[p].rows = None
    /\ IF store[s] = None \/ store[s].names = {}
       THEN Put(p, [work[p] EXCEPT !.todo = @ \ {s}]) /\ UNCHANGED store
       ELSE /\ store' = [store EXCEPT ![s] =
                            [id |-> work[p].built, whole |-> FALSE,
                             names |-> @.names \cap {Renamed(p), work[p].built}]]
            /\ Put(p, [work[p] EXCEPT !.todo = @ \ {s}, !.rows = s])
    /\ UNCHANGED <<world, graph, manifest, map, checkpoint, lock, pc, serves, before,
                   faults>>

\* Then its shards, one or all of them, and after the last one the manifest.
RewriteRows(p) == LET s == work[p].rows IN
    /\ Remapping(p) /\ s # None /\ store[s] # None
    /\ \E left \in {{}, store[s].names} :
        /\ store' = [store EXCEPT ![s] =
                       [id |-> @.id, names |-> Rewritten(@.names, work[p].built) \cup left,
                        whole |-> left = {} /\ @.id = work[p].built]]
        /\ IF left = {}
           THEN /\ Put(p, [work[p] EXCEPT !.rows = None])
                /\ manifest' = Restamped(manifest, work[p].built)
           ELSE UNCHANGED <<work, manifest>>
    /\ UNCHANGED <<world, graph, map, checkpoint, lock, pc, serves, before, faults>>

\* destructive_migration_execute
Wipe(p) ==
    /\ pc[p] = "applying" /\ map.action = "destructive" /\ work[p].todo # {}
    /\ store' = Gone
    /\ Put(p, [work[p] EXCEPT !.todo = {}])
    /\ UNCHANGED <<world, graph, manifest, map, checkpoint, lock, pc, serves, before,
                   faults>>

\* _stamp_manifest, and the checkpoint is removed.
EndMap(p) ==
    /\ pc[p] = "applying" /\ work[p].todo = {} /\ work[p].rows = None
    /\ manifest' = Of(work[p].built)
    /\ checkpoint' = None /\ before' = None /\ lock' = None
    /\ Go(p, "rebuilding")
    /\ UNCHANGED <<world, graph, store, map, work, serves, faults>>

MapFails(p) ==
    /\ pc[p] = "applying" /\ Fault /\ lock' = None
    /\ PutBack /\ before' = None
    /\ Raises(p, "out")
    /\ UNCHANGED <<world, map, serves>>

\* The map is archived and the graph built once more; this one is saved under the
\* process-wide default path, not in the directory.
Rebuild(p) ==
    /\ pc[p] = "rebuilding"
    /\ map' = None
    /\ Put(p, [work[p] EXCEPT !.was = graph, !.built = catalog, !.mapped = TRUE])
    /\ Go(p, "gate")
    /\ UNCHANGED <<world, graph, manifest, store, checkpoint, lock, serves, before,
                   faults>>
-----------------------------------------------------------------------------
\* classify_migration_tier is REMAP or DESTRUCTIVE.
NeedsMigration(m, v) == m # None /\ m.print # v

GatePasses(p) ==
    /\ pc[p] = "gate" /\ ~ NeedsMigration(manifest, work[p].built)
    /\ Go(p, "policy")
    /\ UNCHANGED <<world, files, lock, work, serves, before, faults>>

GateRefuses(p) ==
    /\ pc[p] = "gate" /\ NeedsMigration(manifest, work[p].built)
    /\ Raises(p, "refused")
    /\ UNCHANGED <<world, files, lock, serves, before, faults>>

\* apply_migration_policy reads the manifest again, under the lock.  Without a
\* difference of structure it stamps the manifest or does nothing; a difference it
\* knows no renaming for clears what was learned ...
Policy(p) ==
    /\ pc[p] = "policy" /\ lock = None
    /\ LET v == work[p].built IN
       \/ /\ ~ NeedsMigration(manifest, v) /\ UNCHANGED store
          /\ manifest' \in {manifest, IF manifest = None THEN None ELSE Of(v)}
       \/ /\ NeedsMigration(manifest, v) /\ work[p].was \in {None, v}
          /\ store' = Gone /\ manifest' = Of(v)
    /\ Go(p, "pruning")
    /\ UNCHANGED <<world, graph, map, checkpoint, lock, work, serves, before, faults>>

\* ... and any other one is remapped, without a checkpoint.
BeginPolicy(p) ==
    /\ pc[p] = "policy" /\ lock = None /\ lock' = p
    /\ NeedsMigration(manifest, work[p].built) /\ work[p].was \notin {None, work[p].built}
    /\ Put(p, [work[p] EXCEPT !.todo = Space])
    /\ Go(p, "remapping")
    /\ UNCHANGED <<world, files, serves, before, faults>>

EndPolicy(p) ==
    /\ pc[p] = "remapping" /\ work[p].todo = {} /\ work[p].rows = None /\ lock' = None
    /\ manifest' = Of(work[p].built)
    /\ Go(p, "pruning")
    /\ UNCHANGED <<world, graph, store, map, checkpoint, work, serves, before, faults>>

PolicyFails(p) ==
    /\ pc[p] = "remapping" /\ Fault /\ lock' = None
    /\ Raises(p, "out")
    /\ UNCHANGED <<world, files, serves, before>>

\* prune_stale_artifact_auxiliaries, without a lock.
\* A wrong variant: whatever is not of the snapshot goes.
PruneBySnapshot(p) ==
    /\ pc[p] = "pruning"
    /\ store' = [s \in Space |->
                    IF store[s] # None /\ store[s].id # work[p].was THEN None ELSE store[s]]
    /\ Go(p, "loading")
    /\ UNCHANGED <<world, graph, manifest, map, checkpoint, lock, work, serves, before, faults>>

Prune(p) ==
    /\ pc[p] = "pruning"
    /\ store' = [s \in Space |->
                    IF store[s] # None /\ store[s].id # work[p].built THEN None ELSE store[s]]
    /\ Go(p, "loading")
    /\ UNCHANGED <<world, graph, manifest, map, checkpoint, lock, work, serves,
                   before, faults>>

\* A consumer serves the part of the snapshot its credentials reach.
Opening(p) == IF p \in Owner THEN work[p].built ELSE work[p].was

Loads(p) == IF p \in Owner THEN {"master"} ELSE Space

NoSnapshot(p) ==
    /\ pc[p] = "loading" /\ Opening(p) = None
    /\ Raises(p, "refused")
    /\ UNCHANGED <<world, files, lock, serves, before, faults>>

Load(p) ==
    /\ pc[p] = "loading" /\ Opening(p) # None
    /\ LET v == Opening(p)
           loaded == [s \in Space |-> IF s \in Loads(p) THEN Reconciled(store[s], v)
                                      ELSE store[s]]
       IN /\ serves' = [serves EXCEPT ![p] = v]
          /\ store' = loaded
          /\ Go(p, IF loaded = store THEN "serving" ELSE "saved")
    /\ Put(p, Idle)
    /\ UNCHANGED <<world, graph, manifest, map, checkpoint, lock, before, faults>>
-----------------------------------------------------------------------------
Home(p) == IF p \in Owner THEN "master" ELSE "credential"

\* A session learns a template and saves its space: the partition is replaced,
\* other partitions stay, the header takes the id of the session's graph.
Learn(p) == \E kept \in {{}, IF store[Home(p)] = None THEN {} ELSE store[Home(p)].names} :
    /\ pc[p] = "serving"
    /\ store' = [store EXCEPT ![Home(p)] =
                   [id |-> serves[p], names |-> kept \cup {serves[p]},
                    whole |-> IF kept = {} THEN TRUE ELSE @.whole]]
    /\ Go(p, "saved")
    /\ UNCHANGED <<world, graph, manifest, map, checkpoint, lock, work, serves,
                   before, faults>>

\* Every save of a store ends by rewriting the manifest, read just before, under
\* the lock of the store only.
ReadManifest(p) ==
    /\ pc[p] = "saved"
    /\ Put(p, [Idle EXCEPT !.seen = manifest]) /\ Go(p, "stamping")
    /\ UNCHANGED <<world, files, lock, serves, before, faults>>

WriteManifest(p) ==
    /\ pc[p] = "stamping"
    /\ manifest' = Restamped(work[p].seen, serves[p])
    /\ Put(p, Idle) /\ Go(p, "serving")
    /\ UNCHANGED <<world, graph, store, map, checkpoint, lock, serves, before, faults>>

Close(p) ==
    /\ pc[p] = "serving" /\ Go(p, "out")
    /\ serves' = [serves EXCEPT ![p] = None]
    /\ UNCHANGED <<world, files, lock, work, before, faults>>

\* The process dies; the lock goes with it (ArtifactLock), the files stay.
Crash(p) ==
    /\ pc[p] \notin {"out", "refused"} /\ Fault
    /\ IF lock = p THEN lock' = None /\ before' = None ELSE UNCHANGED <<lock, before>>
    /\ Go(p, "out") /\ Put(p, Idle)
    /\ serves' = [serves EXCEPT ![p] = None]
    /\ UNCHANGED <<world, files>>

\* The catalog changes, perhaps back to what it was.
Drift == \E v \in Version \ {catalog} :
    /\ drifts < MaxDrift[use] /\ drifts' = drifts + 1
    /\ use = "alone" => \A p \in Owner : pc[p] \in {"out", "refused", "serving"}
    /\ catalog' = v
    /\ UNCHANGED <<use, files, lock, pc, work, serves, before, faults>>

\* The operator puts a map in place, by hand or with apply_migration_map, which
\* leaves it there also when it raises.
SupplyMap == \E m \in MigrationMap :
    /\ \A p \in Owner : pc[p] \in {"out", "refused", "serving"}
    /\ map = None /\ m.from # m.to /\ m.to = catalog
    /\ map' = m
    /\ UNCHANGED <<world, graph, manifest, store, checkpoint, lock, pc, work, serves,
                   before, faults>>

OwnerStep(p) ==
    \/ Build(p) \/ SaveGraph(p) \/ SaveManifest(p)
    \/ NoMap(p) \/ StaleMap(p) \/ MapRefused(p) \/ BeginMap(p) \/ CopyFiles(p)
    \/ RemapHeader(p) \/ RewriteRows(p) \/ Wipe(p) \/ EndMap(p) \/ Rebuild(p)
    \/ GatePasses(p) \/ GateRefuses(p)
    \/ Policy(p) \/ BeginPolicy(p) \/ EndPolicy(p) \/ Prune(p)

Advance(p) ==
    \/ RestoreLeftover(p) \/ OwnerStep(p) \/ NoSnapshot(p) \/ Load(p)
    \/ ReadManifest(p) \/ WriteManifest(p)

Next ==
    \/ Drift \/ SupplyMap
    \/ \E p \in Process :
        \/ Start(p) \/ Advance(p) \/ Learn(p) \/ Close(p)
        \/ SaveFails(p) \/ MapFails(p) \/ PolicyFails(p) \/ Crash(p)

Spec == Init /\ [][Next]_vars
-----------------------------------------------------------------------------

\* A failed application of a migration map, remap or destructive, leaves the
\* manifest, the learned templates of every space and the saved schema graph as
\* they were when it began (apply_schema_migration_map and its checkpoint), when
\* nobody else has the directory open.
FailedMapUndone == [][use = "alone" => \A p \in Owner : MapFails(p) =>
    [manifest |-> manifest', store |-> store', graph |-> graph'] = before]_vars

\* The owner never serves a graph with templates that use the names of another
\* structure: through drift, remaps, refused maps, openings that die between two
\* steps and structures that come back (pruning, reconciliation and the rewriting
\* of rows, which each look at the header's graph id only).  Not claimed of a
\* store in which a remap died between the header and the last shard: the code
\* serves its old rows.
TemplatesFit == [][use = "alone" => \A p \in Owner : Load(p) =>
    \/ store'["master"] = None
    \/ store'["master"].whole => store'["master"].names \subseteq {serves'[p]}]_vars

\* An owner's opening past the gate never takes away templates that use the
\* names of the graph it is about to serve: what a remap carried over is still
\* there when the engine serves, also when the opening that applied it died after
\* its save (apply_migration_policy, prune_stale_artifact_auxiliaries,
\* load_template_store).  Not claimed of a store a remap died in, either.
FittingTemplatesKept == [][use = "alone" => \A p \in Owner :
    /\ Policy(p) \/ BeginPolicy(p) \/ Prune(p) \/ Load(p)
    /\ store["master"] # None
    /\ store["master"].whole /\ store["master"].names = {work[p].built}
    => store'["master"] = store["master"] /\ pc'[p] # "remapping"]_vars

\* While a process is inside a section of the artifact lock, replacing the pair
\* of graph and manifest or applying a map, no other process touches the saved
\* schema graph, not even one that restores a checkpoint it found before the
\* section began.  Except one that builds: it removes a graph it cannot use
\* without taking the lock.
GraphUnderLock == [][graph' # graph =>
    \/ lock = None
    \/ \E p \in Process : \/ lock = p /\ pc'[p] # pc[p]
                          \/ Build(p)]_vars

\* A structural drift stops the opening: an owner serves a structure other than
\* the one of the snapshot it found only after a migration map was applied.
DriftStopsInit == [][\A p \in Owner :
    Load(p) => work[p].was \in {None, work[p].built} \/ work[p].mapped]_vars
=============================================================================
