---------------------------- MODULE TemplateStore ----------------------------
(***************************************************************************)
(* The partitioned template store of one AetherSpace (`_templates.py`):    *)
(* a header file that names the templates and the feedback questions, and  *)
(* one shard file per partition that holds the bodies.  A session works on *)
(* a TemplateStoreView in memory, which loads shards on demand, keeps at   *)
(* most lruMax of each kind and remembers the partitions it has changed;   *)
(* `save_template_store` merges those into the files under the store lock. *)
(*                                                                         *)
(* A body is abstracted to the set of its marks, one per change made to    *)
(* it, and is absent when it has none.  Size limits prune nothing here:    *)
(* template_store_max_count and _max_disk_bytes are unset by default.      *)
(***************************************************************************)
EXTENDS Integers, FiniteSets, SequencesExt

CONSTANTS
    Question,       \* normalized questions that get feedback
    MaxId,          \* bound on the template ids handed out
    PartOf,         \* template_partition_number
    FPartOf,        \* question_feedback_partition_number
    View,           \* the views open on this store
    Session,        \* the threads that work on a view
    ViewOf,
    MaxMarks,       \* bound on changes in a behaviour
    MaxFailures,    \* bound on crashes and failed saves
    Use,            \* how the store may be used: which sessions run, what they
                    \* call, TEMPLATE_STORE_PARTITION_LRU_MAX, and the bounds
    None

Tid == 1 .. MaxId
Mark == 1 .. MaxMarks
Part == {PartOf[t] : t \in Tid}
FPart == {FPartOf[q] : q \in Question}

ASSUME PartitionAssumption ==
    /\ MaxId \in Nat \ {0} /\ PartOf \in [Tid -> Nat] /\ FPartOf \in [Question -> Nat]
    /\ IsFiniteSet(Question)
ASSUME SessionAssumption == ViewOf \in [Session -> View] /\ None \notin Session
ASSUME BoundAssumption ==
    /\ MaxMarks \in Nat /\ MaxFailures \in Nat
    /\ Use \subseteq [sessions : SUBSET Session, lruMax : 1 .. MaxId,
            operations : SUBSET {"put", "improve", "remove", "record", "forget"},
            ids : Tid, marks : 0 .. MaxMarks, failures : 0 .. MaxFailures]

VARIABLES
    use,            \* how it is used, chosen once from Use
    disk,           \* the header (map, next, index) and the shard files
    view,           \* what each view holds in memory
    live,           \* the views that are loaded
    lock,           \* the session inside artifact_lock(store_dir), or None
    commit,         \* the merged view whose save is under way
    pc,
    held,           \* the template id a session has reserved
    used,           \* marks handed out
    keep,           \* per session, marks its next successful save owes the disk
    drop,           \* per session, marks that save must take off the disk
    durable,        \* marks that a returned save covered and nobody withdrew
    headed,         \* marks that some committed header accounts for
    everMapped,     \* template ids that some committed header named
    failures

ghosts == <<keep, drop, durable>>
history == <<headed, everMapped>>
vars == <<use, disk, view, live, lock, commit, pc, held, used, ghosts, history, failures>>

Bodies == [Tid -> SUBSET Mark]
Rows == [Question -> SUBSET Mark]
NoBodies == [t \in Tid |-> {}]
NoRows == [q \in Question |-> {}]

Counter == Nat \ {0}
Header == [map : SUBSET Tid, next : Counter, index : SUBSET Question]
Files == [head : Header, shard : Bodies, fshard : Rows]
Memory == [head : [map : SUBSET Tid, next : Counter], index : Seq(Question),
           cache : Seq(Part), body : Bodies, dirty : SUBSET Part,
           fcache : Seq(FPart), rows : Rows, fdirty : SUBSET FPart]
Merged == [head : Header, body : Bodies, rows : Rows,
           parts : SUBSET Part, fparts : SUBSET FPart, opening : BOOLEAN]

\* Nothing is listed or cached twice, what is dirty is cached, and the feedback
\* cache respects the bound (dirty template partitions may exceed theirs).
Orderly(vw) ==
    /\ IsInjective(vw.index)
    /\ IsInjective(vw.cache) /\ vw.dirty \subseteq ToSet(vw.cache)
    /\ IsInjective(vw.fcache) /\ vw.fdirty \subseteq ToSet(vw.fcache)
    /\ Len(vw.fcache) <= use.lruMax

\* Type invariant.
TypeOK ==
    /\ use \in Use
    /\ disk \in Files
    /\ view \in [View -> Memory] /\ \A v \in View : Orderly(view[v])
    /\ live \subseteq View
    /\ lock \in Session \cup {None}
    /\ IF lock = None THEN commit = None ELSE commit \in Merged
    /\ pc \in [Session ->
        {"down", "idle", "reserved", "counted", "merged", "headed", "saved"}]
    /\ held \in [Session -> 0 .. MaxId]
    /\ used \in 0 .. MaxMarks
    /\ keep \in [Session -> SUBSET Mark] /\ drop \in [Session -> SUBSET Mark]
    /\ durable \subseteq Mark /\ headed \subseteq Mark /\ everMapped \subseteq Tid
    /\ failures \in 0 .. MaxFailures

\* TemplateStoreView.empty
EmptyView == [head |-> [map |-> {}, next |-> 1], index |-> << >>,
              cache |-> << >>, body |-> NoBodies, dirty |-> {},
              fcache |-> << >>, rows |-> NoRows, fdirty |-> {}]

Init ==
    /\ use \in Use
    /\ disk = [head |-> [map |-> {}, next |-> 1, index |-> {}],
               shard |-> NoBodies, fshard |-> NoRows]
    /\ view = [v \in View |-> EmptyView]
    /\ live = {}
    /\ lock = None /\ commit = None
    /\ pc = [s \in Session |-> "down"]
    /\ held = [s \in Session |-> 0]
    /\ used = 0
    /\ keep = [s \in Session |-> {}] /\ drop = keep
    /\ durable = {} /\ headed = {} /\ everMapped = {}
    /\ failures = 0
-----------------------------------------------------------------------------
At(s, from, to) == pc[s] = from /\ pc' = [pc EXCEPT ![s] = to]

Idle(s) == pc[s] = "idle" /\ UNCHANGED pc

May(op) == op \in use.operations

Fail == failures < use.failures /\ failures' = failures + 1

Templates(p) == {t \in Tid : PartOf[t] = p}
Questions(p) == {q \in Question : FPartOf[q] = p}

\* The elements of a sequence that are in keepers, in their order.
Kept(seq, keepers) ==
    LET kept[n \in 0 .. Len(seq)] ==
            IF n = 0 THEN << >>
            ELSE IF seq[n] \in keepers THEN Append(kept[n - 1], seq[n])
            ELSE kept[n - 1]
    IN kept[Len(seq)]

Without(seq, e) == Kept(seq, ToSet(seq) \ {e})

\* Move p to the end of a least-recently-used order.
Refreshed(cache, p) == Append(Without(cache, p), p)

(***************************************************************************)
(* _load_partition_payload: a cached partition is served from memory,      *)
(* stale or not; otherwise the oldest clean one makes room.                *)
(***************************************************************************)
Room(vw) ==
    LET clean == Kept(vw.cache, ToSet(vw.cache) \ vw.dirty)
        oldest == {i \in DOMAIN clean : i <= Len(vw.cache) + 1 - use.lruMax}
    IN Kept(vw.cache, ToSet(vw.cache) \ {clean[i] : i \in oldest})

\* A wrong variant: a partition not in memory is taken to be empty.
LoadedEmpty(vw, p) ==
    IF p \in ToSet(vw.cache)
    THEN [vw EXCEPT !.cache = Refreshed(@, p)]
    ELSE [vw EXCEPT !.cache = Append(Room(vw), p)]

Loaded(vw, p) ==
    IF p \in ToSet(vw.cache)
    THEN [vw EXCEPT !.cache = Refreshed(@, p)]
    ELSE [vw EXCEPT !.cache = Append(Room(vw), p),
                    !.body = [t \in Tid |->
                        IF PartOf[t] = p THEN disk.shard[t]
                        ELSE IF PartOf[t] \in ToSet(Room(vw)) THEN @[t] ELSE {}]]

\* A wrong variant: eviction forgets the oldest partition, dirty or not, and
\* leaves it in the dirty set.
FeedbackLoadedStillDirty(x, p) ==
    LET cache == x.vw.fcache IN
    [x EXCEPT !.vw.fcache = Append(IF Len(cache) >= use.lruMax THEN Tail(cache)
                                   ELSE Without(cache, p), p),
              !.vw.rows = [q \in Question |-> IF FPartOf[q] = p THEN x.files[q] ELSE @[q]]]

(***************************************************************************)
(* _load_feedback_partition_payload on a view and the feedback shards: the *)
(* oldest partition makes room, dirty or not; a dirty one is written to    *)
(* its file on the spot and is clean from then on.                         *)
(***************************************************************************)
FeedbackLoaded(x, p) ==
    LET cache == x.vw.fcache
        full == Len(cache) >= use.lruMax
        victim == Head(cache)
        rest == IF full THEN Tail(cache) ELSE cache
        files == IF full /\ victim \in x.vw.fdirty
                 THEN [q \in Question |->
                        IF FPartOf[q] = victim THEN x.vw.rows[q] ELSE x.files[q]]
                 ELSE x.files
    IN IF p \in ToSet(cache)
       THEN [x EXCEPT !.vw.fcache = Refreshed(cache, p)]
       ELSE [files |-> files,
             vw |-> [x.vw EXCEPT
                !.fcache = Append(rest, p),
                !.fdirty = @ \cap ToSet(rest),
                !.rows = [q \in Question |->
                    IF FPartOf[q] = p THEN files[q]
                    ELSE IF FPartOf[q] \in ToSet(rest) THEN @[q] ELSE {}]]]

\* _count_question_feedback_rows loads every partition the index names.
Counted(vw, files) ==
    LET after[n \in 0 .. Len(vw.index)] ==
            IF n = 0 THEN [vw |-> vw, files |-> files]
            ELSE FeedbackLoaded(after[n - 1], FPartOf[vw.index[n]])
    IN after[Len(vw.index)]

\* iter_templates_by_partition: visited partitions stay only when dirty.
Released(vw) ==
    LET visited == {PartOf[t] : t \in vw.head.map}
        cache == Kept(vw.cache, vw.dirty \cup (Part \ visited))
    IN [vw EXCEPT !.cache = cache,
                  !.body = [t \in Tid |-> IF PartOf[t] \in ToSet(cache) THEN @[t] ELSE {}]]
-----------------------------------------------------------------------------
(***************************************************************************)
(* What a session does to its view between two saves.                      *)
(***************************************************************************)
Fresh == used + 1

Owe(s, m) ==
    /\ used < use.marks
    /\ used' = m
    /\ keep' = [keep EXCEPT ![s] = @ \cup {m}]
    /\ UNCHANGED <<drop, durable>>

Withdraw(s, ms) ==
    /\ keep' = [x \in Session |-> keep[x] \ ms]
    /\ drop' = [drop EXCEPT ![s] = @ \cup ms]
    /\ durable' = durable \ ms
    /\ UNCHANGED used

\* A wrong variant: the counter of the view alone.
NextIdOfView(vw) == vw.head.next

\* _allocate_space_template_id: the view's counter, the header's, its ids.
NextId(vw) == Max({vw.head.next, disk.head.next} \cup {t + 1 : t \in disk.head.map})

Reserve(s) ==
    LET v == ViewOf[s] IN
    /\ May("put")
    /\ At(s, "idle", "reserved")
    /\ NextId(view[v]) <= use.ids /\ used < use.marks
    /\ held' = [held EXCEPT ![s] = NextId(view[v])]
    /\ view' = [view EXCEPT ![v].head.next = NextId(view[v]) + 1]
    /\ UNCHANGED <<use, disk, live, lock, commit, used, ghosts, history, failures>>

\* set_template_raw_dict
Stored(vw, t, marks) ==
    LET there == Loaded(vw, PartOf[t])
    IN [there EXCEPT !.body[t] = marks,
                     !.dirty = @ \cup {PartOf[t]},
                     !.head.map = @ \cup {t}]

PutNew(s) ==
    LET v == ViewOf[s] IN
    /\ At(s, "reserved", "idle")
    /\ Owe(s, Fresh)
    /\ view' = [view EXCEPT ![v] = Stored(@, held[s], {Fresh})]
    /\ held' = [held EXCEPT ![s] = 0]
    /\ UNCHANGED <<use, disk, live, lock, commit, history, failures>>

\* A template read through the view is changed and stored again.
Improve(s, t) ==
    LET v == ViewOf[s]
        marks == Loaded(view[v], PartOf[t]).body[t] IN
    /\ May("improve")
    /\ Idle(s)
    /\ t \in view[v].head.map /\ marks # {}
    /\ Owe(s, Fresh)
    /\ view' = [view EXCEPT ![v] = Stored(@, t, marks \cup {Fresh})]
    /\ UNCHANGED <<use, disk, live, lock, commit, held, history, failures>>

\* remove_template_id
RemoveTemplate(s, t) ==
    LET v == ViewOf[s]
        cached == PartOf[t] \in ToSet(view[v].cache)
        there == IF cached THEN view[v] ELSE Loaded(view[v], PartOf[t]) IN
    /\ May("remove")
    /\ Idle(s)
    /\ t \in view[v].head.map
    /\ view' = [view EXCEPT ![v] = [there EXCEPT
            !.body[t] = {}, !.dirty = @ \cup {PartOf[t]}, !.head.map = @ \ {t}]]
    /\ Withdraw(s, there.body[t])
    /\ UNCHANGED <<use, disk, live, lock, commit, held, history, failures>>

\* _get_feedback_rows_mut and the append of its caller
RecordFeedback(s, q) ==
    LET v == ViewOf[s]
        there == FeedbackLoaded([vw |-> view[v], files |-> disk.fshard], FPartOf[q]) IN
    /\ May("record")
    /\ Idle(s)
    /\ Owe(s, Fresh)
    /\ view' = [view EXCEPT ![v] = [there.vw EXCEPT
            !.index = IF q \in ToSet(@) THEN @ ELSE Append(@, q),
            !.rows[q] = @ \cup {Fresh},
            !.fdirty = @ \cup {FPartOf[q]}]]
    /\ disk' = [disk EXCEPT !.fshard = there.files]
    /\ UNCHANGED <<use, live, lock, commit, held, history, failures>>

\* _remove_feedback_question_key
ForgetFeedback(s, q) ==
    LET v == ViewOf[s]
        cached == FPartOf[q] \in ToSet(view[v].fcache)
        before == [vw |-> view[v], files |-> disk.fshard]
        there == IF cached THEN before ELSE FeedbackLoaded(before, FPartOf[q]) IN
    /\ May("forget")
    /\ Idle(s)
    /\ q \in ToSet(view[v].index)
    /\ view' = [view EXCEPT ![v] = [there.vw EXCEPT
            !.index = Without(@, q), !.rows[q] = {}, !.fdirty = @ \cup {FPartOf[q]}]]
    /\ disk' = [disk EXCEPT !.fshard = there.files]
    /\ Withdraw(s, there.vw.rows[q])
    /\ UNCHANGED <<use, live, lock, commit, held, history, failures>>
-----------------------------------------------------------------------------
(***************************************************************************)
(* save_template_store.  The rows are counted and the size limits applied  *)
(* before the lock is taken; under the lock the view's dirty partitions    *)
(* are merged into a view read afresh, whose header and then whose shards  *)
(* replace the files one by one.                                           *)
(***************************************************************************)
CountRows(s) ==
    LET v == ViewOf[s]
        counted == Counted(view[v], disk.fshard) IN
    /\ At(s, "idle", "counted")
    /\ view' = [view EXCEPT ![v] = Released(counted.vw)]
    /\ disk' = [disk EXCEPT !.fshard = counted.files]
    /\ UNCHANGED <<use, live, lock, commit, held, used, ghosts, history, failures>>

(***************************************************************************)
(* Two wrong variants of the merge: the header does not learn the new      *)
(* templates and questions; and templates are only added or replaced.      *)
(***************************************************************************)
MergeBodies(vw) ==
    LET changed == {t \in Tid : PartOf[t] \in vw.dirty}
        asked == {q \in Question : FPartOf[q] \in vw.fdirty /\ vw.rows[q] # {}}
    IN [head |-> disk.head,
        body |-> [t \in Tid |-> IF t \in changed THEN vw.body[t] ELSE disk.shard[t]],
        rows |-> [q \in Question |-> IF q \in asked THEN vw.rows[q] ELSE disk.fshard[q]],
        parts |-> vw.dirty, fparts |-> vw.fdirty, opening |-> FALSE]

MergeAdds(vw) ==
    LET put == {t \in Tid : vw.body[t] # {} /\ PartOf[t] \in vw.dirty}
        asked == {q \in Question : FPartOf[q] \in vw.fdirty /\ vw.rows[q] # {}}
    IN [head |-> [map |-> disk.head.map \cup put,
                  next |-> Max({disk.head.next, vw.head.next}),
                  index |-> disk.head.index \cup asked],
        body |-> [t \in Tid |-> IF t \in put THEN vw.body[t] ELSE disk.shard[t]],
        rows |-> [q \in Question |-> IF q \in asked THEN vw.rows[q] ELSE disk.fshard[q]],
        parts |-> vw.dirty, fparts |-> vw.fdirty, opening |-> FALSE]

\* _merge_pending_template_store_save: a dirty template partition replaces the
\* one on disk, a dirty feedback partition adds or replaces its questions.
Merge(vw) ==
    LET changed == {t \in Tid : PartOf[t] \in vw.dirty}
        gone == {t \in changed : vw.body[t] = {} /\ disk.shard[t] # {}}
        put == {t \in changed : vw.body[t] # {}}
        asked == {q \in Question : FPartOf[q] \in vw.fdirty /\ vw.rows[q] # {}}
    IN [head |-> [map |-> (disk.head.map \ gone) \cup put,
                  next |-> Max({disk.head.next, vw.head.next}),
                  index |-> disk.head.index \cup asked],
        body |-> [t \in Tid |-> IF t \in changed THEN vw.body[t] ELSE disk.shard[t]],
        rows |-> [q \in Question |-> IF q \in asked THEN vw.rows[q] ELSE disk.fshard[q]],
        parts |-> vw.dirty,
        fparts |-> vw.fdirty,
        opening |-> FALSE]

MergeSave(s) ==
    /\ lock = None
    /\ At(s, "counted", "merged")
    /\ lock' = s
    /\ commit' = Merge(view[ViewOf[s]])
    /\ UNCHANGED <<use, disk, view, live, held, used, ghosts, history, failures>>

Marks(bodies) == UNION {bodies[x] : x \in DOMAIN bodies}

\* A wrong variant: the bodies go first.
ShardsWithHeader(s) ==
    /\ At(s, "merged", "headed")
    /\ disk' = [disk EXCEPT !.shard = commit.body]
    /\ UNCHANGED <<use, view, live, lock, commit, held, used, ghosts, history, failures>>

CommitHeader(s) ==
    /\ At(s, "merged", "headed")
    /\ disk' = [disk EXCEPT !.head = commit.head]
    /\ headed' = headed \cup Marks(commit.body) \cup Marks(commit.rows)
    /\ everMapped' = everMapped \cup commit.head.map
    /\ UNCHANGED <<use, view, live, lock, commit, held, used, ghosts, failures>>

CommitShard(s) ==
    LET p == Min(commit.parts) IN
    /\ pc[s] = "headed" /\ UNCHANGED pc
    /\ commit.parts # {}
    /\ disk' = [disk EXCEPT !.shard =
            [t \in Tid |-> IF PartOf[t] = p THEN commit.body[t] ELSE @[t]]]
    /\ commit' = [commit EXCEPT !.parts = @ \ {p}]
    /\ UNCHANGED <<use, view, live, lock, held, used, ghosts, history, failures>>

CommitFeedback(s) ==
    LET p == Min(commit.fparts) IN
    /\ pc[s] = "headed" /\ UNCHANGED pc
    /\ commit.parts = {} /\ commit.fparts # {}
    /\ disk' = [disk EXCEPT !.fshard =
            [q \in Question |-> IF FPartOf[q] = p THEN commit.rows[q] ELSE @[q]]]
    /\ commit' = [commit EXCEPT !.fparts = @ \ {p}]
    /\ UNCHANGED <<use, view, live, lock, held, used, ghosts, history, failures>>

Committed(s) ==
    /\ lock = s /\ commit.parts = {} /\ commit.fparts = {}
    /\ lock' = None /\ commit' = None

\* The caller's view has no dirty partition any more, whatever it holds by now.
FinishSave(s) ==
    /\ At(s, "headed", "saved")
    /\ ~commit.opening
    /\ Committed(s)
    /\ view' = [view EXCEPT ![ViewOf[s]].dirty = {}, ![ViewOf[s]].fdirty = {}]
    /\ UNCHANGED <<use, disk, live, held, used, ghosts, history, failures>>

\* save_template_store returns; from here the files answer for what it saved.
Return(s) ==
    /\ At(s, "saved", "idle")
    /\ durable' = durable \cup keep[s]
    /\ keep' = [keep EXCEPT ![s] = {}]
    /\ drop' = [drop EXCEPT ![s] = {}]
    /\ UNCHANGED <<use, disk, view, live, lock, commit, held, used, history, failures>>

\* The lock times out or a write raises: dirty partitions stay dirty, what was
\* replaced stays replaced, the staging directory is removed.
SaveFails(s) ==
    /\ Fail
    /\ \/ pc[s] = "counted" /\ UNCHANGED <<lock, commit>>
       \/ pc[s] \in {"merged", "headed"} /\ lock' = None /\ commit' = None
    /\ pc' = [pc EXCEPT ![s] = IF ViewOf[s] \in live THEN "idle" ELSE "down"]
    /\ UNCHANGED <<use, disk, view, live, held, used, ghosts, history>>
-----------------------------------------------------------------------------
(***************************************************************************)
(* load_template_store.  Header rows without a body are dropped and bodies *)
(* without a header row removed, in memory; if there were any, the view is *)
(* persisted like a save before it is used.                                *)
(***************************************************************************)
Orphans == {t \in disk.head.map : disk.shard[t] = {}}
Strays == {t \in Tid : disk.shard[t] # {} /\ t \notin disk.head.map}

Repaired == [map |-> disk.head.map \ Orphans,
             next |-> disk.head.next, index |-> disk.head.index]

FromHeader == [EmptyView EXCEPT !.head = [map |-> Repaired.map, next |-> disk.head.next],
                                !.index = SetToSeq(disk.head.index)]

\* _prune_orphan_template_partition_map reads every partition the header names.
Visited(vw) ==
    LET named == SetToSeq({PartOf[t] : t \in disk.head.map})
        after[n \in 0 .. Len(named)] ==
            IF n = 0 THEN vw ELSE Loaded(after[n - 1], named[n])
    IN after[Len(named)]

\* A wrong variant: the files are taken as they are.
NeedsNoRepair == FALSE

NeedsRepair == Orphans \cup Strays # {}

SessionsOf(v) == {s \in use.sessions : ViewOf[s] = v}

Opened(v) ==
    /\ live' = live \cup {v}
    /\ pc' = [s \in Session |-> IF s \in SessionsOf(v) THEN "idle" ELSE pc[s]]

Open(s) ==
    LET v == ViewOf[s] IN
    /\ s \in SessionsOf(v) /\ pc[s] = "down" /\ v \notin live
    /\ lock = None
    /\ ~NeedsRepair
    /\ view' = [view EXCEPT ![v] = Counted(Visited(FromHeader), disk.fshard).vw]
    /\ Opened(v)
    /\ UNCHANGED <<use, disk, lock, commit, held, used, ghosts, history, failures>>

OpenAndRepair(s) ==
    LET v == ViewOf[s]
        parts == {PartOf[t] : t \in Strays} IN
    /\ s \in SessionsOf(v) /\ v \notin live
    /\ lock = None
    /\ NeedsRepair
    /\ At(s, "down", "merged")
    /\ lock' = s
    /\ commit' = [head |-> Repaired,
                  body |-> [t \in Tid |-> IF t \in Strays THEN {} ELSE disk.shard[t]],
                  rows |-> disk.fshard,
                  parts |-> parts, fparts |-> {}, opening |-> TRUE]
    /\ UNCHANGED <<use, disk, view, live, held, used, ghosts, history, failures>>

FinishOpen(s) ==
    LET v == ViewOf[s] IN
    /\ pc[s] = "headed" /\ commit.opening
    /\ Committed(s)
    /\ view' = [view EXCEPT ![v] = Counted(FromHeader, disk.fshard).vw]
    /\ Opened(v)
    /\ UNCHANGED <<use, disk, held, used, ghosts, history, failures>>

\* The process that holds view v dies; what its sessions had not saved is lost.
Crash(v) ==
    /\ Fail
    /\ \E s \in SessionsOf(v) : pc[s] # "down"
    /\ pc' = [s \in Session |-> IF ViewOf[s] = v THEN "down" ELSE pc[s]]
    /\ live' = live \ {v}
    /\ view' = [view EXCEPT ![v] = EmptyView]
    /\ held' = [s \in Session |-> IF ViewOf[s] = v THEN 0 ELSE held[s]]
    /\ keep' = [s \in Session |-> IF ViewOf[s] = v THEN {} ELSE keep[s]]
    /\ drop' = [s \in Session |-> IF ViewOf[s] = v THEN {} ELSE drop[s]]
    /\ IF lock \in SessionsOf(v)
       THEN lock' = None /\ commit' = None
       ELSE UNCHANGED <<lock, commit>>
    /\ UNCHANGED <<use, disk, used, durable, history>>

Next ==
    \/ \E s \in Session :
        \/ Reserve(s) \/ PutNew(s)
        \/ \E t \in Tid : Improve(s, t) \/ RemoveTemplate(s, t)
        \/ \E q \in Question : RecordFeedback(s, q) \/ ForgetFeedback(s, q)
        \/ CountRows(s) \/ MergeSave(s) \/ CommitHeader(s) \/ CommitShard(s)
        \/ CommitFeedback(s) \/ FinishSave(s) \/ Return(s) \/ SaveFails(s)
        \/ Open(s) \/ OpenAndRepair(s) \/ FinishOpen(s)
    \/ \E v \in View : Crash(v)

Spec == Init /\ [][Next]_vars
-----------------------------------------------------------------------------
\* What a reader of the files reaches from the header.
OnDisk == (UNION {disk.shard[t] : t \in disk.head.map})
          \cup (UNION {disk.fshard[q] : q \in disk.head.index})

\* Uses of the store.  README.md says what goes wrong in the others.
Alone == \E s \in Session : use.sessions = {s}
CacheHoldsFeedback == use.lruMax >= Cardinality(FPart)

\* When save_template_store returns to the only session of a store whose feedback
\* fits in memory, every change that it made and did not withdraw is in the files
\* and reachable from the header.
SavedIsDurable == Alone /\ CacheHoldsFeedback =>
    \A s \in Session : pc[s] = "saved" => keep[s] \subseteq OnDisk

\* When it returns to the only session, no template its caller removed is reachable.
RemovedIsGone == Alone /\ ~ May("forget") =>
    \A s \in Session : pc[s] = "saved" => drop[s] \cap OnDisk = {}

\* What a save once covered is reachable ever after, whatever fails or dies
\* between two replacements of later saves or repairs, until it is withdrawn.
StaysDurable == Alone /\ CacheHoldsFeedback => durable \subseteq OnDisk

\* No shard holds a change that no committed header accounts for, so a crash
\* inside a save never shows new bodies under an old header.
HeaderFirst == CacheHoldsFeedback =>
    Marks(disk.shard) \cup Marks(disk.fshard) \subseteq headed

\* No session is given an id that a committed header ever named.
IdNeverReissued ==
    [][\A s \in Session : held'[s] # held[s] => held'[s] \notin everMapped]_vars

\* A view that has just been opened finds header and template shards agreeing.
RepairedWhenOpened ==
    [][\A v \in live' \ live :
        \A t \in Tid : t \in view'[v].head.map <=> disk'.shard[t] # {}]_vars
=============================================================================
