------------------------ MODULE FederationTreeProofs ------------------------
(***************************************************************************)
(* Theorems of FederationTree, for any sources, declarations, owners and   *)
(* consumers, any drift and any number of faults.                          *)
(***************************************************************************)
EXTENDS FederationTree, TLAPS

ProcessStep(p) ==
    \/ OwnerOpens(p) \/ OwnerRefused(p) \/ ConsumerOpens(p) \/ ConsumerRefused(p)
    \/ NothingToReplay(p) \/ ReplayEdits(p) \/ SavePair(p)
    \/ ApplyStructure(p) \/ SupplyMap(p)
    \/ Commit(p) \/ Finish(p) \/ Fails(p) \/ RestoreFails(p) \/ Crash(p)

-----------------------------------------------------------------------------
(* The rollback *)

IsTree(t) == t = [f \in File |-> t[f]]

\* The replacement under way keeps a whole tree as its backups, and as long as no
\* restore has failed only the files it has replaced differ from it.
Reversible == job # None =>
    /\ DOMAIN job = {"puts", "done", "undo", "lost", "before"}
    /\ job.done \in Nat /\ IsTree(job.before)
    /\ ~ job.lost => \A f \in File :
          files[f] = job.before[f] \/ \E i \in 1 .. job.done : job.puts[i].file = f

Rollback == IsTree(files) /\ Reversible

\* A step of the process inside keeps it: a file is replaced after it was counted
\* among the replaced ones, and put back before it is counted out.
LEMMA RollbackStep ==
    ASSUME Rollback, NEW p \in Process, ProcessStep(p)
    PROVE  Rollback'
  <1> USE DEF Rollback, Reversible
  <1>1. CASE Replace(p)
    <2> DEFINE put == job.puts[job.done + 1]
    <2>1. /\ job # None /\ job' = [job EXCEPT !.done = job.done + 1]
          /\ files' = [files EXCEPT ![put.file] = put.content]
      BY <1>1 DEF Replace, Busy
    <2>2. IsTree(files')
      BY <2>1 DEF IsTree
    <2>3. /\ DOMAIN job' = DOMAIN job /\ job'.done = job.done + 1 /\ job'.puts = job.puts
          /\ job'.before = job.before /\ job'.lost = job.lost
      BY <2>1
    <2>4. ASSUME NEW f \in File, ~ job.lost
          PROVE  files'[f] = job.before[f] \/ \E i \in 1 .. job.done + 1 : job.puts[i].file = f
      <3>1. CASE f = put.file
        BY <3>1, <2>1
      <3>2. CASE f # put.file
        <4>1. files'[f] = files[f]
          BY <3>2, <2>1 DEF IsTree
        <4> QED
          BY <4>1, <2>1, <2>4
      <3> QED
        BY <3>1, <3>2
    <2> QED
      BY <2>1, <2>2, <2>3, <2>4
  <1>2. CASE Restore(p)
    <2> DEFINE g == job.puts[job.done].file
    <2>1. /\ job # None /\ job.done > 0 /\ job' = [job EXCEPT !.done = job.done - 1]
          /\ files' = [files EXCEPT ![g] = job.before[g]]
      BY <1>2 DEF Restore, Undoing, Busy
    <2>2. IsTree(files')
      BY <2>1 DEF IsTree
    <2>3. /\ DOMAIN job' = DOMAIN job /\ job'.done = job.done - 1 /\ job'.puts = job.puts
          /\ job'.before = job.before /\ job'.lost = job.lost
      BY <2>1
    <2>4. ASSUME NEW f \in File, ~ job.lost
          PROVE  files'[f] = job.before[f] \/ \E i \in 1 .. job.done - 1 : job.puts[i].file = f
      <3>1. CASE f = g
        BY <3>1, <2>1 DEF IsTree
      <3>2. CASE f # g
        <4>1. files'[f] = files[f]
          BY <3>2, <2>1 DEF IsTree
        <4>2. ASSUME NEW i \in 1 .. job.done, job.puts[i].file = f
              PROVE  i \in 1 .. job.done - 1
          BY <3>2, <4>2, <2>1
        <4> QED
          BY <4>1, <4>2, <2>1, <2>4
      <3> QED
        BY <3>1, <3>2
    <2> QED
      BY <2>1, <2>2, <2>3, <2>4
  <1>3. CASE Fails(p)
    BY <1>3 DEF Fails, Busy
  <1>4. CASE RestoreFails(p)
    <2>1. /\ UNCHANGED files /\ job # None /\ job.done \in Nat /\ job.done > 0
          /\ \E d \in {0, job.done - 1} : job' = [job EXCEPT !.done = d, !.lost = TRUE]
      BY <1>4 DEF RestoreFails, Undoing, Busy
    <2> QED
      BY <2>1
  <1>5. CASE UNCHANGED files /\ (UNCHANGED job \/ job' = None)
    BY <1>5
  <1>6. ASSUME NEW to, NEW puts, Begin(p, to, puts), IsTree(files')
        PROVE  Rollback'
    BY <1>6 DEF Begin, IsTree
  <1>7. CASE OwnerOpens(p)
    <2>1. PICK d \in Declaration, S \in SUBSET Source, notes \in BOOLEAN :
              /\ files' = IF PolicyActs(Live(d, S), notes) THEN Restamped(Live(d, S)) ELSE files
              /\ Begin(p, "opening", QuadPuts(Live(d, S)))
      BY <1>7 DEF OwnerOpens
    <2>2. IsTree(files')
      BY <2>1 DEF Restamped, IsTree
    <2> QED
      BY <1>6, <2>1, <2>2
  <1> QED
    BY <1>1, <1>2, <1>3, <1>4, <1>5, <1>6, <1>7 DEF ProcessStep, Commit, Finish, End,
       OwnerRefused, ConsumerOpens, ConsumerRefused, NothingToReplay, ReplayEdits,
       SavePair, ApplyStructure, SupplyMap, Raise, Opened, Replayed, Paired, Applied, Crash

LEMMA RollbackInvariant == Spec => []Rollback
<1>1. Init => Rollback
  <2>1. Init => IsTree(files) /\ job = None
    BY DEF Init, IsTree
  <2> QED
    BY <2>1 DEF Rollback, Reversible
<1>2. Rollback /\ [Next]_vars => Rollback'
  <2>1. ASSUME Rollback, Drift \/ UNCHANGED vars PROVE Rollback'
    BY <2>1 DEF Drift, vars, Rollback, Reversible
  <2> QED
    BY <2>1, RollbackStep DEF Next, ProcessStep
<1> QED
  BY <1>1, <1>2, PTL DEF Spec

\* A replacement that fails and is rolled back without a further failure leaves
\* every file as it was, whatever it replaces and however far it had come.
THEOREM RollbackComplete == Spec => RolledBack
<1>1. Rollback /\ [Next]_vars
      => [\A p \in Process : Raise(p) /\ ~ job.lost => files = job.before]_vars
  <2> SUFFICES ASSUME Rollback, NEW p \in Process, Raise(p), ~ job.lost
               PROVE  files = job.before
    OBVIOUS
  <2>1. job # None /\ job.done = 0
    BY DEF Raise, Busy
  <2>2. \A f \in File : files[f] = job.before[f]
    BY <2>1 DEF Rollback, Reversible
  <2> QED
    BY <2>1, <2>2 DEF Rollback, Reversible, IsTree
<1> QED
  BY <1>1, RollbackInvariant, PTL DEF Spec, RolledBack
-----------------------------------------------------------------------------
(* The last publication *)

\* What a publication of t leaves in the four files.
QuadOf(t, f) == IF f = "manifest" THEN t.joins
                ELSE IF f = "mappings" THEN t.maps
                ELSE IF f = "composite" THEN [of |-> t, edited |-> FALSE]
                ELSE [declares |-> t, print |-> t]

LEMMA PutsOfQuad ==
    ASSUME NEW t
    PROVE  /\ Len(QuadPuts(t)) = 4
           /\ \A f \in Quad : \E i \in 1 .. 4 : QuadPuts(t)[i].file = f
           /\ \A i \in 1 .. 4 : /\ QuadPuts(t)[i].file \in Quad
                               /\ QuadPuts(t)[i].content = QuadOf(t, QuadPuts(t)[i].file)
           /\ \A i, j \in 1 .. 4 : QuadPuts(t)[i].file = QuadPuts(t)[j].file => i = j
<1> DEFINE c == [of |-> t, edited |-> FALSE]
<1>1. /\ Len(QuadPuts(t)) = 4
      /\ QuadPuts(t)[1] = [file |-> "manifest", content |-> t.joins]
      /\ QuadPuts(t)[2] = [file |-> "mappings", content |-> t.maps]
      /\ QuadPuts(t)[3] = [file |-> "composite", content |-> c]
      /\ QuadPuts(t)[4] = [file |-> "artifact", content |-> [declares |-> t, print |-> t]]
  BY DEF QuadPuts
<1> HIDE DEF c
<1>2. 1 .. 4 = {1, 2, 3, 4}
  OBVIOUS
<1>3. \A f \in Quad : \E i \in 1 .. 4 : QuadPuts(t)[i].file = f
  BY <1>1, <1>2 DEF Quad
<1>4. \A i \in 1 .. 4 : /\ QuadPuts(t)[i].file \in Quad
                      /\ QuadPuts(t)[i].content = QuadOf(t, QuadPuts(t)[i].file)
  <2> SUFFICES ASSUME NEW i \in {1, 2, 3, 4}
               PROVE  /\ QuadPuts(t)[i].file \in Quad
                      /\ QuadPuts(t)[i].content = QuadOf(t, QuadPuts(t)[i].file)
    BY <1>2
  <2>1. CASE i = 1
    BY <1>1, <2>1 DEF Quad, QuadOf
  <2>2. CASE i = 2
    BY <1>1, <2>2 DEF Quad, QuadOf
  <2>3. CASE i = 3
    <3>1. QuadPuts(t)[3].file = "composite"
      BY <1>1
    <3>2. QuadPuts(t)[3].content = c
      BY <1>1
    <3>3. QuadOf(t, "composite") = c
      BY DEF QuadOf, c
    <3> QED
      BY <2>3, <3>1, <3>2, <3>3 DEF Quad
  <2>4. CASE i = 4
    BY <1>1, <2>4 DEF Quad, QuadOf
  <2> QED
    BY <2>1, <2>2, <2>3, <2>4
<1>5. \A i, j \in 1 .. 4 : QuadPuts(t)[i].file = QuadPuts(t)[j].file => i = j
  BY <1>1, <1>2
<1> QED
  BY <1>1, <1>3, <1>4, <1>5

\* The content the property names.
LEMMA ContentOfQuad ==
    ASSUME NEW t, NEW f \in Quad
    PROVE  (CHOOSE put \in ToSet(QuadPuts(t)) : put.file = f).content = QuadOf(t, f)
<1> DEFINE puts == ToSet(QuadPuts(t))
<1>1. puts = {QuadPuts(t)[i] : i \in 1 .. 4}
  BY DEF ToSet, QuadPuts
<1>2. \E put \in puts : put.file = f
  BY <1>1, PutsOfQuad
<1>3. \A put \in puts : put.file = f => put.content = QuadOf(t, f)
  BY <1>1, PutsOfQuad
<1>4. PICK put \in puts : put = (CHOOSE q \in puts : q.file = f) /\ put.file = f
  BY <1>2
<1> QED
  BY <1>3, <1>4

Clean(t) == \A f \in Quad :
    \/ t[f] = IF published = None THEN None ELSE QuadOf(published, f)
    \/ f = "artifact" /\ published # None /\ Seals(t[f])

UnderWay == lock # None /\ job # None

\* The process inside, and what it has written of a publication.
Inside ==
    /\ lock \in Process /\ pc[lock] \in {"opening", "saving", "pairing", "applying"}
    /\ Len(job.puts) \in Nat \ {0} /\ job.done \in 0 .. Len(job.puts)
    /\ pc[lock] = "opening" =>
        /\ graph[lock].of # None /\ job.puts = QuadPuts(graph[lock].of)
        /\ ~ job.undo => \A i \in 1 .. job.done : files[job.puts[i].file] = job.puts[i].content

\* While nothing has got in between, the files or the backups are the last
\* publication.
Kept ==
    /\ lock = None => Clean(files)
    /\ UnderWay => /\ Clean(job.before) /\ ~ job.lost
                   /\ pc[lock] # "opening" => job.done = 0

Publication ==
    /\ pc = [p \in Process |-> pc[p]] /\ graph = [p \in Process |-> graph[p]]
    /\ catalog \in 0 .. MaxDrift
    /\ UnderWay => Inside
    /\ ~ mixed => Kept

\* What an owner composes is a tree.
LEMMA LiveTree ==
    ASSUME NEW d \in Declaration, NEW S \in SUBSET Source, catalog \in 0 .. MaxDrift
    PROVE  Live(d, S) \in Tree /\ Live(d, S) # None
<1>1. d.joins \in SUBSET SUBSET Source /\ d.logical \in SUBSET SUBSET Source
  BY SourceAssumption
<1>2. Joins(d, S) \in JoinSet
  BY <1>1 DEF Joins, JoinSet
<1>3. Maps(d, S) \in MapSet
  BY <1>1 DEF Maps, MapSet
<1> QED
  BY <1>2, <1>3, NoneAssumption DEF Live, Tree

\* A replacement begins.
LEMMA BeginPublication ==
    ASSUME Publication, NEW p \in Process,
           NEW to \in {"opening", "saving", "pairing", "applying"},
           NEW puts, Len(puts) \in Nat \ {0}, Begin(p, to, puts),
           UNCHANGED <<catalog, published, mixed>>, ~ mixed => Clean(files)',
           graph' = [q \in Process |-> graph'[q]],
           to = "opening" => graph'[p].of # None /\ puts = QuadPuts(graph'[p].of)
    PROVE  Publication'
<1>1. /\ lock = None /\ lock' = p /\ lock' # None
      /\ job' = [puts |-> puts, done |-> 0, undo |-> FALSE, lost |-> FALSE, before |-> files']
      /\ pc' = [pc EXCEPT ![p] = to]
  BY ProcessAssumption DEF Begin
<1>2. pc'[p] = to /\ pc' = [q \in Process |-> pc'[q]]
  BY <1>1 DEF Publication
<1>3. Inside'
  BY <1>1, <1>2 DEF Inside
<1>4. ~ mixed' => Kept'
  BY <1>1, <1>2 DEF Publication, Kept, Clean
<1> QED
  BY <1>1, <1>2, <1>3, <1>4 DEF Publication

\* One that publishes nothing.
LEMMA OtherBegins ==
    ASSUME Publication, NEW p \in Process, NEW to \in {"saving", "pairing", "applying"},
           NEW puts, Len(puts) = 2, Begin(p, to, puts),
           UNCHANGED <<files, catalog, published, mixed>>,
           graph' = [q \in Process |-> graph'[q]]
    PROVE  Publication'
<1>1. ~ mixed => Clean(files)'
  BY DEF Begin, Publication, Kept, Clean
<1> QED
  BY <1>1, BeginPublication

\* A replacement is over, with the files as Kept has them.
LEMMA EndPublication ==
    ASSUME Publication, NEW p \in Process, NEW to, End(p, to),
           UNCHANGED <<catalog, graph>>, ~ mixed' => Clean(files)'
    PROVE  Publication'
<1>1. lock' = None /\ pc' = [pc EXCEPT ![p] = to]
  BY DEF End
<1> QED
  BY <1>1 DEF Publication, Kept, UnderWay

\* One more file is replaced.
LEMMA ReplacePublication ==
    ASSUME Rollback, Publication, NEW p \in Process, Replace(p)
    PROVE  Publication'
<1> DEFINE put == job.puts[job.done + 1]
<1>1. /\ lock = p /\ UnderWay /\ Inside /\ ~ job.undo /\ job.done < Len(job.puts)
      /\ files' = [files EXCEPT ![put.file] = put.content]
      /\ job' = [job EXCEPT !.done = job.done + 1]
      /\ mixed' = (mixed \/ pc[p] # "opening")
      /\ UNCHANGED <<lock, pc, graph, catalog, published>>
  BY ProcessAssumption DEF Replace, Busy, Publication, UnderWay
<1>2. /\ job'.done = job.done + 1 /\ job'.puts = job.puts /\ job'.before = job.before
      /\ job'.lost = job.lost /\ job'.undo = job.undo
  BY <1>1 DEF Rollback, Reversible, UnderWay
<1>3. job'.done \in 0 .. Len(job.puts)
  BY <1>1, <1>2 DEF Inside
<1>4. ASSUME pc[lock] = "opening", NEW i \in 1 .. job.done + 1
      PROVE  files'[job.puts[i].file] = job.puts[i].content
  <2>1. job.puts = QuadPuts(graph[lock].of) /\ job.done + 1 \in 1 .. 4
    BY <1>1, <1>3, <1>2, <1>4, PutsOfQuad DEF Inside
  <2>2. i \in 1 .. 4 /\ (i = job.done + 1 \/ i \in 1 .. job.done)
    BY <2>1, <1>1 DEF Inside
  <2>3. job.puts[i].file \in File
    BY <2>1, <2>2, PutsOfQuad DEF Quad, File, Content
  <2>4. CASE i = job.done + 1
    BY <1>1, <2>3, <2>4 DEF Rollback, IsTree
  <2>5. CASE i # job.done + 1
    <3>1. job.puts[i].file # put.file
      BY <2>1, <2>2, <2>5, PutsOfQuad
    <3>2. files[job.puts[i].file] = job.puts[i].content
      BY <1>1, <1>4, <2>2, <2>5 DEF Inside
    <3> QED
      BY <1>1, <2>3, <3>1, <3>2 DEF Rollback, IsTree
  <2> QED
    BY <2>4, <2>5
<1>5. Inside'
  BY <1>1, <1>2, <1>3, <1>4 DEF Inside
<1>6. ~ mixed' => Kept'
  BY <1>1, <1>2 DEF Publication, Kept, UnderWay, Clean
<1> QED
  BY <1>1, <1>5, <1>6 DEF Publication

\* A file is put back, or is not, or the rollback begins.
LEMMA UndoPublication ==
    ASSUME Rollback, Publication, NEW p \in Process,
           Restore(p) \/ RestoreFails(p) \/ Fails(p)
    PROVE  Publication'
<1>1. /\ lock = p /\ UnderWay /\ Inside
      /\ UNCHANGED <<lock, pc, graph, catalog, published>>
  BY ProcessAssumption DEF Restore, RestoreFails, Fails, Undoing, Busy, Publication, UnderWay
<1>2. /\ DOMAIN job = {"puts", "done", "undo", "lost", "before"} /\ job.done \in Nat
  BY <1>1 DEF Rollback, Reversible, UnderWay
<1>3. CASE Restore(p)
  <2>1. /\ job.done > 0 /\ job.undo /\ UNCHANGED mixed
        /\ job' = [job EXCEPT !.done = job.done - 1]
    BY <1>3 DEF Restore, Undoing
  <2>2. /\ job'.done = job.done - 1 /\ job'.puts = job.puts /\ job'.before = job.before
        /\ job'.lost = job.lost /\ job'.undo = job.undo
    BY <2>1, <1>2
  <2>3. Inside'
    BY <1>1, <2>1, <2>2 DEF Inside
  <2>4. ~ mixed' => Kept'
    BY <1>1, <1>2, <2>1, <2>2 DEF Publication, Kept, UnderWay, Clean
  <2> QED
    BY <1>1, <2>3, <2>4 DEF Publication
<1>4. CASE RestoreFails(p)
  <2>1. /\ job.done > 0 /\ job.undo /\ mixed'
        /\ \E d \in {0, job.done - 1} : job' = [job EXCEPT !.done = d, !.lost = TRUE]
    BY <1>4, <1>2 DEF RestoreFails, Undoing
  <2>2. /\ job'.done \in {0, job.done - 1} /\ job'.puts = job.puts /\ job'.undo = job.undo
    BY <2>1, <1>2
  <2>3. Inside'
    BY <1>1, <1>2, <2>1, <2>2 DEF Inside
  <2> QED
    BY <1>1, <2>1, <2>3 DEF Publication
<1>5. CASE Fails(p)
  <2>1. UNCHANGED <<files, mixed>> /\ job' = [job EXCEPT !.undo = TRUE]
    BY <1>5 DEF Fails
  <2>2. /\ job'.done = job.done /\ job'.puts = job.puts /\ job'.before = job.before
        /\ job'.lost = job.lost /\ job'.undo
    BY <2>1, <1>2
  <2>3. Inside'
    BY <1>1, <2>1, <2>2 DEF Inside
  <2>4. ~ mixed' => Kept'
    BY <1>1, <2>1, <2>2 DEF Publication, Kept, UnderWay, Clean
  <2> QED
    BY <1>1, <2>1, <2>3, <2>4 DEF Publication
<1> QED
  BY <1>3, <1>4, <1>5

\* All four files of a publication are there.
LEMMA AllReplaced ==
    ASSUME Inside, pc[lock] = "opening",
           \A i \in 1 .. Len(job.puts) : files[job.puts[i].file] = job.puts[i].content,
           UNCHANGED files, published' = graph[lock].of
    PROVE  Clean(files)'
<1>1. job.puts = QuadPuts(graph[lock].of) /\ published' # None
  BY DEF Inside
<1>2. \A f \in Quad : files[f] = QuadOf(published', f)
  BY <1>1, PutsOfQuad
<1> QED
  BY <1>1, <1>2 DEF Clean

\* A replacement ends, well or with an error.
LEMMA FinishPublication ==
    ASSUME Rollback, Publication, NEW p \in Process, Finish(p) \/ Raise(p)
    PROVE  Publication'
<1>1. lock = p /\ UnderWay /\ Inside
  BY ProcessAssumption DEF Finish, Opened, Replayed, Paired, Applied, Raise, Replaced, Busy,
     Publication, UnderWay
<1>2. CASE Opened(p)
  <2>1. ~ job.undo /\ job.done = Len(job.puts) /\ pc[lock] = "opening"
        /\ published' = graph[lock].of /\ End(p, "opened") /\ UNCHANGED <<files, catalog, graph>>
    BY <1>1, <1>2 DEF Opened, Replaced
  <2>2. Clean(files)'
    BY <1>1, <2>1, AllReplaced DEF Inside
  <2> QED
    BY <2>1, <2>2, EndPublication
<1>3. CASE Replayed(p) \/ Paired(p) \/ Applied(p)
  <2>1. /\ job.done = Len(job.puts) /\ pc[lock] # "opening" /\ (\E to : End(p, to))
        /\ UNCHANGED <<files, catalog, graph, mixed>>
    BY <1>1, <1>3 DEF Replayed, Paired, Applied, Replaced
  <2>2. ~ mixed => FALSE
    <3>1. job.done # 0
      BY <1>1, <2>1 DEF Inside
    <3> QED
      BY <1>1, <2>1, <3>1 DEF Publication, Kept
  <2> QED
    BY <2>1, <2>2, EndPublication
<1>4. CASE Raise(p)
  <2>1. /\ job.done = 0 /\ (\E to : End(p, to))
        /\ UNCHANGED <<files, catalog, graph, mixed, published>>
    BY <1>4 DEF Raise
  <2>2. ~ mixed => Clean(files)
    <3>1. Quad \subseteq File
      BY DEF Quad, File, Content
    <3> QED
      <4>1. ~ mixed => ~ job.lost /\ Clean(job.before)
        BY <1>1 DEF Publication, Kept
      <4>2. ~ job.lost => \A f \in File : files[f] = job.before[f]
        BY <1>1, <2>1 DEF Rollback, Reversible, UnderWay
      <4> QED
        BY <3>1, <4>1, <4>2 DEF Clean
  <2>3. ~ mixed' => Clean(files)'
    BY <2>1, <2>2 DEF Clean
  <2> QED
    BY <2>1, <2>3, EndPublication
<1> QED
  BY <1>2, <1>3, <1>4 DEF Finish

\* A process dies: inside, what it has replaced stays.
LEMMA CrashPublication ==
    ASSUME Publication, NEW p \in Process, Crash(p)
    PROVE  Publication'
<1>1. UNCHANGED <<files, graph, catalog>>
  BY DEF Crash
<1>2. CASE Busy(p)
  <2>1. lock = p /\ UnderWay /\ Inside /\ End(p, "out")
    BY <1>2, ProcessAssumption DEF Crash, Busy, Publication, UnderWay
  <2>2. CASE /\ \A i \in 1 .. Len(job.puts) : files[job.puts[i].file] = job.puts[i].content
             /\ pc[p] = "opening"
    <3>1. published' = graph[lock].of
      BY <1>2, <2>1, <2>2 DEF Crash
    <3> QED
      BY <1>1, <2>1, <2>2, <3>1, AllReplaced, EndPublication
  <2>3. CASE mixed' = (mixed \/ files # job.before) /\ UNCHANGED published
    <3>1. ~ mixed' => Clean(files)'
      <4>1. ~ mixed' => ~ mixed /\ files = job.before
        BY <2>3
      <4>2. ~ mixed => Clean(job.before)
        BY <2>1 DEF Publication, Kept
      <4> QED
        BY <1>1, <2>3, <4>1, <4>2 DEF Clean
    <3> QED
      BY <1>1, <2>1, <3>1, EndPublication
  <2> QED
    BY <1>2, <2>2, <2>3 DEF Crash
<1>3. CASE ~ Busy(p)
  <2>1. /\ UNCHANGED <<lock, job, published, mixed>> /\ pc' = [pc EXCEPT ![p] = "out"]
    BY <1>3 DEF Crash
  <2>2. UnderWay => lock # p
    BY <1>3 DEF Busy, UnderWay
  <2> QED
    BY <1>1, <2>1, <2>2 DEF Publication, Inside, Kept, UnderWay, Clean
<1> QED
  BY <1>2, <1>3

\* The migration policy's rewrite leaves a published tree with its manifest sealed.
LEMMA RestampedClean ==
    ASSUME Rollback, Clean(files), NEW t \in Tree, NEW notes, PolicyActs(t, notes),
           files' = Restamped(t), UNCHANGED published
    PROVE  Clean(files)'
<1> DEFINE m == [declares |-> None, print |-> t]
<1>1. m \in Manifest /\ m.declares = None
  BY DEF Manifest
<1>2. Seals(m)
  BY <1>1, NoneAssumption DEF Seals
<1> HIDE DEF m
<1>3. "artifact" \in File /\ "artifact" \in Quad
  BY DEF File, Content, Quad
<1>4. files["artifact"] # None
  BY DEF PolicyActs
<1>5. published # None
  BY <1>3, <1>4 DEF Clean
<1>6. files' = [files EXCEPT !["artifact"] = m]
  BY DEF Restamped, m
<1>7. files'["artifact"] = m /\ \A f \in Quad \ {"artifact"} : files'[f] = files[f]
  BY <1>3, <1>6 DEF Rollback, IsTree
<1> QED
  BY <1>2, <1>5, <1>7 DEF Clean

\* An operation begins a replacement or leaves the files and who is inside alone.
LEMMA OperationPublication ==
    ASSUME Rollback, Publication, NEW p \in Process,
           \/ OwnerOpens(p) \/ OwnerRefused(p) \/ ConsumerOpens(p) \/ ConsumerRefused(p)
           \/ NothingToReplay(p) \/ ReplayEdits(p) \/ SavePair(p)
           \/ ApplyStructure(p) \/ SupplyMap(p)
    PROVE  Publication'
<1>1. CASE OwnerOpens(p)
  <2>1. PICK d \in Declaration, S \in SUBSET Source, notes \in BOOLEAN :
            /\ graph' = [graph EXCEPT ![p] = [of |-> Live(d, S), edited |-> FALSE]]
            /\ files' = IF PolicyActs(Live(d, S), notes) THEN Restamped(Live(d, S)) ELSE files
            /\ Begin(p, "opening", QuadPuts(Live(d, S)))
            /\ UNCHANGED <<catalog, published, mixed>>
    BY <1>1 DEF OwnerOpens
  <2>2. graph'[p].of = Live(d, S) /\ graph' = [q \in Process |-> graph'[q]]
    BY <2>1 DEF Publication
  <2>3. /\ Live(d, S) \in Tree /\ Live(d, S) # None
        /\ Len(QuadPuts(Live(d, S))) = 4
    BY LiveTree, PutsOfQuad DEF Publication
  <2>4. Begin(p, "opening", QuadPuts(graph'[p].of)) /\ graph'[p].of # None
    BY <2>1, <2>2, <2>3
  <2>5. Len(QuadPuts(graph'[p].of)) \in Nat \ {0}
    BY <2>2, <2>3
  <2>6. UNCHANGED <<catalog, published, mixed>>
    BY <2>1
  <2>7. ~ mixed => Clean(files)
    BY <2>1 DEF Begin, Publication, Kept
  <2>8. ~ mixed => Clean(files)'
    <3>1. CASE PolicyActs(Live(d, S), notes)
      BY <2>1, <2>3, <2>6, <2>7, <3>1, RestampedClean
    <3>2. CASE ~ PolicyActs(Live(d, S), notes)
      BY <2>1, <2>6, <2>7, <3>2 DEF Clean
    <3> QED
      BY <3>1, <3>2
  <2> QED
    BY <2>2, <2>4, <2>5, <2>6, <2>8, BeginPublication
<1>2. CASE ReplayEdits(p)
  <2> DEFINE g == [graph[p] EXCEPT !.edited = TRUE]
  <2>1. /\ graph' = [graph EXCEPT ![p] = g] /\ Begin(p, "saving", SchemaPuts("composite", g))
        /\ UNCHANGED <<files, catalog, published, mixed>>
    BY <1>2 DEF ReplayEdits
  <2>2. graph' = [q \in Process |-> graph'[q]]
    BY <2>1 DEF Publication
  <2>4. Len(SchemaPuts("composite", g)) = 2
    BY DEF SchemaPuts
  <2>5. PICK puts : Begin(p, "saving", puts) /\ Len(puts) = 2
    BY <2>1, <2>4
  <2>3. UNCHANGED <<files, catalog, published, mixed>>
    BY <2>1
  <2> QED
    BY <2>2, <2>3, <2>5, OtherBegins
<1>3. CASE ApplyStructure(p)
  <2> DEFINE g == [graph[p] EXCEPT !.edited = TRUE]
  <2>1. /\ graph' = [graph EXCEPT ![p] = g] /\ Begin(p, "applying", SchemaPuts("schema", g))
        /\ UNCHANGED <<files, catalog, published, mixed>>
    BY <1>3 DEF ApplyStructure
  <2>2. graph' = [q \in Process |-> graph'[q]]
    BY <2>1 DEF Publication
  <2>4. Len(SchemaPuts("schema", g)) = 2
    BY DEF SchemaPuts
  <2>5. PICK puts : Begin(p, "applying", puts) /\ Len(puts) = 2
    BY <2>1, <2>4
  <2>3. UNCHANGED <<files, catalog, published, mixed>>
    BY <2>1
  <2> QED
    BY <2>2, <2>3, <2>5, OtherBegins
<1>4. CASE SavePair(p)
  <2>1. /\ Begin(p, "pairing", PairPuts(graph[p]))
        /\ UNCHANGED <<files, graph, catalog, published, mixed>>
    BY <1>4 DEF SavePair
  <2>2. Len(PairPuts(graph[p])) = 2 /\ graph' = [q \in Process |-> graph'[q]]
    BY <2>1 DEF PairPuts, Publication
  <2> QED
    BY <2>1, <2>2, OtherBegins
<1>5. CASE OwnerRefused(p) \/ ConsumerOpens(p) \/ ConsumerRefused(p)
  <2>1. /\ lock = None /\ UNCHANGED <<files, lock, job, catalog, published, mixed>>
        /\ \E to : pc' = [pc EXCEPT ![p] = to]
        /\ graph' = graph \/ \E g : graph' = [graph EXCEPT ![p] = g]
    BY <1>5 DEF OwnerRefused, Asks, ConsumerOpens, ConsumerRefused
  <2> QED
    BY <2>1 DEF Publication, UnderWay, Kept, Clean
<1>6. CASE NothingToReplay(p) \/ SupplyMap(p)
  <2>1. /\ pc[p] \in {"opened", "refused"} /\ \E to : pc' = [pc EXCEPT ![p] = to]
        /\ UNCHANGED <<files, lock, job, graph, catalog, published, mixed>>
    BY <1>6 DEF NothingToReplay, SupplyMap
  <2>2. UnderWay => lock # p
    BY <2>1 DEF Publication, Inside
  <2> QED
    BY <2>1, <2>2 DEF Publication, UnderWay, Inside, Kept, Clean
<1> QED
  BY <1>1, <1>2, <1>3, <1>4, <1>5, <1>6

LEMMA PublicationInvariant == Spec => []Publication
<1>1. Init => Publication
  BY FaultAssumption DEF Init, Publication, UnderWay, Kept, Clean, Quad, File, Content
<1>2. Rollback /\ Publication /\ [Next]_vars => Publication'
  <2> SUFFICES ASSUME Rollback, Publication, [Next]_vars
               PROVE  Publication'
    OBVIOUS
  <2>1. CASE Drift
    BY <2>1, FaultAssumption DEF Drift, Publication, UnderWay, Inside, Kept, Clean
  <2>2. CASE UNCHANGED vars
    BY <2>2 DEF vars, Publication, UnderWay, Inside, Kept, Clean
  <2>3. ASSUME NEW p \in Process, ProcessStep(p) PROVE Publication'
    BY <2>3, OperationPublication, ReplacePublication, UndoPublication, FinishPublication,
       CrashPublication DEF ProcessStep, Commit
  <2> QED
    BY <2>1, <2>2, <2>3 DEF Next, ProcessStep
<1> QED
  BY <1>1, <1>2, RollbackInvariant, PTL DEF Spec

\* All or nothing: outside the lock the files are the last complete publication,
\* unless a crash, a failed restore or a schema cache got in between; only the
\* artifact manifest may be one that the migration policy has sealed.
THEOREM PublishedWhole == Spec => []LastPublication
<1>1. Publication => LastPublication
  BY ContentOfQuad DEF Publication, Kept, Clean, LastPublication
<1> QED
  BY <1>1, PublicationInvariant, PTL
-----------------------------------------------------------------------------
(* What readers are served *)

\* An artifact manifest that declares a tree has the fingerprint of that tree.
Own(m) == m.declares # None => m.declares = m.print

Good(m) == m \in Manifest /\ Own(m)

Fit(t) == /\ t["composite"] \in Composite \cup {None}
          /\ t["artifact"] = None \/ Good(t["artifact"])

FitPut(put) == /\ put.file = "composite" => put.content \in Composite
               /\ put.file = "artifact" => Good(put.content)

\* An artifact manifest that declares nothing, as a schema cache leaves it.
Sealed(m) == m \in Manifest /\ m.declares = None

Waiting == \E p \in Process : pc[p] = "replayed"

\* Between the two saves of a replay no manifest declares anything, so that no
\* owner can publish and the second save keeps no foreign declaration.
SealedWhileWaiting == Waiting =>
    /\ Sealed(files["artifact"])
    /\ UnderWay => /\ Sealed(job.before["artifact"])
                  /\ \A i \in 1 .. Len(job.puts) :
                        job.puts[i].file = "artifact" => Sealed(job.puts[i].content)

Saving == UnderWay /\ pc[lock] = "saving" =>
    /\ Len(job.puts) = 2 /\ job.puts[2].file = "artifact" /\ Sealed(job.puts[2].content)
    /\ ~ job.undo /\ job.done = 2 => Sealed(files["artifact"])

Composed == \A p \in Process : pc[p] \notin {"out", "refused"} => graph[p] \in Composite

Whole ==
    /\ Composed /\ Fit(files) /\ SealedWhileWaiting /\ Saving
    /\ UnderWay => Fit(job.before) /\ \A i \in 1 .. Len(job.puts) : FitPut(job.puts[i])

\* The files of a replacement are fit.
LEMMA FitPuts ==
    /\ \A t \in Tree : \A i \in 1 .. 4 : FitPut(QuadPuts(t)[i])
    /\ \A g \in Composite, f \in {"composite", "schema"} :
          \A i \in 1 .. 2 : FitPut(SchemaPuts(f, g)[i])
    /\ \A g \in Composite, f \in {"composite", "schema"} :
          /\ Len(SchemaPuts(f, g)) = 2 /\ SchemaPuts(f, g)[1].file = f
          /\ SchemaPuts(f, g)[2].file = "artifact" /\ Sealed(SchemaPuts(f, g)[2].content)
    /\ \A g \in Composite : Sealed(files["artifact"]) =>
          /\ Len(PairPuts(g)) = 2 /\ PairPuts(g)[1].file = "composite"
          /\ PairPuts(g)[2].file = "artifact" /\ Sealed(PairPuts(g)[2].content)
          /\ \A i \in 1 .. 2 : FitPut(PairPuts(g)[i])
<1>1. 1 .. 2 = {1, 2}
  OBVIOUS
<1>2. ASSUME NEW t \in Tree, NEW i \in 1 .. 4 PROVE FitPut(QuadPuts(t)[i])
  <2>1. [of |-> t, edited |-> FALSE] \in Composite
    BY DEF Composite
  <2>2. Good([declares |-> t, print |-> t])
    BY DEF Good, Own, Manifest
  <2>3. QuadPuts(t)[i].content = QuadOf(t, QuadPuts(t)[i].file)
    BY PutsOfQuad
  <2>4. QuadOf(t, "composite") = [of |-> t, edited |-> FALSE]
    BY DEF QuadOf
  <2>5. QuadOf(t, "artifact") = [declares |-> t, print |-> t]
    BY DEF QuadOf
  <2> QED
    BY <2>1, <2>2, <2>3, <2>4, <2>5 DEF FitPut
<1>3. ASSUME NEW g \in Composite, NEW f \in {"composite", "schema"}
      PROVE  /\ Len(SchemaPuts(f, g)) = 2 /\ SchemaPuts(f, g)[1].file = f
             /\ SchemaPuts(f, g)[2].file = "artifact" /\ Sealed(SchemaPuts(f, g)[2].content)
             /\ \A i \in 1 .. 2 : FitPut(SchemaPuts(f, g)[i])
  <2> DEFINE m == [declares |-> None, print |-> g.of]
  <2>1. m \in Manifest /\ m.declares = None
    BY DEF Composite, Manifest
  <2>2. /\ Len(SchemaPuts(f, g)) = 2
        /\ SchemaPuts(f, g)[1] = [file |-> f, content |-> g]
        /\ SchemaPuts(f, g)[2] = [file |-> "artifact", content |-> m]
    BY DEF SchemaPuts
  <2> HIDE DEF m
  <2>3. Sealed(m) /\ Good(m)
    BY <2>1 DEF Sealed, Good, Own
  <2> QED
    BY <1>1, <2>2, <2>3 DEF FitPut
<1>4. ASSUME NEW g \in Composite, Sealed(files["artifact"])
      PROVE  /\ Len(PairPuts(g)) = 2 /\ PairPuts(g)[1].file = "composite"
             /\ PairPuts(g)[2].file = "artifact" /\ Sealed(PairPuts(g)[2].content)
             /\ \A i \in 1 .. 2 : FitPut(PairPuts(g)[i])
  <2> DEFINE m == [files.artifact EXCEPT !.print = g.of]
  <2>1. m \in Manifest /\ m.declares = None
    BY <1>4 DEF Sealed, Composite, Manifest
  <2>2. /\ Len(PairPuts(g)) = 2
        /\ PairPuts(g)[1] = [file |-> "composite", content |-> g]
        /\ PairPuts(g)[2] = [file |-> "artifact", content |-> m]
    BY DEF PairPuts
  <2> HIDE DEF m
  <2>3. Sealed(m) /\ Good(m)
    BY <2>1 DEF Sealed, Good, Own
  <2> QED
    BY <1>1, <2>2, <2>3 DEF FitPut
<1> QED
  BY <1>2, <1>3, <1>4

\* A manifest that declares nothing fits any tree.
LEMMA RestampedFit ==
    ASSUME Rollback, Fit(files), NEW t \in Tree
    PROVE  Fit(Restamped(t))
<1> DEFINE m == [declares |-> None, print |-> t]
<1>1. Good(m)
  BY DEF Good, Own, Manifest
<1> HIDE DEF m
<1>2. Restamped(t) = [files EXCEPT !["artifact"] = m] /\ {"composite", "artifact"} \subseteq File
  BY DEF Restamped, m, File, Content
<1> QED
  BY <1>1, <1>2 DEF Fit, Rollback, IsTree

\* A replacement of fit files begins, the graphs being as composed.
LEMMA BeginWhole ==
    ASSUME Publication, Whole, NEW p \in Process,
           NEW to \in {"opening", "saving", "pairing", "applying"},
           NEW puts, Begin(p, to, puts), Composed', Fit(files'),
           Waiting => UNCHANGED files,
           \A i \in 1 .. Len(puts) : FitPut(puts[i]),
           Waiting => \A i \in 1 .. Len(puts) :
               puts[i].file = "artifact" => Sealed(puts[i].content),
           to = "saving" => /\ Len(puts) = 2 /\ puts[2].file = "artifact"
                            /\ Sealed(puts[2].content)
    PROVE  Whole'
<1>1. /\ lock' = p
      /\ job' = [puts |-> puts, done |-> 0, undo |-> FALSE, lost |-> FALSE, before |-> files']
      /\ pc' = [pc EXCEPT ![p] = to]
  BY DEF Begin
<1>2. pc'[p] = to /\ (Waiting' => Waiting)
  BY <1>1 DEF Publication, Waiting
<1>3. SealedWhileWaiting'
  BY <1>1, <1>2 DEF Whole, SealedWhileWaiting
<1>4. Saving'
  BY <1>1, <1>2 DEF Saving
<1>5. Fit(files') /\ Fit(job'.before)
  BY <1>1
<1> QED
  BY <1>1, <1>3, <1>4, <1>5 DEF Whole, Fit

\* A replacement is over, and nobody begins to wait, or with a sealed manifest.
LEMMA EndWhole ==
    ASSUME Publication, Whole, NEW p \in Process, NEW to, End(p, to),
           UNCHANGED <<files, graph>>, UnderWay, lock = p,
           to = "replayed" => Sealed(files["artifact"])
    PROVE  Whole'
<1>1. lock' = None /\ pc' = [pc EXCEPT ![p] = to]
  BY DEF End
<1>2. Composed'
  BY <1>1 DEF Whole, Composed, Publication, Inside
<1>3. Waiting' => Waiting \/ to = "replayed"
  BY <1>1 DEF Waiting, Publication
<1> QED
  BY <1>1, <1>2, <1>3 DEF Whole, SealedWhileWaiting, Saving, UnderWay, Fit

\* Files are replaced and put back.
LEMMA CommitWhole ==
    ASSUME Rollback, Publication, Whole, NEW p \in Process,
           Replace(p) \/ Restore(p) \/ RestoreFails(p) \/ Fails(p)
    PROVE  Whole'
<1>1. /\ lock = p /\ UnderWay /\ Inside /\ UNCHANGED <<lock, pc, graph>>
      /\ DOMAIN job = {"puts", "done", "undo", "lost", "before"}
      /\ Fit(job.before) /\ \A i \in 1 .. Len(job.puts) : FitPut(job.puts[i])
      /\ IsTree(files) /\ {"composite", "artifact"} \subseteq File
  BY ProcessAssumption DEF Replace, Restore, RestoreFails, Fails, Undoing, Busy, Publication,
     UnderWay, Rollback, Reversible, Whole, File, Content
<1>2. Composed'
  BY <1>1 DEF Whole, Composed
<1>3. ASSUME NEW f, NEW c, files' = [files EXCEPT ![f] = c],
             f = "composite" => c \in Composite \cup {None},
             f = "artifact" => c = None \/ Good(c),
             f = "artifact" /\ Waiting => Sealed(c)
      PROVE  Fit(files)' /\ (Waiting => Sealed(files'["artifact"]))
  <2>1. files'["composite"] = IF f = "composite" THEN c ELSE files["composite"]
    BY <1>1, <1>3 DEF IsTree
  <2>2. files'["artifact"] = IF f = "artifact" THEN c ELSE files["artifact"]
    BY <1>1, <1>3 DEF IsTree
  <2> QED
    BY <1>3, <2>1, <2>2 DEF Whole, Fit, SealedWhileWaiting
<1>4. CASE Replace(p)
  <2> DEFINE put == job.puts[job.done + 1]
  <2>1. /\ files' = [files EXCEPT ![put.file] = put.content] /\ ~ job.undo
        /\ job' = [job EXCEPT !.done = job.done + 1] /\ job.done + 1 \in 1 .. Len(job.puts)
    BY <1>1, <1>4 DEF Replace, Inside
  <2>2. /\ job'.done = job.done + 1 /\ job'.puts = job.puts /\ job'.before = job.before
        /\ job'.undo = job.undo
    BY <1>1, <2>1
  <2>3. FitPut(put) /\ (put.file = "artifact" /\ Waiting => Sealed(put.content))
    BY <1>1, <2>1 DEF Whole, SealedWhileWaiting
  <2>4. Fit(files)' /\ (Waiting => Sealed(files'["artifact"]))
    BY <1>3, <2>1, <2>3 DEF FitPut
  <2>5. Saving'
    <3> SUFFICES ASSUME pc[lock] = "saving", job.done + 1 = 2
                 PROVE  Sealed(files'["artifact"])
      BY <1>1, <2>2 DEF Saving, Whole, UnderWay
    <3> QED
      BY <1>1, <2>1 DEF Saving, Whole, IsTree
  <2>6. SealedWhileWaiting'
    BY <1>1, <2>2, <2>4 DEF Whole, SealedWhileWaiting, Waiting, UnderWay
  <2> QED
    BY <1>1, <1>2, <2>2, <2>4, <2>5, <2>6 DEF Whole, Fit
<1>5. CASE Restore(p)
  <2> DEFINE f == job.puts[job.done].file
  <2>1. /\ files' = [files EXCEPT ![f] = job.before[f]] /\ job.undo
        /\ job' = [job EXCEPT !.done = job.done - 1]
    BY <1>1, <1>5 DEF Restore, Undoing
  <2>2. /\ job'.puts = job.puts /\ job'.before = job.before /\ job'.undo = job.undo
    BY <1>1, <2>1
  <2>3. Fit(files)' /\ (Waiting => Sealed(files'["artifact"]))
    BY <1>1, <1>3, <2>1 DEF Whole, Fit, SealedWhileWaiting
  <2>4. Saving'
    BY <1>1, <2>1, <2>2 DEF Saving, Whole, UnderWay
  <2>5. SealedWhileWaiting'
    BY <1>1, <2>2, <2>3 DEF Whole, SealedWhileWaiting, Waiting, UnderWay
  <2> QED
    BY <1>1, <1>2, <2>2, <2>3, <2>4, <2>5 DEF Whole, Fit
<1>6. CASE RestoreFails(p) \/ Fails(p)
  <2>1. /\ UNCHANGED files
        /\ \/ \E d : job' = [job EXCEPT !.done = d, !.lost = TRUE] /\ job.undo
           \/ job' = [job EXCEPT !.undo = TRUE]
    BY <1>6 DEF RestoreFails, Fails, Undoing
  <2>2. /\ job'.puts = job.puts /\ job'.before = job.before /\ job'.undo
    BY <1>1, <2>1
  <2>3. Saving'
    BY <1>1, <2>2 DEF Saving, Whole, UnderWay
  <2>4. SealedWhileWaiting'
    BY <1>1, <2>1, <2>2 DEF Whole, SealedWhileWaiting, Waiting, UnderWay
  <2> QED
    BY <1>1, <1>2, <2>1, <2>2, <2>3, <2>4 DEF Whole, Fit
<1> QED
  BY <1>4, <1>5, <1>6

\* A replacement ends, well or with an error or the death of its process.
LEMMA FinishWhole ==
    ASSUME Publication, Whole, NEW p \in Process, Finish(p) \/ Raise(p) \/ Crash(p)
    PROVE  Whole'
<1>1. UNCHANGED <<files, graph>>
  BY DEF Finish, Opened, Replayed, Paired, Applied, Raise, Crash
<1>2. CASE Busy(p) /\ \E to : End(p, to) /\ to # "replayed"
  <2>1. UnderWay /\ lock = p
    BY <1>2, ProcessAssumption DEF Busy, UnderWay
  <2> QED
    BY <1>1, <1>2, <2>1, EndWhole
<1>3. CASE Replayed(p)
  <2>1. UnderWay /\ lock = p /\ ~ job.undo /\ job.done = Len(job.puts) /\ pc[p] = "saving"
    BY <1>3, ProcessAssumption DEF Replayed, Replaced, Busy, UnderWay
  <2>2. Sealed(files["artifact"])
    BY <2>1 DEF Whole, Saving
  <2>3. End(p, "replayed")
    BY <1>3 DEF Replayed
  <2> QED
    BY <1>1, <2>1, <2>2, <2>3, EndWhole
<1>4. CASE ~ Busy(p) /\ UNCHANGED <<lock, job>> /\ pc' = [pc EXCEPT ![p] = "out"]
  <2>1. UnderWay => lock # p
    BY <1>4 DEF Busy, UnderWay
  <2>2. Waiting' => Waiting
    BY <1>4 DEF Waiting, Publication
  <2>3. Composed'
    BY <1>1, <1>4 DEF Whole, Composed, Publication
  <2>4. Saving'
    BY <1>1, <1>4, <2>1 DEF Whole, Saving, UnderWay, Publication, Inside
  <2>5. SealedWhileWaiting'
    BY <1>1, <1>4, <2>2 DEF Whole, SealedWhileWaiting, UnderWay
  <2> QED
    BY <1>1, <1>4, <2>3, <2>4, <2>5 DEF Whole, Fit, UnderWay
<1>5. CASE Opened(p) \/ Paired(p) \/ Applied(p) \/ Raise(p)
  <2>1. Busy(p) /\ \E to \in {"opened", "ready", "recompose", "out"} : End(p, to)
    BY <1>5 DEF Opened, Paired, Applied, Raise, Replaced
  <2> QED
    BY <1>2, <2>1
<1>6. CASE Crash(p)
  <2>1. CASE Busy(p)
    BY <1>2, <1>6, <2>1 DEF Crash
  <2>2. CASE ~ Busy(p)
    BY <1>4, <1>6, <2>2 DEF Crash
  <2> QED
    BY <2>1, <2>2
<1> QED
  BY <1>3, <1>5, <1>6 DEF Finish

\* Nobody publishes over a manifest that declares nothing.
LEMMA SealedStops ==
    ASSUME Sealed(files["artifact"]), NEW d, NEW S
    PROVE  ~ Publishes(d, S)
<1>1. files["artifact"] # None
  BY NoneAssumption DEF Sealed
<1>2. ~ Coherent(files)
  BY <1>1 DEF Sealed, Coherent, Quad
<1> QED
  BY <1>1, <1>2 DEF Publishes, TakenForStale, ReplayMatches

\* An operation begins a replacement or leaves files and replacements alone.
LEMMA OperationWhole ==
    ASSUME Rollback, Publication, Whole, NEW p \in Process,
           \/ OwnerOpens(p) \/ OwnerRefused(p) \/ ConsumerOpens(p) \/ ConsumerRefused(p)
           \/ NothingToReplay(p) \/ ReplayEdits(p) \/ SavePair(p)
           \/ ApplyStructure(p) \/ SupplyMap(p)
    PROVE  Whole'
<1>0. pc = [q \in Process |-> pc[q]] /\ graph = [q \in Process |-> graph[q]]
  BY DEF Publication
<1>1. CASE OwnerOpens(p)
  <2>1. PICK d \in Declaration, S \in SUBSET Source, notes \in BOOLEAN :
            /\ graph' = [graph EXCEPT ![p] = [of |-> Live(d, S), edited |-> FALSE]]
            /\ Begin(p, "opening", QuadPuts(Live(d, S))) /\ Publishes(d, S)
            /\ files' = IF PolicyActs(Live(d, S), notes) THEN Restamped(Live(d, S)) ELSE files
    BY <1>1 DEF OwnerOpens
  <2>2. Live(d, S) \in Tree
    BY LiveTree DEF Publication
  <2>3. graph'[p] \in Composite /\ \A q \in Process \ {p} : graph'[q] = graph[q] /\ pc'[q] = pc[q]
    <3>1. [of |-> Live(d, S), edited |-> FALSE] \in Composite
      BY <2>2 DEF Composite
    <3> QED
      BY <1>0, <2>1, <3>1 DEF Begin
  <2>4. Composed'
    BY <2>3 DEF Whole, Composed
  <2>5. ~ Waiting
    BY <2>1, SealedStops DEF Whole, SealedWhileWaiting
  <2>6. Len(QuadPuts(Live(d, S))) = 4 /\ \A i \in 1 .. 4 : FitPut(QuadPuts(Live(d, S))[i])
    BY <2>2, FitPuts, PutsOfQuad
  <2>7. Fit(files')
    BY <2>1, <2>2, RestampedFit DEF Whole
  <2> QED
    BY <2>1, <2>4, <2>5, <2>6, <2>7, BeginWhole
<1>2. ASSUME NEW f \in {"composite", "schema"}, NEW to \in {"saving", "applying"},
             pc[p] \in {"opened", "ready"}, UNCHANGED files,
             graph' = [graph EXCEPT ![p] = [graph[p] EXCEPT !.edited = TRUE]],
             Begin(p, to, SchemaPuts(f, [graph[p] EXCEPT !.edited = TRUE]))
      PROVE  Whole'
  <2> DEFINE g == [graph[p] EXCEPT !.edited = TRUE]
  <2>1. g \in Composite
    BY <1>2 DEF Whole, Composed, Composite
  <2>2. graph'[p] = g /\ \A q \in Process \ {p} : graph'[q] = graph[q] /\ pc'[q] = pc[q]
    BY <1>0, <1>2 DEF Begin
  <2>3. Composed'
    BY <2>1, <2>2 DEF Whole, Composed
  <2>4. PICK puts : puts = SchemaPuts(f, g)
    OBVIOUS
  <2> HIDE DEF g
  <2>5. /\ Len(puts) = 2 /\ puts[1].file = f /\ puts[2].file = "artifact"
        /\ Sealed(puts[2].content) /\ \A i \in 1 .. 2 : FitPut(puts[i])
    BY <2>1, <2>4, FitPuts
  <2>6. \A i \in 1 .. 2 : puts[i].file = "artifact" => Sealed(puts[i].content)
    BY <2>5
  <2>7. Begin(p, to, puts)
    BY <1>2, <2>4 DEF g
  <2> QED
    BY <1>2, <2>3, <2>5, <2>6, <2>7, BeginWhole DEF Whole, Fit
<1>3. CASE ReplayEdits(p) \/ ApplyStructure(p)
  BY <1>2, <1>3 DEF ReplayEdits, ApplyStructure
<1>4. CASE SavePair(p)
  <2>1. Begin(p, "pairing", PairPuts(graph[p])) /\ UNCHANGED <<files, graph>> /\ pc[p] = "replayed"
    BY <1>4 DEF SavePair
  <2>2. graph[p] \in Composite /\ Sealed(files["artifact"])
    BY <2>1 DEF Whole, Composed, SealedWhileWaiting, Waiting
  <2>3. PICK puts : puts = PairPuts(graph[p])
    OBVIOUS
  <2>4. /\ Len(puts) = 2 /\ puts[1].file = "composite" /\ puts[2].file = "artifact"
        /\ Sealed(puts[2].content) /\ \A i \in 1 .. 2 : FitPut(puts[i])
    BY <2>2, <2>3, FitPuts
  <2>5. \A i \in 1 .. 2 : puts[i].file = "artifact" => Sealed(puts[i].content)
    BY <2>4
  <2>6. Composed'
    BY <1>0, <2>1, <2>2 DEF Whole, Composed, Begin
  <2>7. Begin(p, "pairing", puts)
    BY <2>1, <2>3
  <2>8. Fit(files') /\ UNCHANGED files
    BY <2>1 DEF Whole, Fit
  <2> QED
    BY <2>1, <2>4, <2>5, <2>6, <2>7, <2>8, BeginWhole
<1>5. ASSUME UNCHANGED <<files, lock, job>>, NEW to, to # "replayed",
             pc' = [pc EXCEPT ![p] = to], UnderWay => lock # p, Composed'
      PROVE  Whole'
  <2>1. Waiting' => Waiting
    BY <1>0, <1>5 DEF Waiting
  <2>2. Saving'
    BY <1>0, <1>5 DEF Whole, Saving, UnderWay, Publication, Inside
  <2>3. SealedWhileWaiting'
    BY <1>5, <2>1 DEF Whole, SealedWhileWaiting, UnderWay
  <2> QED
    BY <1>5, <2>2, <2>3 DEF Whole, Fit, UnderWay
<1>6. CASE OwnerRefused(p) \/ ConsumerRefused(p) \/ SupplyMap(p) \/ NothingToReplay(p)
  <2>1. PICK to \in {"refused", "out", "ready"} :
            /\ pc' = [pc EXCEPT ![p] = to] /\ UNCHANGED <<files, lock, job, graph>>
            /\ to = "ready" => pc[p] = "opened"
    BY <1>6 DEF OwnerRefused, ConsumerRefused, SupplyMap, NothingToReplay
  <2>2. lock = None \/ pc[p] \in {"opened", "refused"}
    BY <1>6 DEF OwnerRefused, Asks, ConsumerRefused, SupplyMap, NothingToReplay
  <2>3. UnderWay => lock # p
    BY <2>2 DEF UnderWay, Publication, Inside
  <2>4. Composed'
    BY <1>0, <2>1 DEF Whole, Composed
  <2> QED
    BY <1>5, <2>1, <2>3, <2>4
<1>7. CASE ConsumerOpens(p)
  <2> DEFINE g == [files.composite EXCEPT !.of.members = @ \cap Visible]
  <2>1. /\ lock = None /\ Loadable(files) /\ graph' = [graph EXCEPT ![p] = g]
        /\ pc' = [pc EXCEPT ![p] = "opened"] /\ UNCHANGED <<files, lock, job>>
    BY <1>7 DEF ConsumerOpens
  <2>2. files.composite \in Composite
    BY <2>1 DEF Loadable, Whole, Fit
  <2>3. g \in Composite
    BY <2>2 DEF Composite, Tree
  <2>4. Composed'
    BY <1>0, <2>1, <2>3 DEF Whole, Composed
  <2> QED
    BY <1>5, <2>1, <2>4 DEF UnderWay
<1> QED
  BY <1>1, <1>3, <1>4, <1>6, <1>7

LEMMA WholeInvariant == Spec => []Whole
<1>1. Init => Whole
  BY DEF Init, Whole, Composed, Fit, SealedWhileWaiting, Saving, Waiting, UnderWay, File, Content
<1>2. Rollback /\ Publication /\ Whole /\ [Next]_vars => Whole'
  <2> SUFFICES ASSUME Rollback, Publication, Whole, [Next]_vars
               PROVE  Whole'
    OBVIOUS
  <2>1. CASE Drift \/ UNCHANGED vars
    BY <2>1 DEF Drift, vars, Whole, Composed, Fit, SealedWhileWaiting, Saving, Waiting, UnderWay
  <2>2. ASSUME NEW p \in Process, ProcessStep(p) PROVE Whole'
    BY <2>2, OperationWhole, CommitWhole, FinishWhole DEF ProcessStep, Commit
  <2> QED
    BY <2>1, <2>2 DEF Next, ProcessStep
<1> QED
  BY <1>1, <1>2, RollbackInvariant, PublicationInvariant, PTL DEF Spec

\* What a reader is served is one publication: a composite graph that is loaded was
\* composed of what the three files beside it name, at every moment, whatever was
\* interrupted or half rolled back and however many owners and consumers take part.
THEOREM ReadersServedWhole == Spec => []ServedWhole
<1>1. Whole => ServedWhole
  <2> SUFFICES ASSUME Whole, Loadable(files)
               PROVE  /\ files.manifest = files.composite.of.joins
                      /\ files.mappings = files.composite.of.maps
                      /\ files.artifact.declares = files.composite.of
    BY DEF ServedWhole
  <2>1. /\ files["artifact"] # None /\ files.artifact.declares # None
        /\ files.artifact.declares.joins = files.manifest
        /\ files.artifact.declares.maps = files.mappings
        /\ files.artifact.print = files.composite.of
    BY DEF Loadable, Coherent, Quad
  <2> QED
    BY <2>1 DEF Whole, Fit, Good, Own
<1> QED
  BY <1>1, WholeInvariant, PTL
-----------------------------------------------------------------------------
(* Types *)

Place == {"out", "refused", "opening", "opened", "saving",
          "replayed", "pairing", "ready", "applying", "recompose"}

\* Who replaces what, with which backups ...
LockTyped ==
    /\ lock \in Process \cup {None} /\ job \in Job \cup {None} /\ (lock = None <=> job = None)
    /\ job # None => job.done \in 0 .. Len(job.puts)
    /\ pc \in [Process -> Place]

\* ... and what is in the files, in memory and at the sources.
DataTyped ==
    /\ files \in FileTree
    /\ applied \in (SUBSET SUBSET Source) \cup {None} /\ sidecar \in Composite \cup {None}
    /\ map \in BOOLEAN /\ mixed \in BOOLEAN
    /\ graph \in [Process -> Composite \cup {None}]
    /\ catalog \in 0 .. MaxDrift /\ faults \in 0 .. MaxFaults
    /\ published \in Tree \cup {None}

\* Each file is replaced by contents of its own kind.
LEMMA PutsTyped ==
    /\ \A t \in Tree : QuadPuts(t) \in Seq(Put)
    /\ \A g \in Composite, f \in {"composite", "schema"} : SchemaPuts(f, g) \in Seq(Put)
    /\ \A g \in Composite : Sealed(files["artifact"]) => PairPuts(g) \in Seq(Put)
<1>1. ASSUME NEW f \in File, NEW c \in Content[f] PROVE [file |-> f, content |-> c] \in Put
  BY DEF Put
<1>2. /\ File = {"manifest", "mappings", "composite", "artifact", "schema"}
      /\ Content["manifest"] = JoinSet /\ Content["mappings"] = MapSet
      /\ Content["composite"] = Composite /\ Content["artifact"] = Manifest
      /\ Content["schema"] = Composite
  BY DEF File, Content
<1>3. ASSUME NEW t \in Tree PROVE QuadPuts(t) \in Seq(Put)
  <2>1. t.joins \in JoinSet /\ t.maps \in MapSet
    BY DEF Tree
  <2>2. [of |-> t, edited |-> FALSE] \in Composite
    BY DEF Composite
  <2>3. [declares |-> t, print |-> t] \in Manifest
    BY DEF Manifest
  <2>4. /\ [file |-> "manifest", content |-> t.joins] \in Put
        /\ [file |-> "mappings", content |-> t.maps] \in Put
    BY <1>1, <1>2, <2>1
  <2>5. [file |-> "composite", content |-> [of |-> t, edited |-> FALSE]] \in Put
    BY <1>1, <1>2, <2>2
  <2>6. [file |-> "artifact", content |-> [declares |-> t, print |-> t]] \in Put
    BY <1>1, <1>2, <2>3
  <2> QED
    BY <2>4, <2>5, <2>6 DEF QuadPuts
<1>4. ASSUME NEW g \in Composite, NEW f \in {"composite", "schema"}
      PROVE  SchemaPuts(f, g) \in Seq(Put)
  <2>1. [declares |-> None, print |-> g.of] \in Manifest
    BY DEF Manifest, Composite
  <2>2. [file |-> f, content |-> g] \in Put
    BY <1>1, <1>2
  <2>3. [file |-> "artifact", content |-> [declares |-> None, print |-> g.of]] \in Put
    BY <1>1, <1>2, <2>1
  <2> QED
    BY <2>2, <2>3 DEF SchemaPuts
<1>5. ASSUME NEW g \in Composite, Sealed(files["artifact"]) PROVE PairPuts(g) \in Seq(Put)
  <2>1. [files.artifact EXCEPT !.print = g.of] \in Manifest
    BY <1>5 DEF Sealed, Manifest, Composite
  <2>2. [file |-> "composite", content |-> g] \in Put
    BY <1>1, <1>2
  <2>3. [file |-> "artifact", content |-> [files.artifact EXCEPT !.print = g.of]] \in Put
    BY <1>1, <1>2, <2>1
  <2> QED
    BY <2>2, <2>3 DEF PairPuts
<1> QED
  BY <1>3, <1>4, <1>5

LEMMA RestampedTyped ==
    ASSUME files \in FileTree, NEW t \in Tree
    PROVE  Restamped(t) \in FileTree
<1> DEFINE m == [declares |-> None, print |-> t]
<1>1. m \in Manifest
  BY DEF Manifest
<1> HIDE DEF m
<1>2. Restamped(t) = [files EXCEPT !["artifact"] = m]
  BY DEF Restamped, m
<1>3. "artifact" \in File /\ Content["artifact"] = Manifest
  BY DEF File, Content
<1>4. m \in {None} \cup UNION {Content[g] : g \in File}
  BY <1>1, <1>3
<1> QED
  BY <1>1, <1>2, <1>3, <1>4 DEF FileTree

LEMMA BeginTyped ==
    ASSUME LockTyped, files' \in FileTree, NEW p \in Process, NEW to \in Place,
           NEW puts \in Seq(Put), Begin(p, to, puts)
    PROVE  LockTyped'
<1>1. /\ lock' = p /\ pc' = [pc EXCEPT ![p] = to]
      /\ job' = [puts |-> puts, done |-> 0, undo |-> FALSE, lost |-> FALSE, before |-> files']
  BY DEF Begin
<1>2. job' \in Job
  BY <1>1 DEF Job
<1>3. job' # None /\ lock' # None
  BY <1>1, <1>2, NoneAssumption, ProcessAssumption
<1>4. job'.done \in 0 .. Len(job'.puts)
  BY <1>1
<1> QED
  BY <1>1, <1>2, <1>3, <1>4 DEF LockTyped

LEMMA EndTyped ==
    ASSUME LockTyped, NEW p \in Process, NEW to \in Place, End(p, to)
    PROVE  LockTyped'
  BY DEF LockTyped, End

\* Files are replaced and put back, each by contents of its own kind.
LEMMA CommitTyped ==
    ASSUME LockTyped, DataTyped, NEW p \in Process,
           Replace(p) \/ Restore(p) \/ Fails(p) \/ RestoreFails(p)
    PROVE  LockTyped' /\ DataTyped'
<1>1. /\ job # None /\ job \in Job /\ job.puts \in Seq(Put) /\ job.done \in 0 .. Len(job.puts)
      /\ job.before \in FileTree /\ UNCHANGED <<lock, pc>> /\ Len(job.puts) \in Nat
  BY DEF Replace, Restore, Fails, RestoreFails, Undoing, Busy, LockTyped, Job
<1>2. ASSUME NEW f \in File, NEW c \in Content[f] \cup {None}, files' = [files EXCEPT ![f] = c]
      PROVE  files' \in FileTree
  <2>1. c \in {None} \cup UNION {Content[g] : g \in File}
    OBVIOUS
  <2> QED
    BY <1>2, <2>1 DEF DataTyped, FileTree
<1>3. ASSUME job' \in Job, job'.done \in 0 .. Len(job.puts), job'.puts = job.puts
      PROVE  LockTyped'
  <2>1. job' # None
    BY <1>3, NoneAssumption
  <2> QED
    BY <1>1, <1>3, <2>1 DEF LockTyped
<1>4. faults' \in 0 .. MaxFaults
  BY FaultAssumption DEF Replace, Restore, Fails, RestoreFails, Fault, DataTyped
<1>5. mixed' \in BOOLEAN /\ UNCHANGED <<applied, sidecar, map, graph, catalog, published>>
  BY DEF Replace, Restore, Fails, RestoreFails, DataTyped
<1>7. CASE Replace(p)
  <2>1. job.done + 1 \in 1 .. Len(job.puts)
    BY <1>1, <1>7 DEF Replace
  <2>2. job.puts[job.done + 1] \in Put
    BY <1>1, <2>1
  <2>3. PICK f \in File : job.puts[job.done + 1] \in [file : {f}, content : Content[f]]
    BY <2>2 DEF Put
  <2>4. PICK c \in Content[f] : files' = [files EXCEPT ![f] = c]
    BY <1>7, <2>3 DEF Replace
  <2>5. job' \in Job /\ job'.done = job.done + 1 /\ job'.puts = job.puts
    BY <1>1, <1>7, <2>1 DEF Replace, Job
  <2>6. files' \in FileTree
    BY <1>2, <2>4
  <2>7. LockTyped'
    BY <1>1, <1>3, <2>1, <2>5
  <2> QED
    BY <1>4, <1>5, <2>6, <2>7 DEF DataTyped
<1>8. CASE Restore(p)
  <2>1. job.done \in 1 .. Len(job.puts)
    BY <1>1, <1>8 DEF Restore, Undoing
  <2>2. job.puts[job.done] \in Put
    BY <1>1, <2>1
  <2>3. PICK f \in File : job.puts[job.done] \in [file : {f}, content : Content[f]]
    BY <2>2 DEF Put
  <2>4. files' = [files EXCEPT ![f] = job.before[f]]
    BY <1>8, <2>3 DEF Restore
  <2>5. job.before[f] \in Content[f] \cup {None}
    BY <1>1 DEF FileTree
  <2>6. job.done - 1 \in 0 .. Len(job.puts) /\ job.done - 1 \in Nat
    BY <1>1, <2>1
  <2>7. job' \in Job /\ job'.done = job.done - 1 /\ job'.puts = job.puts
    BY <1>1, <1>8, <2>6 DEF Restore, Job
  <2>8. files' \in FileTree /\ LockTyped'
    BY <1>2, <1>3, <2>4, <2>5, <2>6, <2>7
  <2> QED
    BY <1>4, <1>5, <2>8 DEF DataTyped
<1>9. CASE Fails(p)
  <2>1. job' \in Job /\ job'.done = job.done /\ job'.puts = job.puts
    BY <1>1, <1>9 DEF Fails, Job
  <2> QED
    BY <1>1, <1>3, <1>4, <1>5, <1>9, <2>1 DEF Fails, DataTyped
<1>10. CASE RestoreFails(p)
  <2>1. PICK d \in {0, job.done - 1} :
            job' = [job EXCEPT !.done = d, !.lost = TRUE]
    BY <1>10 DEF RestoreFails
  <2>2. d \in 0 .. Len(job.puts) /\ d \in Nat
    BY <1>1, <1>10 DEF RestoreFails, Undoing
  <2>3. job' \in Job /\ job'.done = d /\ job'.puts = job.puts
    BY <1>1, <2>1, <2>2 DEF Job
  <2>4. LockTyped'
    BY <1>3, <2>2, <2>3
  <2> QED
    BY <1>4, <1>5, <1>10, <2>4 DEF RestoreFails, DataTyped
<1> QED
  BY <1>7, <1>8, <1>9, <1>10

LEMMA FinishTyped ==
    ASSUME LockTyped, DataTyped, Composed, NEW p \in Process, Finish(p) \/ Raise(p) \/ Crash(p)
    PROVE  LockTyped' /\ DataTyped'
<1>1. CASE Crash(p)
  <2>1. LockTyped'
    <3>1. CASE Busy(p)
      BY <1>1, <3>1, EndTyped DEF Crash, Place
    <3>2. CASE ~ Busy(p)
      BY <1>1, <3>2 DEF Crash, LockTyped, Place
    <3> QED
      BY <3>1, <3>2
  <2>2. faults' \in 0 .. MaxFaults /\ UNCHANGED <<files, applied, sidecar, map, graph, catalog>>
    BY <1>1, FaultAssumption DEF Crash, Fault, DataTyped
  <2>3. published' \in Tree \cup {None} /\ mixed' \in BOOLEAN
    <3>1. CASE UNCHANGED published /\ mixed' \in BOOLEAN
      BY <3>1 DEF DataTyped
    <3>2. CASE pc[p] = "opening" /\ published' = graph[p].of /\ mixed' = FALSE
      BY <3>2 DEF Composed, Composite
    <3>3. mixed \in BOOLEAN
      BY DEF DataTyped
    <3> QED
      BY <1>1, <3>1, <3>2, <3>3 DEF Crash
  <2> QED
    BY <2>1, <2>2, <2>3 DEF DataTyped
<1>2. CASE Raise(p) \/ Replayed(p) \/ Paired(p)
  <2>1. \E to \in Place : End(p, to)
    BY <1>2 DEF Raise, Replayed, Paired, Place
  <2>2. UNCHANGED <<files, applied, sidecar, map, graph, catalog, published, mixed, faults>>
    BY <1>2 DEF Raise, Replayed, Paired
  <2> QED
    BY <2>1, <2>2, EndTyped DEF DataTyped
<1>3. CASE Opened(p)
  <2>1. pc[p] = "opening" /\ End(p, "opened")
    BY <1>3 DEF Opened
  <2>2. graph[p].of \in Tree
    BY <2>1 DEF Composed, Composite
  <2>3. {m.name : m \in graph[p].of.maps} \in SUBSET SUBSET Source
    BY <2>2 DEF Tree, MapSet
  <2>4. LockTyped'
    BY <2>1, EndTyped DEF Place
  <2> QED
    BY <1>3, <2>2, <2>3, <2>4 DEF Opened, DataTyped
<1>4. CASE Applied(p)
  <2>1. pc[p] = "applying" /\ End(p, "recompose")
    BY <1>4 DEF Applied
  <2>2. graph[p] \in Composite
    BY <2>1 DEF Composed
  <2>3. LockTyped'
    BY <2>1, EndTyped DEF Place
  <2> QED
    BY <1>4, <2>2, <2>3 DEF Applied, DataTyped
<1> QED
  BY <1>1, <1>2, <1>3, <1>4 DEF Finish

LEMMA OperationTyped ==
    ASSUME LockTyped, DataTyped, Composed, SealedWhileWaiting, NEW p \in Process,
           \/ OwnerOpens(p) \/ OwnerRefused(p) \/ ConsumerOpens(p) \/ ConsumerRefused(p)
           \/ NothingToReplay(p) \/ ReplayEdits(p) \/ SavePair(p)
           \/ ApplyStructure(p) \/ SupplyMap(p)
    PROVE  LockTyped' /\ DataTyped'
<1>1. ASSUME NEW d \in Declaration, NEW S \in SUBSET Source
      PROVE  AppliedBy(d, S) \in (SUBSET SUBSET Source) \cup {None}
  <2>1. Maps(d, S) \in MapSet
    BY LiveTree DEF DataTyped, Live, Tree
  <2>2. Names(d, S) \in SUBSET SUBSET Source
    BY <2>1 DEF Names, MapSet
  <2> QED
    BY <2>2 DEF AppliedBy, DataTyped
<1>2. ASSUME NEW g \in Composite, graph' = [graph EXCEPT ![p] = g]
      PROVE  graph' \in [Process -> Composite \cup {None}]
  BY <1>2 DEF DataTyped
<1>3. CASE OwnerOpens(p)
  <2>1. PICK d \in Declaration, S \in SUBSET Source, notes \in BOOLEAN :
            /\ graph' = [graph EXCEPT ![p] = [of |-> Live(d, S), edited |-> FALSE]]
            /\ Begin(p, "opening", QuadPuts(Live(d, S))) /\ applied' = AppliedBy(d, S)
            /\ files' = IF PolicyActs(Live(d, S), notes) THEN Restamped(Live(d, S)) ELSE files
            /\ UNCHANGED <<sidecar, map, catalog, published, mixed, faults>>
    BY <1>3 DEF OwnerOpens
  <2>2. Live(d, S) \in Tree /\ [of |-> Live(d, S), edited |-> FALSE] \in Composite
    BY LiveTree DEF DataTyped, Composite
  <2>4. files' \in FileTree
    BY <2>1, <2>2, RestampedTyped DEF DataTyped
  <2>3. LockTyped'
    BY <2>1, <2>2, <2>4, PutsTyped, BeginTyped DEF Place
  <2> QED
    BY <1>1, <1>2, <2>1, <2>2, <2>3, <2>4 DEF DataTyped
<1>4. CASE OwnerRefused(p)
  BY <1>1, <1>4 DEF OwnerRefused, LockTyped, DataTyped, Place
<1>5. CASE ConsumerOpens(p)
  <2>1. Loadable(files) /\ graph' = [graph EXCEPT ![p] =
            [files.composite EXCEPT !.of.members = files.composite.of.members \cap Visible]]
    BY <1>5 DEF ConsumerOpens
  <2>2. files.composite \in Composite
    <3>1. "composite" \in File /\ Content["composite"] = Composite
      BY DEF File, Content
    <3> QED
      BY <2>1, <3>1 DEF Loadable, DataTyped, FileTree
  <2>3. [files.composite EXCEPT !.of.members = files.composite.of.members \cap Visible]
          \in Composite
    BY <2>2 DEF Composite, Tree
  <2>4. graph' \in [Process -> Composite \cup {None}]
    BY <1>2, <2>1, <2>3
  <2> QED
    BY <1>5, <2>4 DEF ConsumerOpens, LockTyped, DataTyped, Place
<1>6. CASE ConsumerRefused(p) \/ NothingToReplay(p) \/ SupplyMap(p)
  BY <1>6 DEF ConsumerRefused, NothingToReplay, SupplyMap, LockTyped, DataTyped, Place
<1>7. ASSUME pc[p] \in {"opened", "ready"} PROVE [graph[p] EXCEPT !.edited = TRUE] \in Composite
  BY <1>7 DEF Composed, Composite
<1>8. CASE ReplayEdits(p)
  <2> DEFINE g == [graph[p] EXCEPT !.edited = TRUE]
  <2>1. /\ graph' = [graph EXCEPT ![p] = g] /\ sidecar' = g
        /\ Begin(p, "saving", SchemaPuts("composite", g)) /\ pc[p] = "opened"
        /\ UNCHANGED <<files, applied, map, catalog, published, mixed, faults>>
    BY <1>8 DEF ReplayEdits
  <2>2. g \in Composite
    BY <1>7, <2>1
  <2> HIDE DEF g
  <2>3. LockTyped'
    BY <2>1, <2>2, PutsTyped, BeginTyped DEF DataTyped, Place
  <2> QED
    BY <1>2, <2>1, <2>2, <2>3 DEF DataTyped
<1>9. CASE ApplyStructure(p)
  <2> DEFINE g == [graph[p] EXCEPT !.edited = TRUE]
  <2>1. /\ graph' = [graph EXCEPT ![p] = g]
        /\ Begin(p, "applying", SchemaPuts("schema", g)) /\ pc[p] = "ready"
        /\ UNCHANGED <<files, applied, sidecar, map, catalog, published, mixed, faults>>
    BY <1>9 DEF ApplyStructure
  <2>2. g \in Composite
    BY <1>7, <2>1
  <2> HIDE DEF g
  <2>3. LockTyped'
    BY <2>1, <2>2, PutsTyped, BeginTyped DEF DataTyped, Place
  <2> QED
    BY <1>2, <2>1, <2>2, <2>3 DEF DataTyped
<1>10. CASE SavePair(p)
  <2>1. Begin(p, "pairing", PairPuts(graph[p])) /\ pc[p] = "replayed"
    BY <1>10 DEF SavePair
  <2>2. graph[p] \in Composite /\ Sealed(files["artifact"])
    BY <2>1 DEF Composed, SealedWhileWaiting, Waiting
  <2>4. files' \in FileTree
    BY <1>10 DEF SavePair, DataTyped
  <2>3. LockTyped'
    BY <2>1, <2>2, <2>4, PutsTyped, BeginTyped DEF DataTyped, Place
  <2> QED
    BY <1>10, <2>3 DEF SavePair, DataTyped
<1> QED
  BY <1>3, <1>4, <1>5, <1>6, <1>8, <1>9, <1>10

\* The variables keep their types: each of the five files holds contents of its own
\* kind at every moment of a replacement or a roll-back, and the lock is held exactly
\* while a replacement is under way.
THEOREM Typing == Spec => []TypeOK
<1>1. Init => LockTyped /\ DataTyped
  <2>1. Init => files \in FileTree
    BY DEF Init, FileTree
  <2>2. Init => LockTyped
    BY DEF Init, LockTyped, Place
  <2>3. Init => catalog \in 0 .. MaxDrift /\ faults \in 0 .. MaxFaults
    BY FaultAssumption DEF Init
  <2> QED
    BY <2>1, <2>2, <2>3 DEF Init, DataTyped
<1>2. Whole /\ LockTyped /\ DataTyped /\ [Next]_vars => LockTyped' /\ DataTyped'
  <2> SUFFICES ASSUME Whole, LockTyped, DataTyped, [Next]_vars PROVE LockTyped' /\ DataTyped'
    OBVIOUS
  <2>1. CASE Drift \/ UNCHANGED vars
    BY <2>1, FaultAssumption DEF Drift, vars, LockTyped, DataTyped
  <2>2. ASSUME NEW p \in Process, ProcessStep(p) PROVE LockTyped' /\ DataTyped'
    BY <2>2, OperationTyped, CommitTyped, FinishTyped DEF ProcessStep, Commit, Whole
  <2> QED
    BY <2>1, <2>2 DEF Next, ProcessStep
<1>3. LockTyped /\ DataTyped => TypeOK
  <2> SUFFICES ASSUME LockTyped, DataTyped PROVE TypeOK
    OBVIOUS
  <2>1. DOMAIN files = File /\ \A f \in File : files[f] \in Content[f] \cup {None}
    BY DEF DataTyped, FileTree
  <2>2. job # None => job.undo \in BOOLEAN /\ job.lost \in BOOLEAN
    BY DEF LockTyped, Job
  <2> QED
    BY <2>1, <2>2 DEF TypeOK, LockTyped, DataTyped, Place
<1> QED
  BY <1>1, <1>2, <1>3, WholeInvariant, PTL DEF Spec
=============================================================================
