-------------------------- MODULE WriteQueueProofs --------------------------
(***************************************************************************)
(* Theorems of WriteQueue, for any events, partitions, writers and limits. *)
(***************************************************************************)
EXTENDS WriteQueue, FiniteSetTheorems, TLAPS

\* What one writer does.
WriterStep(w) == BeginDrain(w) \/ Drain(w) \/ Crash(w)
-----------------------------------------------------------------------------
(* Sequences of lines *)

\* A line put at the end is added.
LEMMA LinesOfAppend ==
    ASSUME NEW s \in Seq(Event), NEW e \in Event
    PROVE  Append(s, e) \in Seq(Event) /\ ToSet(Append(s, e)) = ToSet(s) \cup {e}
<1>1. Append(s, e) \in Seq(Event)
  OBVIOUS
<1>2. ASSUME NEW x PROVE x \in ToSet(Append(s, e)) => x \in ToSet(s) \cup {e}
  BY DEF ToSet
<1>3. ASSUME NEW i \in DOMAIN s PROVE s[i] \in ToSet(Append(s, e))
  <2>1. i \in DOMAIN Append(s, e) /\ Append(s, e)[i] = s[i]
    OBVIOUS
  <2> QED
    BY <2>1 DEF ToSet
<1>4. e \in ToSet(Append(s, e))
  <2>1. Len(s) + 1 \in DOMAIN Append(s, e) /\ Append(s, e)[Len(s) + 1] = e
    OBVIOUS
  <2> QED
    BY <2>1 DEF ToSet
<1> QED
  BY <1>1, <1>2, <1>3, <1>4 DEF ToSet

\* The first line and the others.
LEMMA LinesOfTail ==
    ASSUME NEW s \in Seq(Event), s # << >>
    PROVE  /\ Head(s) \in Event /\ Tail(s) \in Seq(Event)
           /\ ToSet(s) = {Head(s)} \cup ToSet(Tail(s))
<1>1. Head(s) \in Event /\ Tail(s) \in Seq(Event)
  OBVIOUS
<1>2. ASSUME NEW i \in DOMAIN s PROVE s[i] \in {Head(s)} \cup ToSet(Tail(s))
  <2>1. CASE i = 1
    BY <2>1
  <2>2. CASE i # 1
    <3>1. i - 1 \in DOMAIN Tail(s) /\ Tail(s)[i - 1] = s[i]
      BY <2>2
    <3> QED
      BY <3>1 DEF ToSet
  <2> QED
    BY <2>1, <2>2
<1>3. ASSUME NEW i \in DOMAIN Tail(s) PROVE Tail(s)[i] \in ToSet(s)
  <2>1. i + 1 \in DOMAIN s /\ Tail(s)[i] = s[i + 1]
    OBVIOUS
  <2> QED
    BY <2>1 DEF ToSet
<1>4. Head(s) \in ToSet(s)
  <2>1. 1 \in DOMAIN s /\ Head(s) = s[1]
    OBVIOUS
  <2> QED
    BY <2>1 DEF ToSet
<1> QED
  BY <1>1, <1>2, <1>3, <1>4 DEF ToSet

\* Lines written one group after the other.
LEMMA LinesOfConcat ==
    ASSUME NEW s \in Seq(Event), NEW u \in Seq(Event)
    PROVE  s \o u \in Seq(Event) /\ ToSet(s \o u) = ToSet(s) \cup ToSet(u)
<1>1. s \o u \in Seq(Event)
  OBVIOUS
<1>2. ASSUME NEW i \in DOMAIN (s \o u) PROVE (s \o u)[i] \in ToSet(s) \cup ToSet(u)
  <2>1. CASE i \in DOMAIN s
    <3>1. (s \o u)[i] = s[i]
      BY <2>1
    <3> QED
      BY <2>1, <3>1 DEF ToSet
  <2>2. CASE i \notin DOMAIN s
    <3>1. i - Len(s) \in DOMAIN u /\ (s \o u)[i] = u[i - Len(s)]
      BY <2>2
    <3> QED
      BY <3>1 DEF ToSet
  <2> QED
    BY <2>1, <2>2
<1>3. ASSUME NEW i \in DOMAIN s PROVE s[i] \in ToSet(s \o u)
  <2>1. i \in DOMAIN (s \o u) /\ (s \o u)[i] = s[i]
    OBVIOUS
  <2> QED
    BY <2>1 DEF ToSet
<1>4. ASSUME NEW i \in DOMAIN u PROVE u[i] \in ToSet(s \o u)
  <2>1. Len(s) + i \in DOMAIN (s \o u) /\ (s \o u)[Len(s) + i] = u[i]
    OBVIOUS
  <2> QED
    BY <2>1 DEF ToSet
<1> QED
  BY <1>1, <1>2, <1>3, <1>4 DEF ToSet

\* The file splits into what a drain reads and what it leaves unread.
LEMMA LinesOfSplit ==
    ASSUME NEW s \in Seq(Event), NEW n \in 0 .. Len(s)
    PROVE  LET front == SubSeq(s, 1, n)
               rest == SubSeq(s, n + 1, Len(s)) IN
           /\ front \in Seq(Event) /\ rest \in Seq(Event)
           /\ ToSet(s) = ToSet(front) \cup ToSet(rest)
  <1> DEFINE front == SubSeq(s, 1, n)
             rest == SubSeq(s, n + 1, Len(s))
<1>1. front \in Seq(Event) /\ rest \in Seq(Event)
  OBVIOUS
<1>2. ASSUME NEW i \in DOMAIN s PROVE s[i] \in ToSet(front) \cup ToSet(rest)
  <2>1. CASE i <= n
    <3>1. i \in DOMAIN front /\ front[i] = s[i]
      BY <2>1
    <3> QED
      BY <3>1 DEF ToSet
  <2>2. CASE i > n
    <3>1. i - n \in DOMAIN rest /\ rest[i - n] = s[i]
      BY <2>2
    <3> QED
      BY <3>1 DEF ToSet
  <2> QED
    BY <2>1, <2>2
<1>3. ASSUME NEW i \in DOMAIN front PROVE front[i] \in ToSet(s)
  <2>1. i \in DOMAIN s /\ front[i] = s[i]
    OBVIOUS
  <2> QED
    BY <2>1 DEF ToSet
<1>4. ASSUME NEW i \in DOMAIN rest PROVE rest[i] \in ToSet(s)
  <2>1. n + i \in DOMAIN s /\ rest[i] = s[n + i]
    OBVIOUS
  <2> QED
    BY <2>1 DEF ToSet
<1>5. ToSet(s) = ToSet(front) \cup ToSet(rest)
  <2> HIDE DEF front, rest
  <2> QED
    BY <1>2, <1>3, <1>4 DEF ToSet
<1> QED
  BY <1>1, <1>5

\* How many lines fit under the limit.
LEMMA HeadLengthType ==
    ASSUME NEW s \in Seq(Event)
    PROVE  HeadLength(s) \in 0 .. Len(s)
<1> DEFINE fit == {n \in 1 .. Len(s) : Bytes(SubSeq(s, 1, n)) <= DrainLimit}
<1>1. IsFiniteSet(1 .. Len(s)) /\ Cardinality(1 .. Len(s)) = Len(s)
  <2>1. Len(s) \in Nat /\ Len(s) \in Int /\ 1 \in Int
    OBVIOUS
  <2>2. /\ IsFiniteSet(1 .. Len(s))
        /\ Cardinality(1 .. Len(s)) = IF 1 > Len(s) THEN 0 ELSE Len(s) - 1 + 1
    BY <2>1, FS_Interval, Zenon
  <2> QED
    BY <2>1, <2>2
<1>2. fit \subseteq 1 .. Len(s)
  OBVIOUS
<1>3. Cardinality(fit) <= Len(s) /\ IsFiniteSet(fit)
  BY <1>1, <1>2, FS_Subset
<1>4. Cardinality(fit) \in Nat
  BY <1>3, FS_CardinalityType
<1> QED
  BY <1>3, <1>4 DEF HeadLength
-----------------------------------------------------------------------------
(* Type correctness *)

\* The line a drain is at, and what is behind it.
LEMMA LineInHand ==
    ASSUME TypeOK, NEW w \in Writer, NextLine(w)
    PROVE  Head(batch[w]) \in Event /\ Tail(batch[w]) \in Seq(Event)
<1>1. batch[w] \in Seq(Event) /\ batch[w] # << >>
  BY DEF TypeOK, NextLine
<1> QED
  BY <1>1, LinesOfTail

\* Learning counts.
LEMMA LearnType ==
    ASSUME TypeOK, NEW E, Learn(E)
    PROVE  learned' \in [Event -> Nat]
  BY DEF TypeOK, Learn

\* An event's effect leaves memory and disk well formed.
LEMMA EffectType ==
    ASSUME TypeOK, NEW w \in Writer, NEW e \in Event, Effect(w, e)
    PROVE  unsaved' \in [Writer -> [Space -> SUBSET Event]] /\ learned' \in [Event -> Nat]
<1>1. SpaceOf[e] \in Space
  BY EventAssumption
<1>2. CASE Remember(w, e)
  BY <1>1, <1>2 DEF TypeOK, Remember
<1>3. CASE /\ Learn(unsaved[w][SpaceOf[e]] \cup {e})
           /\ unsaved' = [unsaved EXCEPT ![w][SpaceOf[e]] = {}]
  BY <1>1, <1>3, LearnType DEF TypeOK
<1>4. CASE Learn({e}) /\ UNCHANGED unsaved
  BY <1>4, LearnType DEF TypeOK
<1> QED
  BY <1>2, <1>3, <1>4 DEF Effect

\* What goes back to the file is made of lines.
LEMMA RemainderLines ==
    ASSUME TypeOK, NEW w \in Writer
    PROVE  /\ Remainder(w) \in Seq(Event)
           /\ ToSet(Remainder(w)) = ToSet(deferred[w]) \cup ToSet(pending[w]) \cup ToSet(tail[w])
<1>1. deferred[w] \in Seq(Event) /\ pending[w] \in Seq(Event) /\ tail[w] \in Seq(Event)
  BY DEF TypeOK
<1>2. /\ deferred[w] \o pending[w] \in Seq(Event)
      /\ ToSet(deferred[w] \o pending[w]) = ToSet(deferred[w]) \cup ToSet(pending[w])
  BY <1>1, LinesOfConcat
<1>3. /\ (deferred[w] \o pending[w]) \o tail[w] \in Seq(Event)
      /\ ToSet((deferred[w] \o pending[w]) \o tail[w])
           = ToSet(deferred[w] \o pending[w]) \cup ToSet(tail[w])
  BY <1>1, <1>2, LinesOfConcat
<1> QED
  BY <1>2, <1>3 DEF Remainder

\* A step of any writer keeps the file and the drains well formed.
LEMMA TypeStep ==
    ASSUME TypeOK, NEW w \in Writer, WriterStep(w)
    PROVE  TypeOK'
  <1> USE DEF TypeOK, At, drain
  <1>0. << >> \in Seq(Event)
    OBVIOUS
  <1>f. Fail => failures' \in 0 .. MaxFailures
    BY LimitAssumption DEF Fail
  <1>1. CASE BeginDrain(w)
    BY <1>1 DEF BeginDrain
  <1>2. CASE FindEmpty(w)
    BY <1>2 DEF FindEmpty
  <1>3. CASE ArchiveCorrupt(w)
    <2>1. ToSet(queue) \subseteq Event
      BY DEF ToSet
    <2> QED
      BY <1>0, <1>3, <2>1 DEF ArchiveCorrupt
  <1>4. CASE ReadQueue(w)
    <2> DEFINE n == HeadLength(queue)
    <2>1. n \in 0 .. Len(queue)
      BY HeadLengthType
    <2>2. SubSeq(queue, 1, n) \in Seq(Event) /\ SubSeq(queue, n + 1, Len(queue)) \in Seq(Event)
      BY <2>1, LinesOfSplit
    <2> QED
      BY <1>0, <1>4, <2>2, SMTT(30) DEF ReadQueue
  <1>5. CASE Defer(w)
    <2>1. Append(deferred[w], Head(batch[w])) \in Seq(Event)
      BY <1>5, LineInHand, LinesOfAppend DEF Defer
    <2> QED
      BY <1>5, <2>1, LineInHand, SMTT(30) DEF Defer, StepOver
  <1>6. CASE Drop(w)
    BY <1>6, LineInHand DEF Drop, StepOver
  <1>7. CASE Apply(w)
    <2> PICK e \in Event : /\ Applies(w, e) /\ Effect(w, e) /\ StepOver(w)
                           /\ saves' = IF KindOf[e] = "feedback"
                                THEN [saves EXCEPT ![w] = @ \cup {SpaceOf[e]}] ELSE saves
                           /\ UNCHANGED <<tail, deferred, pending, checkpoint, dropped, failures>>
      BY <1>7 DEF Apply
    <2>1. SpaceOf[e] \in Space
      BY EventAssumption
    <2> QED
      BY <2>1, LineInHand, EffectType, ZenonT(60) DEF Applies, StepOver
  <1>8. CASE ApplyRaises(w)
    BY <1>0, <1>f, <1>8, SMTT(30) DEF ApplyRaises, StopAt
  <1>9. CASE AuditRaises(w)
    BY <1>0, <1>f, <1>9, EffectType DEF AuditRaises, StopAt
  <1>10. CASE LoadFails(w)
    BY <1>f, <1>10 DEF LoadFails
  <1>11. CASE OverrideRefused(w)
    BY <1>f, <1>11, LineInHand, SMTT(30) DEF OverrideRefused, StepOver, Applies
  <1>12. CASE EndOfBatch(w)
    BY <1>12 DEF EndOfBatch
  <1>13. CASE Persist(w)
    <2> PICK s \in Unsaved(w) : /\ Learn(unsaved[w][s])
                                /\ unsaved' = [unsaved EXCEPT ![w][s] = {}]
                                /\ UNCHANGED <<queue, lock, pc, drain, emitted, dropped, failures>>
      BY <1>13 DEF Persist
    <2> QED
      BY LearnType
  <1>14. CASE PersistFails(w)
    BY <1>f, <1>14 DEF PersistFails
  <1>15. CASE Truncate(w)
    BY <1>0, <1>15 DEF Truncate
  <1>16. CASE WriteBack(w)
    BY <1>16, RemainderLines DEF WriteBack
  <1>17. CASE Crash(w)
    BY <1>f, <1>17 DEF Crash, NoEffects
  <1> QED
    BY <1>1, <1>2, <1>3, <1>4, <1>5, <1>6, <1>7, <1>8, <1>9, <1>10, <1>11, <1>12,
       <1>13, <1>14, <1>15, <1>16, <1>17
    DEF WriterStep, Drain

\* The file and the locals of every drain hold events in every state, whatever
\* fails or dies (_drain_write_queue_at_path).
THEOREM Typing == Spec => []TypeOK
<1>1. Init => TypeOK
  <2>1. << >> \in Seq(Event) /\ 0 \in 0 .. MaxFailures
    BY LimitAssumption
  <2> QED
    BY <2>1 DEF Init, TypeOK, Nothing, NoEffects
<1>2. TypeOK /\ [Next]_vars => TypeOK'
  <2> SUFFICES ASSUME TypeOK, [Next]_vars PROVE TypeOK'
    OBVIOUS
  <2>1. CASE UNCHANGED vars
    BY <2>1 DEF TypeOK, vars, drain
  <2>2. ASSUME NEW e \in Event, Emit(e) PROVE TypeOK'
    <3>1. Append(queue, e) \in Seq(Event) /\ Append(emitted, e) \in Seq(Event)
      BY LinesOfAppend DEF TypeOK
    <3> QED
      BY <2>2, <3>1 DEF TypeOK, Emit, drain
  <2>3. ASSUME NEW w \in Writer, WriterStep(w) PROVE TypeOK'
    BY <2>3, TypeStep
  <2> QED
    BY <2>1, <2>2, <2>3 DEF Next, WriterStep
<1> QED
  BY <1>1, <1>2, PTL DEF Spec
-----------------------------------------------------------------------------
(* Nothing is lost *)

\* A writer past the beginning of its drain holds the artifact lock.
Exclusive == \A w \in Writer : pc[w] # "idle" => lock = w

\* The lines a drain has read and not yet dealt with.
InHand(w) == ToSet(batch[w]) \cup ToSet(deferred[w]) \cup ToSet(pending[w]) \cup ToSet(tail[w])

\* Effects that the save at the end of the drain will bring to the disk.
InMemory(w, e) == \E s \in saves[w] : e \in unsaved[w][s]

\* While a drain goes through its lines, each line of the file is in its hands,
\* discarded, learned, or waiting for its save.
Accounted(w) ==
    /\ pc[w] \in {"line", "persist"} =>
         \A e \in ToSet(queue) :
            e \in InHand(w) \cup dropped \/ learned[e] > 0 \/ InMemory(w, e)
    /\ pc[w] = "line" => pending[w] = << >>
    /\ pc[w] = "persist" => batch[w] = << >>
    /\ pc[w] = "torn" => queue = << >>

Safe == TypeOK /\ Exclusive /\ NothingLost /\ \A w \in Writer : Accounted(w)

\* Only the holder of the lock is draining.
LEMMA OthersIdle ==
    ASSUME Exclusive, NEW w \in Writer, pc[w] # "idle", NEW v \in Writer, v # w
    PROVE  pc[v] = "idle"
  BY DEF Exclusive

\* Nobody drains while the lock is free.
LEMMA AllIdle ==
    ASSUME Exclusive, lock = None, NEW v \in Writer
    PROVE  pc[v] = "idle"
  BY WriterAssumption DEF Exclusive

\* Learning a set of events learns each of them and forgets none.
LEMMA LearnGrows ==
    ASSUME TypeOK, NEW E, Learn(E), NEW e \in Event
    PROVE  (e \in E \/ learned[e] > 0) => learned'[e] > 0
<1>1. learned[e] \in Nat /\ learned'[e] = IF e \in E THEN learned[e] + 1 ELSE learned[e]
  BY DEF TypeOK, Learn
<1> QED
  BY <1>1

\* An effect is in memory or on disk, and takes nothing from either.
LEMMA EffectGrows ==
    ASSUME TypeOK, NEW w \in Writer, NEW e \in Event, Effect(w, e)
    PROVE  /\ (KindOf[e] = "feedback" /\ e \in unsaved'[w][SpaceOf[e]]) \/ learned'[e] > 0
           /\ \A f \in Event : learned[f] > 0 => learned'[f] > 0
           /\ \A f \in Event, s \in Space :
                f \in unsaved[w][s] => f \in unsaved'[w][s] \/ learned'[f] > 0
<1>1. SpaceOf[e] \in Space
  BY EventAssumption
<1>2. CASE KindOf[e] = "feedback" /\ Remember(w, e)
  BY <1>1, <1>2 DEF TypeOK, Remember
<1>3. CASE /\ Learn(unsaved[w][SpaceOf[e]] \cup {e})
           /\ unsaved' = [unsaved EXCEPT ![w][SpaceOf[e]] = {}]
  <2>1. \A f \in Event : f \in unsaved[w][SpaceOf[e]] \cup {e} \/ learned[f] > 0 => learned'[f] > 0
    BY <1>3, LearnGrows
  <2> QED
    BY <1>1, <1>3, <2>1 DEF TypeOK
<1>4. CASE Learn({e}) /\ UNCHANGED unsaved
  BY <1>4, LearnGrows
<1> QED
  BY <1>2, <1>3, <1>4 DEF Effect

\* What is learned or discarded stays so.
LEMMA Grows ==
    ASSUME TypeOK, NEW w \in Writer, WriterStep(w)
    PROVE  /\ dropped \subseteq dropped'
           /\ \A e \in Event : learned[e] > 0 => learned'[e] > 0
<1>1. CASE Apply(w) \/ AuditRaises(w)
  BY <1>1, EffectGrows DEF Apply, AuditRaises, StopAt
<1>2. CASE Persist(w)
  <2>1. PICK s \in Unsaved(w) : Learn(unsaved[w][s]) /\ UNCHANGED dropped
    BY <1>2 DEF Persist
  <2> QED
    BY <2>1, LearnGrows
<1>3. CASE UNCHANGED learned /\ dropped \subseteq dropped'
  BY <1>3
<1> QED
  BY <1>1, <1>2, <1>3
  DEF WriterStep, Drain, BeginDrain, FindEmpty, ArchiveCorrupt, ReadQueue, Defer, Drop,
      ApplyRaises, LoadFails, OverrideRefused, EndOfBatch, PersistFails, Truncate,
      WriteBack, Crash, StopAt

\* A line that is dealt with is accounted for; the others stay so.
LEMMA LinePassed ==
    ASSUME Safe, NEW w \in Writer, NextLine(w), NEW e \in Event, e = Head(batch[w]),
           UNCHANGED queue, batch'[w] = Tail(batch[w]),
           deferred'[w] = deferred[w] \/ ToSet(deferred'[w]) = ToSet(deferred[w]) \cup {e},
           pending'[w] = pending[w], tail'[w] = tail[w],
           dropped \subseteq dropped', saves[w] \subseteq saves'[w],
           \A f \in Event : learned[f] > 0 => learned'[f] > 0,
           \A f \in Event, s \in Space :
              f \in unsaved[w][s] => f \in unsaved'[w][s] \/ learned'[f] > 0,
           \/ e \in ToSet(deferred'[w]) \cup dropped' \/ learned'[e] > 0
           \/ \E s \in saves'[w] : e \in unsaved'[w][s],
           pc'[w] = "line"
    PROVE  Accounted(w)'
<1>1. pc[w] = "line" /\ batch[w] \in Seq(Event) /\ batch[w] # << >>
  BY DEF Safe, TypeOK, NextLine
<1>2. ToSet(batch[w]) = {e} \cup ToSet(Tail(batch[w]))
  BY <1>1, LinesOfTail
<1>3. pending[w] = << >>
  BY <1>1 DEF Safe, Accounted
<1>4. ASSUME NEW f \in ToSet(queue')
      PROVE  (f \in InHand(w) \cup dropped \/ learned[f] > 0 \/ InMemory(w, f))'
  <2>1. f \in Event /\ f \in ToSet(queue)
    BY DEF Safe, TypeOK, ToSet
  <2>2. f \in InHand(w) \cup dropped \/ learned[f] > 0 \/ InMemory(w, f)
    BY <1>1, <2>1 DEF Safe, Accounted
  <2>3. CASE f \in InHand(w)
    BY <1>2, <2>3 DEF InHand, InMemory
  <2>4. CASE f \in dropped \/ learned[f] > 0
    BY <2>1, <2>4
  <2>5. CASE InMemory(w, f)
    <3>1. PICK s \in saves[w] : f \in unsaved[w][s]
      BY <2>5 DEF InMemory
    <3>2. s \in Space
      BY DEF Safe, TypeOK
    <3>3. f \in unsaved'[w][s] \/ learned'[f] > 0
      BY <2>1, <3>1, <3>2
    <3> QED
      BY <3>1, <3>3 DEF InMemory
  <2> QED
    BY <2>2, <2>3, <2>4, <2>5
<1> QED
  BY <1>3, <1>4 DEF Accounted

\* An exception at a line keeps it and all lines behind it.
LEMMA LineKept ==
    ASSUME Safe, NEW w \in Writer, NextLine(w), StopAt(w), pc' = [pc EXCEPT ![w] = "persist"],
           \A f \in Event : learned[f] > 0 => learned'[f] > 0,
           \A f \in Event, s \in Space :
              f \in unsaved[w][s] => f \in unsaved'[w][s] \/ learned'[f] > 0
    PROVE  Accounted(w)'
<1>1. pc[w] = "line" /\ pending[w] = << >>
  BY DEF Safe, Accounted, NextLine
<1>2. /\ pc'[w] = "persist" /\ batch'[w] = << >> /\ pending'[w] = batch[w]
      /\ UNCHANGED <<queue, tail, deferred, saves, dropped>>
  BY DEF Safe, TypeOK, StopAt
<1>3. ASSUME NEW f \in ToSet(queue')
      PROVE  (f \in InHand(w) \cup dropped \/ learned[f] > 0 \/ InMemory(w, f))'
  <2>1. f \in Event /\ f \in ToSet(queue)
    BY <1>2 DEF Safe, TypeOK, ToSet
  <2>2. f \in InHand(w) \cup dropped \/ learned[f] > 0 \/ InMemory(w, f)
    BY <1>1, <2>1 DEF Safe, Accounted
  <2>3. CASE f \in InHand(w)
    <3>1. ToSet(pending[w]) = {}
      BY <1>1 DEF ToSet
    <3> QED
      BY <1>2, <2>3, <3>1 DEF InHand
  <2>4. CASE f \in dropped \/ learned[f] > 0
    BY <1>2, <2>1, <2>4
  <2>5. CASE InMemory(w, f)
    <3>1. PICK s \in saves[w] : f \in unsaved[w][s]
      BY <2>5 DEF InMemory
    <3>2. s \in Space
      BY DEF Safe, TypeOK
    <3>3. f \in unsaved'[w][s] \/ learned'[f] > 0
      BY <2>1, <3>1, <3>2
    <3> QED
      BY <1>2, <3>1, <3>3 DEF InMemory
  <2> QED
    BY <2>2, <2>3, <2>4, <2>5
<1> QED
  BY <1>2, <1>3 DEF Accounted

\* The writer that moves accounts for the lines of the file afterwards.
LEMMA AccountedStep ==
    ASSUME Safe, NEW w \in Writer, Drain(w)
    PROVE  Accounted(w)'
  <1> USE DEF At, drain
  <1>t. TypeOK
    BY DEF Safe
  <1>3. CASE pc'[w] = "idle"
    BY <1>3 DEF Accounted
  <1>4. CASE ReadQueue(w)
    <2> DEFINE n == HeadLength(queue)
    <2>1. n \in 0 .. Len(queue)
      BY <1>t, HeadLengthType DEF TypeOK
    <2>2. ToSet(queue) = ToSet(SubSeq(queue, 1, n)) \cup ToSet(SubSeq(queue, n + 1, Len(queue)))
      BY <1>t, <2>1, LinesOfSplit DEF TypeOK
    <2>3. /\ batch'[w] = SubSeq(queue, 1, n) /\ tail'[w] = SubSeq(queue, n + 1, Len(queue))
          /\ pending'[w] = << >> /\ pc'[w] = "line" /\ queue' = queue
      BY <1>t, <1>4 DEF ReadQueue, TypeOK
    <2> HIDE DEF n
    <2> QED
      BY <2>2, <2>3 DEF Accounted, InHand
  <1>5. CASE Defer(w)
    <2>1. /\ NextLine(w) /\ pc' = pc /\ UNCHANGED <<queue, saves, unsaved, learned, dropped>>
          /\ batch'[w] = Tail(batch[w]) /\ pending' = pending /\ tail' = tail
          /\ deferred'[w] = Append(deferred[w], Head(batch[w]))
      BY <1>t, <1>5 DEF Defer, StepOver, TypeOK
    <2>2. Head(batch[w]) \in Event /\ deferred[w] \in Seq(Event)
      BY <1>t, <2>1, LineInHand DEF TypeOK
    <2>3. ToSet(deferred'[w]) = ToSet(deferred[w]) \cup {Head(batch[w])}
      BY <2>1, <2>2, LinesOfAppend
    <2> QED
      BY <2>1, <2>2, <2>3, LinePassed DEF NextLine
  <1>6. CASE Drop(w)
    <2>1. /\ NextLine(w) /\ pc' = pc /\ UNCHANGED <<queue, deferred, saves, unsaved, learned>>
          /\ batch'[w] = Tail(batch[w]) /\ pending' = pending /\ tail' = tail
          /\ dropped' = dropped \cup {Head(batch[w])}
      BY <1>t, <1>6 DEF Drop, StepOver, TypeOK
    <2>2. Head(batch[w]) \in Event
      BY <1>t, <2>1, LineInHand
    <2> QED
      BY <2>1, <2>2, LinePassed DEF NextLine
  <1>7. CASE Apply(w)
    <2> PICK e \in Event : /\ Applies(w, e) /\ Effect(w, e) /\ StepOver(w)
                           /\ saves' = IF KindOf[e] = "feedback"
                                THEN [saves EXCEPT ![w] = @ \cup {SpaceOf[e]}] ELSE saves
                           /\ UNCHANGED <<tail, deferred, pending, checkpoint, dropped, failures>>
      BY <1>7 DEF Apply
    <2>1. /\ NextLine(w) /\ e = Head(batch[w]) /\ pc' = pc /\ queue' = queue
          /\ batch'[w] = Tail(batch[w])
      BY <1>t DEF Applies, StepOver, TypeOK
    <2>2. /\ saves[w] \subseteq saves'[w]
          /\ KindOf[e] = "feedback" => SpaceOf[e] \in saves'[w]
      BY <1>t DEF TypeOK
    <2>3. learned'[e] > 0 \/ \E s \in saves'[w] : e \in unsaved'[w][s]
      BY <1>t, <2>2, EffectGrows
    <2> QED
      BY <1>t, <2>1, <2>2, <2>3, EffectGrows, LinePassed DEF NextLine
  <1>8. CASE ApplyRaises(w)
    <2>1. NextLine(w) /\ StopAt(w) /\ UNCHANGED <<unsaved, learned>>
      BY <1>8 DEF ApplyRaises, Applies
    <2> QED
      BY <2>1, LineKept DEF StopAt
  <1>9. CASE AuditRaises(w)
    <2> PICK e \in Event : Applies(w, e) /\ Effect(w, e) /\ StopAt(w)
      BY <1>9 DEF AuditRaises
    <2> QED
      BY <1>t, EffectGrows, LineKept DEF StopAt, Applies
  <1>11. CASE OverrideRefused(w)
    <2> PICK e \in Event : /\ Applies(w, e) /\ dropped' = dropped \cup {e} /\ StepOver(w)
              /\ UNCHANGED <<tail, deferred, pending, checkpoint, saves, unsaved, learned>>
      BY <1>11 DEF OverrideRefused
    <2>1. /\ NextLine(w) /\ e = Head(batch[w]) /\ pc' = pc /\ queue' = queue
          /\ batch'[w] = Tail(batch[w])
      BY <1>t DEF Applies, StepOver, TypeOK
    <2> QED
      BY <2>1, LinePassed DEF NextLine
  <1>12. CASE EndOfBatch(w)
    BY <1>t, <1>12 DEF EndOfBatch, Safe, Accounted, InHand, InMemory, TypeOK
  <1>13. CASE Persist(w)
    <2> PICK s \in Unsaved(w) : /\ pc[w] = "persist" /\ Learn(unsaved[w][s])
                                /\ unsaved' = [unsaved EXCEPT ![w][s] = {}]
                                /\ UNCHANGED <<queue, lock, pc, drain, emitted, dropped, failures>>
      BY <1>13 DEF Persist
    <2>1. \A f \in Event : f \in unsaved[w][s] \/ learned[f] > 0 => learned'[f] > 0
      BY <1>t, LearnGrows
    <2>2. \A f \in Event, r \in Space : f \in unsaved[w][r] => f \in unsaved'[w][r] \/ learned'[f] > 0
      BY <1>t, <2>1 DEF TypeOK
    <2>3. ASSUME NEW f \in ToSet(queue)
          PROVE  (f \in InHand(w) \cup dropped \/ learned[f] > 0 \/ InMemory(w, f))'
      <3>1. f \in Event /\ saves[w] \subseteq Space
        BY <1>t DEF TypeOK, ToSet
      <3>2. f \in InHand(w) \cup dropped \/ learned[f] > 0 \/ InMemory(w, f)
        BY DEF Safe, Accounted
      <3> QED
        BY <2>1, <2>2, <3>1, <3>2 DEF InHand, InMemory
    <2> QED
      BY <2>3 DEF Safe, Accounted
  <1>15. CASE Truncate(w)
    BY <1>t, <1>15 DEF Truncate, Accounted, TypeOK
  <1>16. pc \in [Writer -> {"idle", "read", "line", "persist", "torn"}]
    BY <1>t DEF TypeOK
  <1> QED
    BY <1>3, <1>4, <1>5, <1>6, <1>7, <1>8, <1>9, <1>11, <1>12, <1>13, <1>15, <1>16
    DEF Drain, FindEmpty, ArchiveCorrupt, LoadFails, PersistFails, WriteBack

\* A step of the writer that drains loses no line.
LEMMA NothingLostStep ==
    ASSUME Safe, NEW w \in Writer, Drain(w)
    PROVE  NothingLost'
  <1> USE DEF At, drain
  <1>t. TypeOK /\ WriterStep(w) /\ pc[w] # "idle"
    BY DEF Safe, WriterStep, Drain, FindEmpty, ArchiveCorrupt, ReadQueue, Defer, Drop, Apply,
           ApplyRaises, AuditRaises, LoadFails, OverrideRefused, EndOfBatch, Persist,
           PersistFails, Truncate, WriteBack, Applies, NextLine
  <1>g. /\ dropped \subseteq dropped' /\ emitted' = emitted
        /\ \A e \in Event : learned[e] > 0 => learned'[e] > 0
    <2>1. emitted' = emitted
      BY DEF Drain, FindEmpty, ArchiveCorrupt, ReadQueue, Defer, Drop, Apply,
             ApplyRaises, AuditRaises, LoadFails, OverrideRefused, EndOfBatch, Persist,
             PersistFails, Truncate, WriteBack, StepOver, StopAt
    <2> QED
      BY <1>t, <2>1, Grows
  <1>e. ToSet(emitted) \subseteq Event
    BY <1>t DEF TypeOK, ToSet
  <1>o. \A v \in Writer : pc[v] = "torn" => v = w
    BY <1>t, OthersIdle DEF Safe
  <1>1. CASE Truncate(w)
    <2>1. /\ pc'[w] = "torn" /\ queue = queue /\ pc[w] = "persist"
          /\ UNCHANGED <<deferred, pending, tail, learned, dropped>>
      BY <1>t, <1>1 DEF Truncate, TypeOK
    <2>2. Remainder(w)' = Remainder(w)
      BY <2>1 DEF Remainder
    <2>3. ASSUME NEW e \in ToSet(queue), e \notin dropped, ~(learned[e] > 0)
          PROVE  e \in ToSet(Remainder(w))
      <3>1. e \in InHand(w) \/ InMemory(w, e)
        BY <2>1, <2>3 DEF Safe, Accounted
      <3>2. ~InMemory(w, e)
        BY <1>1 DEF Truncate, Unsaved, InMemory
      <3>3. ToSet(batch[w]) = {}
        BY <2>1 DEF Safe, Accounted, ToSet
      <3> QED
        BY <1>t, <3>1, <3>2, <3>3, RemainderLines DEF InHand
    <2>4. ASSUME NEW e \in ToSet(emitted)
          PROVE  e \in dropped \/ learned[e] > 0 \/ e \in ToSet(Remainder(w))
      <3>1. \/ e \in ToSet(queue) \cup dropped
            \/ learned[e] > 0
            \/ \E v \in Writer : pc[v] = "torn" /\ e \in ToSet(Remainder(v))
        BY DEF Safe, NothingLost
      <3> QED
        BY <1>o, <2>1, <2>3, <3>1
    <2> QED
      BY <1>g, <2>1, <2>2, <2>4 DEF NothingLost
  <1>2. CASE WriteBack(w)
    <2>1. /\ pc[w] = "torn" /\ queue' = Remainder(w)
          /\ UNCHANGED <<deferred, pending, tail, learned, dropped>>
      BY <1>2 DEF WriteBack
    <2>2. ToSet(queue) = {}
      BY <2>1 DEF Safe, Accounted, ToSet
    <2> QED
      BY <1>g, <1>o, <2>1, <2>2 DEF NothingLost, Safe
  <1>3. CASE ArchiveCorrupt(w)
    <2>1. pc[w] = "read" /\ dropped' = dropped \cup ToSet(queue)
      BY <1>3 DEF ArchiveCorrupt
    <2> QED
      BY <1>e, <1>g, <1>o, <2>1 DEF NothingLost, Safe
  <1>4. CASE queue' = queue /\ pc[w] # "torn"
    BY <1>e, <1>g, <1>o, <1>4 DEF NothingLost, Safe
  <1> QED
    BY <1>1, <1>2, <1>3, <1>4
    DEF Drain, FindEmpty, ReadQueue, Defer, Drop, Apply, ApplyRaises, AuditRaises, LoadFails,
        OverrideRefused, EndOfBatch, Persist, PersistFails, StepOver, StopAt, Applies, NextLine

\* Only the holder of the lock goes on with a drain, and it keeps the lock.
LEMMA ExclusiveStep ==
    ASSUME TypeOK, Exclusive, NEW w \in Writer, WriterStep(w)
    PROVE  Exclusive'
  <1> USE DEF At, drain
  <1>t. pc \in [Writer -> {"idle", "read", "line", "persist", "torn"}]
    BY DEF TypeOK
  <1>1. CASE BeginDrain(w)
    BY <1>t, <1>1, AllIdle DEF BeginDrain, Exclusive
  <1>2. CASE Crash(w)
    BY <1>t, <1>2 DEF Crash, Exclusive
  <1>3. CASE Drain(w)
    <2>1. pc[w] # "idle"
      BY <1>3 DEF Drain, FindEmpty, ArchiveCorrupt, ReadQueue, Defer, Drop, Apply,
           ApplyRaises, AuditRaises, LoadFails, OverrideRefused, EndOfBatch, Persist,
           PersistFails, Truncate, WriteBack, Applies, NextLine
    <2>2. lock = w /\ \A v \in Writer \ {w} : pc[v] = "idle"
      BY <2>1, OthersIdle DEF Exclusive
    <2>3. \A v \in Writer \ {w} : pc'[v] = pc[v]
      BY <1>t, <1>3 DEF Drain, FindEmpty, ArchiveCorrupt, ReadQueue, Defer, Drop, Apply,
           ApplyRaises, AuditRaises, LoadFails, OverrideRefused, EndOfBatch, Persist,
           PersistFails, Truncate, WriteBack, StepOver, StopAt
    <2>4. lock' = lock \/ pc'[w] = "idle"
      BY <1>t, <1>3 DEF Drain, FindEmpty, ArchiveCorrupt, ReadQueue, Defer, Drop, Apply,
           ApplyRaises, AuditRaises, LoadFails, OverrideRefused, EndOfBatch, Persist,
           PersistFails, Truncate, WriteBack, StepOver, StopAt
    <2> QED
      BY <2>2, <2>3, <2>4 DEF Exclusive
  <1> QED
    BY <1>1, <1>2, <1>3 DEF WriterStep

\* With no writer dying inside the final rewrite, every step keeps the account.
LEMMA SafeStep ==
    ASSUME TornRewrites = FALSE, Safe, TypeOK', [Next]_vars
    PROVE  Safe'
<1>1. CASE UNCHANGED vars
  BY <1>1 DEF vars, drain, Safe, Exclusive, NothingLost, Accounted, InHand, InMemory, Remainder
<1>2. ASSUME NEW e \in Event, Emit(e) PROVE Safe'
  <2>1. /\ lock = None /\ queue' = Append(queue, e) /\ emitted' = Append(emitted, e)
        /\ UNCHANGED <<lock, pc, learned, dropped>>
    BY <1>2 DEF Emit
  <2>2. \A v \in Writer : pc[v] = "idle"
    BY <2>1, AllIdle DEF Safe
  <2>3. ToSet(queue') = ToSet(queue) \cup {e} /\ ToSet(emitted') = ToSet(emitted) \cup {e}
    BY <2>1, LinesOfAppend DEF Safe, TypeOK
  <2> QED
    BY <2>1, <2>2, <2>3 DEF Safe, Exclusive, NothingLost, Accounted
<1>3. ASSUME NEW w \in Writer, BeginDrain(w) PROVE Safe'
  <2>1. /\ lock = None /\ pc' = [pc EXCEPT ![w] = "read"]
        /\ UNCHANGED <<queue, learned, emitted, dropped>>
    BY <1>3 DEF BeginDrain, At
  <2>2. \A v \in Writer : pc[v] = "idle" /\ pc'[v] \in {"idle", "read"}
    BY <2>1, AllIdle DEF Safe, TypeOK
  <2>3. NothingLost'
    BY <2>1, <2>2 DEF Safe, NothingLost
  <2>4. Exclusive'
    BY <1>3, ExclusiveStep DEF Safe, WriterStep
  <2> QED
    BY <2>2, <2>3, <2>4 DEF Safe, Accounted
<1>4. ASSUME NEW w \in Writer, Crash(w) PROVE Safe'
  <2>1. /\ pc[w] # "torn" /\ pc' = [pc EXCEPT ![w] = "idle"]
        /\ unsaved' = [unsaved EXCEPT ![w] = NoEffects]
        /\ UNCHANGED <<queue, drain, learned, emitted, dropped>>
    BY <1>4 DEF Crash
  <2>2. \A v \in Writer \ {w} : pc'[v] = pc[v] /\ unsaved'[v] = unsaved[v]
    BY <2>1 DEF Safe, TypeOK
  <2>3. pc'[w] = "idle"
    BY <2>1 DEF Safe, TypeOK
  <2>4. Exclusive'
    BY <1>4, ExclusiveStep DEF Safe, WriterStep
  <2>5. \A v \in Writer : Remainder(v)' = Remainder(v)
    BY <2>1 DEF Remainder, drain
  <2>6. NothingLost'
    BY <2>1, <2>2, <2>5 DEF Safe, NothingLost
  <2>7. ASSUME NEW v \in Writer PROVE Accounted(v)'
    <3>1. CASE v = w
      BY <2>3, <3>1 DEF Accounted
    <3>2. CASE v # w
      BY <2>1, <2>2, <3>2 DEF Safe, Accounted, InHand, InMemory, drain
    <3> QED
      BY <3>1, <3>2
  <2> QED
    BY <2>4, <2>6, <2>7 DEF Safe
<1>5. ASSUME NEW w \in Writer, Drain(w) PROVE Safe'
  <2>1. Exclusive' /\ NothingLost' /\ Accounted(w)'
    BY <1>5, ExclusiveStep, NothingLostStep, AccountedStep DEF Safe, WriterStep
  <2>2. ASSUME NEW v \in Writer, v # w PROVE Accounted(v)'
    <3>1. pc[w] # "idle" /\ pc'[v] = pc[v]
      BY <1>5, <2>2, ZenonT(60)
      DEF Safe, TypeOK, At, Drain, FindEmpty, ArchiveCorrupt, ReadQueue, Defer, Drop, Apply,
          ApplyRaises, AuditRaises, LoadFails, OverrideRefused, EndOfBatch, Persist,
          PersistFails, Truncate, WriteBack, StepOver, StopAt, Applies, NextLine
    <3>2. pc'[v] = "idle"
      BY <2>2, <3>1, OthersIdle DEF Safe
    <3> QED
      BY <3>2 DEF Accounted
  <2> QED
    BY <2>1, <2>2 DEF Safe
<1> QED
  BY <1>1, <1>2, <1>3, <1>4, <1>5 DEF Next

\* A drain saves what it learned before it gives up the lines: however many
\* producers append and writers drain, fail and die outside the rewrite, each
\* event is in the file, learned, or discarded on purpose.
THEOREM EventsKept ==
    ASSUME TornRewrites = FALSE PROVE Spec => []NothingLost
<1>1. Init => Safe
  <2> SUFFICES ASSUME Init PROVE Safe
    OBVIOUS
  <2>1. TypeOK
    <3>1. << >> \in Seq(Event) /\ 0 \in 0 .. MaxFailures
      BY LimitAssumption
    <3> QED
      BY <3>1 DEF Init, TypeOK, Nothing, NoEffects
  <2>2. ToSet(emitted) = {}
    BY DEF Init, ToSet
  <2>3. \A w \in Writer : pc[w] = "idle"
    BY DEF Init
  <2> QED
    BY <2>1, <2>2, <2>3 DEF Safe, Exclusive, NothingLost, Accounted
<1>2. Safe /\ TypeOK' /\ [Next]_vars => Safe'
  BY SafeStep
<1>3. Safe => NothingLost
  BY DEF Safe
<1> QED
  BY <1>1, <1>2, <1>3, Typing, PTL DEF Spec
-----------------------------------------------------------------------------
(* Nothing is learned twice *)

\* The writer has read the file.
Past(w) == pc[w] \in {"line", "persist", "torn"}

Spent(e) == learned[e] > 0 \/ \E w \in Writer, s \in Space : e \in unsaved[w][s]

\* Without a failure, an effect is made once: in memory, where the drain will
\* save it, or on disk.
Single ==
    \A e \in Event :
        /\ learned[e] <= 1
        /\ Spent(e) => e \in ToSet(emitted)
        /\ \A w \in Writer, s \in Space : e \in unsaved[w][s] =>
             learned[e] = 0 /\ s = SpaceOf[e] /\ s \in saves[w] /\ pc[w] \in {"line", "persist"}

\* No line stands twice in the file, nor in it when it has been applied.
FileOnce ==
    /\ IsInjective(queue)
    /\ ToSet(queue) \subseteq ToSet(emitted)
    /\ (\A w \in Writer : ~Past(w)) => \A e \in ToSet(queue) : ~Spent(e)

\* The lines in a drain's hands are different, and none of them is applied.
Apart(w) ==
    /\ IsInjective(batch[w]) /\ IsInjective(deferred[w])
    /\ IsInjective(pending[w]) /\ IsInjective(tail[w])
    /\ ToSet(batch[w]) \cap (ToSet(deferred[w]) \cup ToSet(pending[w]) \cup ToSet(tail[w])) = {}
    /\ ToSet(deferred[w]) \cap (ToSet(pending[w]) \cup ToSet(tail[w])) = {}
    /\ ToSet(pending[w]) \cap ToSet(tail[w]) = {}
    /\ InHand(w) \subseteq ToSet(emitted)
    /\ \A e \in InHand(w) : ~Spent(e)
    /\ pc[w] = "line" => pending[w] = << >>

Once ==
    /\ TypeOK /\ Exclusive
    /\ failures = 0 => Single /\ FileOnce /\ \A w \in Writer : Past(w) => Apart(w)

\* A new line at the end keeps lines different.
LEMMA OnceOfAppend ==
    ASSUME NEW s \in Seq(Event), NEW e \in Event, IsInjective(s), e \notin ToSet(s)
    PROVE  IsInjective(Append(s, e))
<1> DEFINE u == Append(s, e)
<1>1. DOMAIN u = 1 .. Len(s) + 1 /\ u[Len(s) + 1] = e /\ \A i \in 1 .. Len(s) : u[i] = s[i]
  OBVIOUS
<1>2. \A i \in 1 .. Len(s) : s[i] # e
  BY DEF ToSet
<1>3. \A i, j \in 1 .. Len(s) : s[i] = s[j] => i = j
  BY DEF IsInjective
<1>4. \A i \in DOMAIN u : i = Len(s) + 1 \/ i \in 1 .. Len(s)
  BY <1>1
<1> HIDE DEF u
<1>5. IsInjective(u)
  BY <1>1, <1>2, <1>3, <1>4 DEF IsInjective
<1> QED
  BY <1>5 DEF u

\* The lines behind the first are different, also from it.
LEMMA OnceOfTail ==
    ASSUME NEW s \in Seq(Event), s # << >>, IsInjective(s)
    PROVE  IsInjective(Tail(s)) /\ Head(s) \notin ToSet(Tail(s))
<1>1. /\ DOMAIN Tail(s) = 1 .. Len(s) - 1 /\ Head(s) = s[1] /\ Len(s) \in Nat \ {0}
      /\ \A i \in 1 .. Len(s) - 1 : Tail(s)[i] = s[i + 1]
  OBVIOUS
<1>2. \A i, j \in 1 .. Len(s) : s[i] = s[j] => i = j
  BY DEF IsInjective
<1>3. ASSUME NEW i \in DOMAIN Tail(s), NEW j \in DOMAIN Tail(s), Tail(s)[i] = Tail(s)[j]
      PROVE  i = j
  BY <1>1, <1>2, <1>3
<1>4. ASSUME NEW i \in DOMAIN Tail(s) PROVE Tail(s)[i] # Head(s)
  BY <1>1, <1>2
<1> QED
  BY <1>3, <1>4 DEF IsInjective, ToSet

\* Two groups of different lines without a common one are different together.
LEMMA OnceOfConcat ==
    ASSUME NEW s \in Seq(Event), NEW u \in Seq(Event), IsInjective(s), IsInjective(u),
           ToSet(s) \cap ToSet(u) = {}
    PROVE  IsInjective(s \o u)
<1> DEFINE c == s \o u
<1>1. /\ DOMAIN c = 1 .. Len(s) + Len(u) /\ Len(s) \in Nat /\ Len(u) \in Nat
      /\ \A i \in 1 .. Len(s) : c[i] = s[i]
      /\ \A i \in DOMAIN c : i \notin 1 .. Len(s) =>
           i - Len(s) \in 1 .. Len(u) /\ c[i] = u[i - Len(s)]
  OBVIOUS
<1>2. \A i, j \in 1 .. Len(s) : s[i] = s[j] => i = j
  BY DEF IsInjective
<1>3. \A i, j \in 1 .. Len(u) : u[i] = u[j] => i = j
  BY DEF IsInjective
<1>4. \A i \in 1 .. Len(s), j \in 1 .. Len(u) : s[i] # u[j]
  BY DEF ToSet
<1> HIDE DEF c
<1>5. ASSUME NEW i \in DOMAIN c, NEW j \in DOMAIN c, c[i] = c[j] PROVE i = j
  <2>1. CASE i \in 1 .. Len(s) /\ j \in 1 .. Len(s)
    BY <1>1, <1>2, <1>5, <2>1
  <2>2. CASE i \in 1 .. Len(s) /\ j \notin 1 .. Len(s)
    BY <1>1, <1>4, <1>5, <2>2
  <2>3. CASE i \notin 1 .. Len(s) /\ j \in 1 .. Len(s)
    BY <1>1, <1>4, <1>5, <2>3
  <2>4. CASE i \notin 1 .. Len(s) /\ j \notin 1 .. Len(s)
    <3>1. i - Len(s) = j - Len(s)
      BY <1>1, <1>3, <1>5, <2>4
    <3> QED
      BY <1>1, <3>1
  <2> QED
    BY <2>1, <2>2, <2>3, <2>4
<1>6. IsInjective(c)
  BY <1>5 DEF IsInjective
<1> QED
  BY <1>6 DEF c

\* What a drain reads and what it leaves unread have no line in common.
LEMMA OnceOfSplit ==
    ASSUME NEW s \in Seq(Event), NEW n \in 0 .. Len(s), IsInjective(s)
    PROVE  LET front == SubSeq(s, 1, n)
               rest == SubSeq(s, n + 1, Len(s)) IN
           IsInjective(front) /\ IsInjective(rest) /\ ToSet(front) \cap ToSet(rest) = {}
<1> DEFINE front == SubSeq(s, 1, n)
           rest == SubSeq(s, n + 1, Len(s))
<1>1. /\ DOMAIN front = 1 .. n /\ \A i \in 1 .. n : front[i] = s[i]
      /\ DOMAIN rest = 1 .. Len(s) - n /\ \A i \in 1 .. Len(s) - n : rest[i] = s[n + i]
      /\ n \in Nat /\ Len(s) \in Nat /\ n <= Len(s)
  OBVIOUS
<1>2. \A i, j \in 1 .. Len(s) : s[i] = s[j] => i = j
  BY DEF IsInjective
<1> HIDE DEF front, rest
<1>3. IsInjective(front)
  BY <1>1, <1>2 DEF IsInjective
<1>4. ASSUME NEW i \in DOMAIN rest, NEW j \in DOMAIN rest, rest[i] = rest[j] PROVE i = j
  <2>1. n + i \in 1 .. Len(s) /\ n + j \in 1 .. Len(s) /\ s[n + i] = s[n + j]
    BY <1>1, <1>4
  <2>2. n + i = n + j
    BY <1>2, <2>1
  <2> QED
    BY <1>1, <2>2
<1>5. ASSUME NEW i \in DOMAIN front, NEW j \in DOMAIN rest PROVE front[i] # rest[j]
  <2>1. n + j \in 1 .. Len(s) /\ i \in 1 .. Len(s) /\ i # n + j
    BY <1>1
  <2> QED
    BY <1>1, <1>2, <2>1
<1>6. IsInjective(front) /\ IsInjective(rest) /\ ToSet(front) \cap ToSet(rest) = {}
  BY <1>3, <1>4, <1>5 DEF IsInjective, ToSet
<1> QED
  BY <1>6 DEF front, rest

\* A line that leaves the batch leaves the lines in hand different.
LEMMA ApartPassing ==
    ASSUME TypeOK, NEW w \in Writer, NextLine(w), Apart(w), NEW e, e = Head(batch[w]),
           batch'[w] = Tail(batch[w]), pending'[w] = pending[w], tail'[w] = tail[w],
           emitted' = emitted, pc'[w] = "line",
           \/ /\ deferred'[w] = Append(deferred[w], e)
              /\ \A f \in Event : Spent(f)' => Spent(f)
           \/ /\ deferred'[w] = deferred[w]
              /\ \A f \in Event : Spent(f)' => Spent(f) \/ f = e
    PROVE  Apart(w)'
<1>1. /\ pc[w] = "line" /\ batch[w] \in Seq(Event) /\ batch[w] # << >>
      /\ deferred[w] \in Seq(Event)
  BY DEF TypeOK, NextLine
<1>2. /\ e \in Event /\ ToSet(batch[w]) = {e} \cup ToSet(batch'[w])
      /\ IsInjective(batch'[w]) /\ e \notin ToSet(batch'[w])
  BY <1>1, LinesOfTail, OnceOfTail DEF Apart
<1>3. pending[w] = << >> /\ pending'[w] = << >>
  BY <1>1 DEF Apart
<1>4. e \in InHand(w) /\ e \notin ToSet(deferred[w]) /\ e \notin ToSet(pending[w])
        /\ e \notin ToSet(tail[w])
  BY <1>2 DEF Apart, InHand
<1>5. InHand(w) \subseteq Event
  BY DEF TypeOK, InHand, ToSet
<1>6. CASE deferred'[w] = Append(deferred[w], e) /\ \A f \in Event : Spent(f)' => Spent(f)
  <2>1. /\ ToSet(deferred'[w]) = ToSet(deferred[w]) \cup {e} /\ IsInjective(deferred'[w])
    BY <1>1, <1>2, <1>4, <1>6, LinesOfAppend, OnceOfAppend DEF Apart
  <2>2. InHand(w)' \subseteq InHand(w)
    BY <1>2, <2>1 DEF InHand
  <2>3. \A f \in InHand(w)' : ~Spent(f)'
    BY <1>5, <1>6, <2>2 DEF Apart
  <2> QED
    BY <1>2, <1>3, <1>4, <2>1, <2>2, <2>3 DEF Apart
<1>7. CASE deferred'[w] = deferred[w] /\ \A f \in Event : Spent(f)' => Spent(f) \/ f = e
  <2>1. InHand(w)' \subseteq InHand(w) \ {e}
    BY <1>2, <1>4, <1>7 DEF InHand
  <2>2. \A f \in InHand(w)' : ~Spent(f)'
    BY <1>5, <1>7, <2>1 DEF Apart
  <2> QED
    BY <1>2, <1>3, <1>7, <2>1, <2>2 DEF Apart
<1> QED
  BY <1>6, <1>7

\* Learning what waits in one partition, and perhaps one new event, is learning
\* it for the first time.
LEMMA SingleLearn ==
    ASSUME TypeOK, Single, NEW w \in Writer, NEW s \in Space, NEW N \in SUBSET Event,
           pc'[w] \in {"line", "persist"},
           \A v \in Writer \ {w} : pc[v] = "idle",
           pc'[w] = pc[w], saves' = saves, emitted' = emitted,
           \A e \in N : ~Spent(e) /\ e \in ToSet(emitted) /\ SpaceOf[e] = s,
           Learn(unsaved[w][s] \cup N), unsaved' = [unsaved EXCEPT ![w][s] = {}]
    PROVE  Single' /\ \A e \in Event : Spent(e)' => Spent(e) \/ e \in N
<1>1. /\ \A v \in Writer, r \in Space : unsaved'[v][r] = IF v = w /\ r = s THEN {} ELSE unsaved[v][r]
      /\ \A e \in Event : learned'[e] = IF e \in unsaved[w][s] \cup N THEN learned[e] + 1 ELSE learned[e]
      /\ \A e \in Event : learned[e] \in Nat
  BY DEF TypeOK, Learn
<1>2. ASSUME NEW e \in Event, e \in unsaved[w][s] \cup N PROVE learned[e] = 0 /\ s = SpaceOf[e]
  BY <1>1, <1>2 DEF Single, Spent
<1>3. ASSUME NEW e \in Event PROVE learned'[e] <= 1
  BY <1>1, <1>2 DEF Single
<1>4. ASSUME NEW e \in Event, Spent(e)' PROVE Spent(e) \/ e \in N
  <2>1. CASE learned'[e] > 0
    BY <1>1, <2>1 DEF Spent
  <2>2. CASE \E v \in Writer, r \in Space : e \in unsaved'[v][r]
    BY <1>1, <2>2 DEF Spent
  <2> QED
    BY <1>4, <2>1, <2>2 DEF Spent
<1>5. ASSUME NEW e \in Event, NEW v \in Writer, NEW r \in Space, e \in unsaved'[v][r]
      PROVE  learned'[e] = 0 /\ r = SpaceOf[e] /\ r \in saves'[v] /\ pc'[v] \in {"line", "persist"}
  <2>1. e \in unsaved[v][r] /\ ~(v = w /\ r = s)
    BY <1>1, <1>5
  <2>2. learned[e] = 0 /\ r = SpaceOf[e] /\ r \in saves[v] /\ pc[v] \in {"line", "persist"}
    BY <2>1 DEF Single
  <2>3. v = w
    BY <2>2
  <2>4. e \notin unsaved[w][s] \cup N
    BY <1>2, <2>1, <2>2, <2>3
  <2> QED
    BY <1>1, <2>2, <2>3, <2>4
<1>6. \A e \in Event : Spent(e)' => e \in ToSet(emitted')
  BY <1>4 DEF Single
<1> QED
  BY <1>3, <1>4, <1>5, <1>6 DEF Single

\* The effect of a line that is not applied yet is made once.
LEMMA SingleEffect ==
    ASSUME TypeOK, Single, NEW w \in Writer, NEW e \in Event, pc[w] = "line", pc'[w] = "line",
           \A v \in Writer \ {w} : pc[v] = "idle" /\ pc'[v] = "idle",
           ~Spent(e), e \in ToSet(emitted), Effect(w, e), emitted' = emitted,
           saves' = IF KindOf[e] = "feedback"
                    THEN [saves EXCEPT ![w] = @ \cup {SpaceOf[e]}] ELSE saves
    PROVE  Single' /\ \A f \in Event : Spent(f)' => Spent(f) \/ f = e
<1>1. SpaceOf[e] \in Space
  BY EventAssumption
<1>2. CASE KindOf[e] = "feedback" /\ Remember(w, e)
  <2>1. /\ learned' = learned
        /\ \A v \in Writer, r \in Space : unsaved'[v][r] =
             IF v = w /\ r = SpaceOf[e] THEN unsaved[v][r] \cup {e} ELSE unsaved[v][r]
        /\ saves[w] \subseteq saves'[w] /\ SpaceOf[e] \in saves'[w]
    BY <1>1, <1>2 DEF TypeOK, Remember
  <2>2. \A f \in Event : Spent(f)' => Spent(f) \/ f = e
    <3>1. \A f \in Event, v \in Writer, r \in Space :
            f \in unsaved'[v][r] => f \in unsaved[v][r] \/ f = e
      <4> SUFFICES ASSUME NEW f \in Event, NEW v \in Writer, NEW r \in Space,
                          f \in unsaved'[v][r]
                   PROVE  f \in unsaved[v][r] \/ f = e
        OBVIOUS
      <4>1. CASE v = w /\ r = SpaceOf[e]
        BY <2>1, <4>1, ZenonT(60)
      <4>2. CASE ~(v = w /\ r = SpaceOf[e])
        BY <2>1, <4>2
      <4> QED
        BY <4>1, <4>2
    <3> QED
      BY <2>1, <3>1, Zenon DEF Spent
  <2>3. learned[e] = 0
    <3>1. learned[e] \in Nat
      BY DEF TypeOK
    <3> QED
      BY <3>1 DEF Spent
  <2>4. ASSUME NEW f \in Event, NEW v \in Writer, NEW r \in Space, f \in unsaved'[v][r]
        PROVE  learned'[f] = 0 /\ r = SpaceOf[f] /\ r \in saves'[v] /\ pc'[v] \in {"line", "persist"}
    <3>1. CASE f \in unsaved[v][r]
      <4>1. learned[f] = 0 /\ r = SpaceOf[f] /\ r \in saves[v] /\ pc[v] \in {"line", "persist"}
        BY <3>1 DEF Single
      <4>2. v = w
        BY <4>1
      <4> QED
        BY <2>1, <4>1, <4>2
    <3>2. CASE f \notin unsaved[v][r]
      <4>1. f = e /\ v = w /\ r = SpaceOf[e]
        BY <2>1, <2>4, <3>2, ZenonT(60)
      <4> QED
        BY <2>1, <2>3, <4>1
    <3> QED
      BY <3>1, <3>2
  <2> QED
    BY <2>1, <2>2, <2>4 DEF Single
<1>3. CASE /\ KindOf[e] = "verdict"
           /\ Learn(unsaved[w][SpaceOf[e]] \cup {e})
           /\ unsaved' = [unsaved EXCEPT ![w][SpaceOf[e]] = {}]
  <2>1. Single' /\ \A f \in Event : Spent(f)' => Spent(f) \/ f \in {e}
    BY <1>1, <1>3, SingleLearn
  <2> QED
    BY <2>1
<1>4. CASE KindOf[e] = "override" /\ Learn({e}) /\ UNCHANGED unsaved
  <2>1. \A f \in Event : /\ learned[f] \in Nat
                         /\ learned'[f] = IF f = e THEN learned[f] + 1 ELSE learned[f]
    BY <1>4 DEF TypeOK, Learn
  <2>2. learned[e] = 0 /\ \A v \in Writer, r \in Space : e \notin unsaved[v][r]
    BY <2>1 DEF Spent
  <2>3. \A f \in Event : Spent(f)' => Spent(f) \/ f = e
    BY <1>4, <2>1 DEF Spent
  <2>4. \A f \in Event : learned'[f] <= 1
    BY <2>1, <2>2 DEF Single
  <2>5. ASSUME NEW f \in Event, NEW v \in Writer, NEW r \in Space, f \in unsaved'[v][r]
        PROVE  learned'[f] = 0 /\ r = SpaceOf[f] /\ r \in saves'[v] /\ pc'[v] \in {"line", "persist"}
    <3>1. f \in unsaved[v][r] /\ f # e
      BY <1>4, <2>2, <2>5
    <3>2. learned[f] = 0 /\ r = SpaceOf[f] /\ r \in saves[v] /\ pc[v] \in {"line", "persist"}
      BY <3>1 DEF Single
    <3>3. v = w
      BY <3>2
    <3> QED
      BY <1>4, <2>1, <3>1, <3>2, <3>3
  <2> QED
    BY <2>3, <2>4, <2>5 DEF Single
<1> QED
  BY <1>2, <1>3, <1>4 DEF Effect

\* What the drain of w changes, as far as the other writers are concerned.
LEMMA OthersStill ==
    ASSUME TypeOK, Exclusive, NEW w \in Writer, Drain(w)
    PROVE  /\ pc[w] # "idle"
           /\ \A v \in Writer \ {w} : pc[v] = "idle" /\ pc'[v] = "idle"
           /\ emitted' = emitted
  <1> USE DEF At, drain
  <1>1. pc[w] # "idle"
    BY DEF Drain, FindEmpty, ArchiveCorrupt, ReadQueue, Defer, Drop, Apply,
           ApplyRaises, AuditRaises, LoadFails, OverrideRefused, EndOfBatch, Persist,
           PersistFails, Truncate, WriteBack, Applies, NextLine
  <1>2. \A v \in Writer \ {w} : pc'[v] = pc[v]
    BY DEF TypeOK, Drain, FindEmpty, ArchiveCorrupt, ReadQueue, Defer, Drop, Apply,
           ApplyRaises, AuditRaises, LoadFails, OverrideRefused, EndOfBatch, Persist,
           PersistFails, Truncate, WriteBack, StepOver, StopAt
  <1>3. emitted' = emitted
    BY DEF Drain, FindEmpty, ArchiveCorrupt, ReadQueue, Defer, Drop, Apply,
           ApplyRaises, AuditRaises, LoadFails, OverrideRefused, EndOfBatch, Persist,
           PersistFails, Truncate, WriteBack, StepOver, StopAt
  <1> QED
    BY <1>1, <1>2, <1>3, OthersIdle

\* The file stays as it is while a drain goes through its lines.
LEMMA FileDuringDrain ==
    ASSUME FileOnce, NEW w \in Writer, Past(w)', queue' = queue \/ queue' = << >>,
           emitted' = emitted
    PROVE  FileOnce'
<1>1. IsInjective(<< >>) /\ ToSet(<< >>) = {}
  BY DEF IsInjective, ToSet
<1> QED
  BY <1>1 DEF FileOnce

\* A draining writer that nothing fails learns each event once.
LEMMA DrainOnce ==
    ASSUME Once, NEW w \in Writer, Drain(w), failures = 0, failures' = 0
    PROVE  Single' /\ FileOnce' /\ (Past(w)' => Apart(w)')
  <1> USE DEF At, drain
  <1>t. /\ TypeOK /\ Exclusive /\ Single /\ FileOnce /\ (Past(w) => Apart(w))
        /\ pc \in [Writer -> {"idle", "read", "line", "persist", "torn"}]
    BY DEF Once, TypeOK
  <1>o. /\ pc[w] # "idle" /\ emitted' = emitted
        /\ \A v \in Writer \ {w} : pc[v] = "idle" /\ pc'[v] = "idle"
    BY <1>t, OthersStill
  <1>n. ~Fail
    BY DEF Fail
  <1>q. \A v \in Writer \ {w} : ~Past(v) /\ ~Past(v)'
    BY <1>o DEF Past
  <1>1. CASE FindEmpty(w)
    <2>1. UNCHANGED <<queue, unsaved, learned, emitted, saves>> /\ pc[w] = "read" /\ pc'[w] = "idle"
      BY <1>t, <1>1 DEF FindEmpty
    <2>2. ~Past(w) /\ ~Past(w)'
      BY <2>1 DEF Past
    <2>3. Single'
      BY <1>t, <1>o, <2>1 DEF Single, Spent
    <2> QED
      BY <1>t, <1>q, <2>1, <2>2, <2>3 DEF FileOnce, Spent
  <1>2. CASE ArchiveCorrupt(w)
    <2>1. /\ UNCHANGED <<unsaved, learned, emitted, saves>> /\ pc[w] = "read" /\ pc'[w] = "idle"
          /\ queue' = << >>
      BY <1>t, <1>2 DEF ArchiveCorrupt
    <2>2. Single'
      BY <1>t, <1>o, <2>1 DEF Single, Spent
    <2>3. IsInjective(<< >>) /\ ToSet(<< >>) = {}
      BY DEF IsInjective, ToSet
    <2> QED
      BY <2>1, <2>2, <2>3 DEF FileOnce, Past
  <1>3. CASE ReadQueue(w)
    <2> DEFINE n == HeadLength(queue)
    <2>1. n \in 0 .. Len(queue) /\ queue \in Seq(Event)
      BY <1>t, HeadLengthType DEF TypeOK
    <2>2. /\ ToSet(queue) = ToSet(SubSeq(queue, 1, n)) \cup ToSet(SubSeq(queue, n + 1, Len(queue)))
          /\ IsInjective(SubSeq(queue, 1, n)) /\ IsInjective(SubSeq(queue, n + 1, Len(queue)))
          /\ ToSet(SubSeq(queue, 1, n)) \cap ToSet(SubSeq(queue, n + 1, Len(queue))) = {}
      BY <1>t, <2>1, LinesOfSplit, OnceOfSplit DEF FileOnce
    <2>3. /\ batch'[w] = SubSeq(queue, 1, n) /\ tail'[w] = SubSeq(queue, n + 1, Len(queue))
          /\ pending'[w] = << >> /\ deferred'[w] = << >> /\ pc'[w] = "line" /\ pc[w] = "read"
          /\ UNCHANGED <<queue, unsaved, learned, emitted>>
      BY <1>t, <1>3 DEF ReadQueue, TypeOK
    <2> HIDE DEF n
    <2>4. IsInjective(<< >>) /\ ToSet(<< >>) = {}
      BY DEF IsInjective, ToSet
    <2>5. InHand(w)' = ToSet(queue)
      BY <2>2, <2>3, <2>4 DEF InHand
    <2>6. \A e \in ToSet(queue) : ~Spent(e) /\ ~Spent(e)'
      BY <1>t, <1>q, <2>3 DEF FileOnce, Past, Spent
    <2>7. Apart(w)'
      BY <1>t, <2>2, <2>3, <2>4, <2>5, <2>6 DEF Apart, FileOnce
    <2>8. Single'
      <3>1. \A e \in Event, v \in Writer, s \in Space : e \notin unsaved[v][s]
        BY <1>o, <2>3 DEF Single, Once
      <3> QED
        BY <1>t, <2>3, <3>1 DEF Single, Spent
    <2>9. FileOnce'
      BY <1>t, <2>3, FileDuringDrain DEF Past
    <2> QED
      BY <2>7, <2>8, <2>9
  <1>4. CASE Defer(w)
    <2>1. /\ NextLine(w) /\ pc' = pc /\ UNCHANGED <<queue, saves, unsaved, learned>>
          /\ batch'[w] = Tail(batch[w]) /\ pending' = pending /\ tail' = tail
          /\ deferred'[w] = Append(deferred[w], Head(batch[w])) /\ pc[w] = "line"
      BY <1>t, <1>4 DEF Defer, StepOver, TypeOK, NextLine
    <2>2. \A f \in Event : Spent(f)' <=> Spent(f)
      BY <2>1 DEF Spent
    <2>3. Apart(w)'
      BY <1>t, <1>o, <2>1, <2>2, ApartPassing DEF Past
    <2>4. Single'
      BY <1>t, <1>o, <2>1, <2>2 DEF Single
    <2>5. FileOnce'
      BY <1>t, <1>o, <2>1, FileDuringDrain DEF Past
    <2> QED
      BY <2>3, <2>4, <2>5
  <1>5. CASE Drop(w)
    <2>1. /\ NextLine(w) /\ pc' = pc /\ UNCHANGED <<queue, saves, unsaved, learned, deferred>>
          /\ batch'[w] = Tail(batch[w]) /\ pending' = pending /\ tail' = tail /\ pc[w] = "line"
      BY <1>t, <1>5 DEF Drop, StepOver, TypeOK, NextLine
    <2>2. \A f \in Event : Spent(f)' <=> Spent(f)
      BY <2>1 DEF Spent
    <2>3. Apart(w)'
      BY <1>t, <1>o, <2>1, <2>2, ApartPassing DEF Past
    <2>4. Single'
      BY <1>t, <1>o, <2>1, <2>2 DEF Single
    <2>5. FileOnce'
      BY <1>t, <1>o, <2>1, FileDuringDrain DEF Past
    <2> QED
      BY <2>3, <2>4, <2>5
  <1>6. CASE Apply(w)
    <2> PICK e \in Event : /\ Applies(w, e) /\ Effect(w, e) /\ StepOver(w)
                           /\ saves' = IF KindOf[e] = "feedback"
                                THEN [saves EXCEPT ![w] = @ \cup {SpaceOf[e]}] ELSE saves
                           /\ UNCHANGED <<tail, deferred, pending, checkpoint, dropped, failures>>
      BY <1>6 DEF Apply
    <2>1. /\ NextLine(w) /\ e = Head(batch[w]) /\ pc' = pc /\ queue' = queue
          /\ batch'[w] = Tail(batch[w]) /\ pc[w] = "line"
      BY <1>t DEF Applies, StepOver, TypeOK, NextLine
    <2>2. e \in InHand(w)
      <3>1. batch[w] \in Seq(Event) /\ batch[w] # << >>
        BY <1>t, <2>1 DEF TypeOK, NextLine
      <3> QED
        BY <2>1, <3>1, LinesOfTail DEF InHand
    <2>3. ~Spent(e) /\ e \in ToSet(emitted)
      BY <1>t, <2>1, <2>2 DEF Past, Apart
    <2>4. Single' /\ \A f \in Event : Spent(f)' => Spent(f) \/ f = e
      BY <1>t, <1>o, <2>1, <2>3, SingleEffect
    <2>5. Apart(w)'
      BY <1>t, <1>o, <2>1, <2>4, ApartPassing DEF Past
    <2>6. FileOnce'
      BY <1>t, <1>o, <2>1, FileDuringDrain DEF Past
    <2> QED
      BY <2>4, <2>5, <2>6
  <1>7. CASE ApplyRaises(w)
    <2>1. /\ pc[w] = "line" /\ pc'[w] = "persist" /\ batch'[w] = << >> /\ pending'[w] = batch[w]
          /\ UNCHANGED <<queue, tail, deferred, saves, unsaved, learned>>
      BY <1>t, <1>7 DEF ApplyRaises, Applies, NextLine, StopAt, TypeOK
    <2>2. \A f \in Event : Spent(f)' <=> Spent(f)
      BY <2>1 DEF Spent
    <2>3. Apart(w) /\ pending[w] = << >>
      BY <1>t, <2>1 DEF Past, Apart
    <2>4. IsInjective(<< >>) /\ ToSet(<< >>) = {}
      BY DEF IsInjective, ToSet
    <2>5. InHand(w)' = InHand(w) /\ InHand(w) \subseteq Event
      BY <1>t, <2>1, <2>3, <2>4 DEF InHand, TypeOK, ToSet
    <2>6. Apart(w)'
      BY <1>o, <2>1, <2>2, <2>3, <2>4, <2>5 DEF Apart
    <2>7. Single'
      BY <1>t, <1>o, <2>1, <2>2 DEF Single
    <2>8. FileOnce'
      BY <1>t, <1>o, <2>1, FileDuringDrain DEF Past
    <2> QED
      BY <2>6, <2>7, <2>8
  <1>8. CASE EndOfBatch(w)
    <2>1. /\ pc[w] = "line" /\ pc'[w] = "persist"
          /\ UNCHANGED <<queue, batch, pending, tail, deferred, saves, unsaved, learned>>
      BY <1>t, <1>8 DEF EndOfBatch
    <2>2. \A f \in Event : Spent(f)' <=> Spent(f)
      BY <2>1 DEF Spent
    <2>3. Apart(w) /\ InHand(w) \subseteq Event
      BY <1>t, <2>1 DEF Past, InHand, TypeOK, ToSet
    <2>4. InHand(w)' = InHand(w)
      BY <2>1 DEF InHand
    <2>5. Apart(w)'
      BY <1>o, <2>1, <2>2, <2>3, <2>4 DEF Apart
    <2>6. Single'
      BY <1>t, <1>o, <2>1, <2>2 DEF Single
    <2>7. FileOnce'
      BY <1>t, <1>o, <2>1, FileDuringDrain DEF Past
    <2> QED
      BY <2>5, <2>6, <2>7
  <1>9. CASE Persist(w)
    <2> PICK s \in Unsaved(w) : /\ pc[w] = "persist" /\ Learn(unsaved[w][s])
                                /\ unsaved' = [unsaved EXCEPT ![w][s] = {}]
                                /\ UNCHANGED <<queue, lock, pc, drain, emitted, dropped, failures>>
      BY <1>9 DEF Persist
    <2>1. s \in Space
      BY <1>t DEF Unsaved, TypeOK
    <2>2. Learn(unsaved[w][s] \cup {})
      <3>1. unsaved[w][s] \cup {} = unsaved[w][s]
        OBVIOUS
      <3> QED
        BY <3>1
    <2>3. Single' /\ \A f \in Event : Spent(f)' => Spent(f)
      <3> DEFINE N == {}
      <3>1. /\ N \in SUBSET Event
            /\ \A e \in N : ~Spent(e) /\ e \in ToSet(emitted) /\ SpaceOf[e] = s
            /\ pc'[w] \in {"line", "persist"} /\ pc'[w] = pc[w] /\ saves' = saves
            /\ \A v \in Writer \ {w} : pc[v] = "idle"
            /\ unsaved' = [unsaved EXCEPT ![w][s] = {}]
        BY <1>o
      <3>2. Learn(unsaved[w][s] \cup N)
        BY <2>2
      <3>3. \A f \in Event : f \notin N
        OBVIOUS
      <3> HIDE DEF N
      <3>4. Single' /\ \A f \in Event : Spent(f)' => Spent(f) \/ f \in N
        BY <1>t, <1>o, <2>1, <3>1, <3>2, SingleLearn
      <3> QED
        BY <3>3, <3>4
    <2>4. Apart(w) /\ InHand(w) \subseteq Event
      BY <1>t DEF Past, InHand, TypeOK, ToSet
    <2>5. InHand(w)' = InHand(w)
      BY DEF InHand
    <2>6. Apart(w)'
      BY <1>o, <2>3, <2>4, <2>5 DEF Apart
    <2>7. FileOnce'
      BY <1>t, <1>o, FileDuringDrain DEF Past
    <2> QED
      BY <2>3, <2>6, <2>7
  <1>10. CASE Truncate(w)
    <2>1. /\ pc[w] = "persist" /\ pc'[w] = "torn" /\ queue' = << >>
          /\ UNCHANGED <<batch, pending, tail, deferred, saves, unsaved, learned>>
      BY <1>t, <1>10 DEF Truncate
    <2>2. \A f \in Event : Spent(f)' <=> Spent(f)
      BY <2>1 DEF Spent
    <2>3. \A f \in Event, v \in Writer, s \in Space : f \notin unsaved[v][s]
      <3> SUFFICES ASSUME NEW f \in Event, NEW v \in Writer, NEW s \in Space, f \in unsaved[v][s]
                   PROVE  FALSE
        OBVIOUS
      <3>1. s \in saves[v] /\ pc[v] \in {"line", "persist"}
        BY <1>t DEF Single
      <3>2. v = w
        BY <1>o, <3>1
      <3>3. s \in Unsaved(w)
        BY <3>1, <3>2 DEF Unsaved
      <3> QED
        BY <1>10, <3>3 DEF Truncate
    <2>4. Apart(w) /\ InHand(w) \subseteq Event
      BY <1>t, <2>1 DEF Past, InHand, TypeOK, ToSet
    <2>5. InHand(w)' = InHand(w)
      BY <2>1 DEF InHand
    <2>6. Apart(w)'
      BY <1>o, <2>1, <2>2, <2>4, <2>5 DEF Apart
    <2>7. Single'
      BY <1>t, <1>o, <2>1, <2>2, <2>3 DEF Single
    <2>8. FileOnce'
      BY <1>t, <1>o, <2>1, FileDuringDrain DEF Past
    <2> QED
      BY <2>6, <2>7, <2>8
  <1>11. CASE WriteBack(w)
    <2>1. /\ pc[w] = "torn" /\ pc'[w] = "idle" /\ queue' = Remainder(w)
          /\ UNCHANGED <<saves, unsaved, learned>>
      BY <1>t, <1>11 DEF WriteBack
    <2>2. Apart(w) /\ InHand(w) \subseteq Event
      BY <1>t, <2>1 DEF Past, InHand, TypeOK, ToSet
    <2>3. deferred[w] \in Seq(Event) /\ pending[w] \in Seq(Event) /\ tail[w] \in Seq(Event)
      BY <1>t DEF TypeOK
    <2>4. /\ deferred[w] \o pending[w] \in Seq(Event) /\ IsInjective(deferred[w] \o pending[w])
          /\ ToSet(deferred[w] \o pending[w]) = ToSet(deferred[w]) \cup ToSet(pending[w])
      BY <2>2, <2>3, LinesOfConcat, OnceOfConcat DEF Apart
    <2>5. ToSet(deferred[w] \o pending[w]) \cap ToSet(tail[w]) = {}
      BY <2>2, <2>4 DEF Apart
    <2>6. IsInjective(Remainder(w))
      BY <2>2, <2>3, <2>4, <2>5, OnceOfConcat DEF Apart, Remainder
    <2>7. ToSet(Remainder(w)) \subseteq InHand(w)
      BY <1>t, RemainderLines DEF InHand
    <2>8. \A f \in Event : Spent(f)' <=> Spent(f)
      BY <2>1 DEF Spent
    <2>9. FileOnce'
      BY <1>o, <2>1, <2>2, <2>6, <2>7, <2>8 DEF FileOnce, Apart
    <2>10. Single'
      <3>1. \A f \in Event, v \in Writer, s \in Space : f \notin unsaved[v][s]
        BY <1>t, <1>o, <2>1 DEF Single
      <3> QED
        BY <1>t, <1>o, <2>1, <2>8, <3>1 DEF Single
    <2> QED
      BY <2>1, <2>9, <2>10 DEF Past
  <1>12. ~(AuditRaises(w) \/ LoadFails(w) \/ OverrideRefused(w) \/ PersistFails(w))
    BY <1>n DEF AuditRaises, LoadFails, OverrideRefused, PersistFails
  <1> QED
    BY <1>1, <1>2, <1>3, <1>4, <1>5, <1>6, <1>7, <1>8, <1>9, <1>10, <1>11, <1>12 DEF Drain

\* No step of any writer or producer makes an effect a second time.
LEMMA OnceStep ==
    ASSUME Once, TypeOK', [Next]_vars
    PROVE  Once'
<1>t. TypeOK /\ Exclusive
  BY DEF Once
<1>f. failures \in Nat /\ (failures' = failures \/ failures' = failures + 1)
  BY DEF Once, TypeOK, vars, Next, Emit, BeginDrain, Crash, Fail, drain, Drain, FindEmpty,
         ArchiveCorrupt, ReadQueue, Defer, Drop, Apply, ApplyRaises, AuditRaises, LoadFails,
         OverrideRefused, EndOfBatch, Persist, PersistFails, Truncate, WriteBack
<1>x. Exclusive'
  <2>1. CASE UNCHANGED vars
    BY <1>t, <2>1 DEF vars, Exclusive
  <2>2. ASSUME NEW e \in Event, Emit(e) PROVE Exclusive'
    BY <1>t, <2>2 DEF Emit, Exclusive
  <2>3. ASSUME NEW w \in Writer, WriterStep(w) PROVE Exclusive'
    BY <1>t, <2>3, ExclusiveStep
  <2> QED
    BY <2>1, <2>2, <2>3 DEF Next, WriterStep
<1> SUFFICES ASSUME failures' = 0
             PROVE  (Single /\ FileOnce /\ \A w \in Writer : Past(w) => Apart(w))'
  BY <1>x DEF Once
<1>0. failures = 0 /\ Single /\ FileOnce /\ \A w \in Writer : Past(w) => Apart(w)
  BY <1>f DEF Once
<1>1. CASE UNCHANGED vars
  <2> USE <1>1 DEF vars, drain
  <2>1. \A f : Spent(f)' <=> Spent(f)
    BY DEF Spent
  <2>2. Single'
    BY <1>0, <2>1 DEF Single
  <2>3. FileOnce'
    BY <1>0, <2>1 DEF FileOnce, Past
  <2>4. ASSUME NEW w \in Writer, Past(w)' PROVE Apart(w)'
    <3>1. Apart(w) /\ InHand(w)' = InHand(w)
      BY <1>0, <2>4 DEF Past, InHand
    <3> QED
      BY <2>1, <3>1 DEF Apart
  <2> QED
    BY <2>2, <2>3, <2>4
<1>2. ASSUME NEW e \in Event, Emit(e)
      PROVE  (Single /\ FileOnce /\ \A w \in Writer : Past(w) => Apart(w))'
  <2>1. /\ lock = None /\ e \notin ToSet(emitted)
        /\ queue' = Append(queue, e) /\ emitted' = Append(emitted, e)
        /\ UNCHANGED <<pc, learned, unsaved, saves>>
    BY <1>2 DEF Emit, drain
  <2>2. \A v \in Writer : pc[v] = "idle"
    BY <1>t, <2>1, AllIdle
  <2>3. ToSet(queue') = ToSet(queue) \cup {e} /\ ToSet(emitted') = ToSet(emitted) \cup {e}
    BY <1>t, <2>1, LinesOfAppend DEF TypeOK
  <2>4. IsInjective(queue')
    BY <1>0, <1>t, <2>1, OnceOfAppend DEF FileOnce, TypeOK
  <2>5. \A f \in Event : Spent(f)' <=> Spent(f)
    BY <2>1 DEF Spent
  <2>6. Single'
    BY <1>0, <2>1, <2>3, <2>5 DEF Single
  <2>7. ~Spent(e)
    BY <1>0, <2>1 DEF Single
  <2>8. \A f \in ToSet(queue') : ~Spent(f)'
    <3>1. ToSet(queue) \subseteq Event
      BY <1>t DEF TypeOK, ToSet
    <3>2. \A f \in ToSet(queue) : ~Spent(f)
      BY <1>0, <2>2 DEF FileOnce, Past
    <3> QED
      BY <2>3, <2>5, <2>7, <3>1, <3>2
  <2>9. FileOnce'
    BY <1>0, <2>3, <2>4, <2>8 DEF FileOnce
  <2> QED
    BY <2>1, <2>2, <2>6, <2>9 DEF Past
<1>3. ASSUME NEW w \in Writer, BeginDrain(w)
      PROVE  (Single /\ FileOnce /\ \A v \in Writer : Past(v) => Apart(v))'
  <2>1. /\ lock = None /\ pc' = [pc EXCEPT ![w] = "read"]
        /\ UNCHANGED <<queue, unsaved, learned, emitted, saves>>
    BY <1>3 DEF BeginDrain, At, drain
  <2>2. \A v \in Writer : pc[v] = "idle" /\ pc'[v] \in {"idle", "read"}
    BY <1>t, <2>1, AllIdle DEF TypeOK
  <2>3. \A f \in Event : Spent(f)' <=> Spent(f)
    BY <2>1 DEF Spent
  <2>4. Single'
    BY <1>0, <2>1, <2>2, <2>3 DEF Single
  <2>5. FileOnce'
    <3>1. ToSet(queue) \subseteq Event
      BY <1>t DEF TypeOK, ToSet
    <3>2. \A f \in ToSet(queue) : ~Spent(f)
      BY <1>0, <2>2 DEF FileOnce, Past
    <3> QED
      BY <1>0, <2>1, <2>3, <3>1, <3>2 DEF FileOnce
  <2> QED
    BY <2>2, <2>4, <2>5 DEF Past
<1>4. ASSUME NEW w \in Writer, Crash(w) PROVE FALSE
  BY <1>0, <1>4 DEF Crash, Fail
<1>5. ASSUME NEW w \in Writer, Drain(w)
      PROVE  (Single /\ FileOnce /\ \A v \in Writer : Past(v) => Apart(v))'
  <2>1. Single' /\ FileOnce' /\ (Past(w)' => Apart(w)')
    BY <1>0, <1>5, DrainOnce
  <2>2. \A v \in Writer \ {w} : ~Past(v)'
    BY <1>t, <1>5, OthersStill DEF Past
  <2> QED
    BY <2>1, <2>2
<1> QED
  BY <1>1, <1>2, <1>3, <1>4, <1>5 DEF Next

\* As long as nothing fails, no event is learned twice, however many writers
\* drain the queue by turns and whatever lines always raise.
THEOREM LearnedOnce == Spec => []ReplayedOnlyAfterFailure
<1>1. Init => Once
  <2> SUFFICES ASSUME Init PROVE Once
    OBVIOUS
  <2>1. TypeOK
    <3>1. << >> \in Seq(Event) /\ 0 \in 0 .. MaxFailures
      BY LimitAssumption
    <3> QED
      BY <3>1 DEF Init, TypeOK, Nothing, NoEffects
  <2>2. /\ IsInjective(<< >>) /\ ToSet(<< >>) = {}
        /\ \A w \in Writer : pc[w] = "idle"
        /\ \A e \in Event : ~Spent(e)
    BY DEF Init, NoEffects, Spent, IsInjective, ToSet
  <2>3. Single
    BY <2>2 DEF Init, Single, NoEffects
  <2>4. FileOnce
    BY <2>2 DEF Init, FileOnce
  <2> QED
    BY <2>1, <2>2, <2>3, <2>4 DEF Once, Exclusive, Past
<1>2. Once /\ TypeOK' /\ [Next]_vars => Once'
  BY OnceStep
<1>3. Once => ReplayedOnlyAfterFailure
  BY DEF Once, Single, ReplayedOnlyAfterFailure
<1> QED
  BY <1>1, <1>2, <1>3, Typing, PTL DEF Spec
=============================================================================
