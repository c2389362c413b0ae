----------------------- MODULE WriteQueueOrderProofs -----------------------
(***************************************************************************)
(* A partition learns its events in the order in which they were appended: *)
(* the last theorem of WriteQueue, on top of its invariant Safe.           *)
(***************************************************************************)
EXTENDS WriteQueueProofs

(* Orders of lines *)

Learning(e) == KindOf[e] \in {"feedback", "verdict"}

\* e was appended before f, into the same partition.
Before(em, e, f) ==
    /\ Learning(e) /\ Learning(f) /\ SpaceOf[e] = SpaceOf[f]
    /\ \E j \in DOMAIN em : em[j] = f /\ \E i \in 1 .. j - 1 : em[i] = e

\* In the lines q, each event comes behind those before it, but for those in K.
InOrder(em, q, K) ==
    \A j \in DOMAIN q : \A e \in Event :
        Before(em, e, q[j]) => e \in K \/ \E i \in 1 .. j - 1 : q[i] = e

Done == {e \in Event : Settled(e)}

\* Each event that waits in memory comes with those before it.
StoreOrdered(em, done, w, store) ==
    \A s \in Space : \A f \in store[s] :
        /\ f \in ToSet(em) /\ s = SpaceOf[f] /\ ~LeavesAlone(w, f)
        /\ \A e \in Event : Before(em, e, f) => e \in done \cup store[s]

\* What the drain will save.
Held(w) == UNION {unsaved[w][s] : s \in saves[w]}

\* What a line in the batch may come behind.
Covered(w) == Done \cup Held(w) \cup ToSet(deferred[w])

HandOrdered(w) ==
    /\ InHand(w) \subseteq ToSet(emitted)
    /\ \A f \in ToSet(deferred[w]) : LeavesAlone(w, f)
    /\ InOrder(emitted, deferred[w], Done)
    /\ InOrder(emitted, batch[w], Covered(w))
    /\ InOrder(emitted, pending[w], Covered(w))
    /\ InOrder(emitted, tail[w], Covered(w) \cup ToSet(batch[w]) \cup ToSet(pending[w]))

FileOrdered == ToSet(queue) \subseteq ToSet(emitted) /\ InOrder(emitted, queue, Done)

WriterOrdered(w) ==
    /\ StoreOrdered(emitted, Done, w, unsaved[w])
    /\ StoreOrdered(emitted, Done, w, checkpoint[w])
    /\ pc[w] \in {"line", "persist"} => HandOrdered(w)
    /\ pc[w] = "torn" => /\ ToSet(Remainder(w)) \subseteq ToSet(emitted)
                         /\ InOrder(emitted, Remainder(w), Done)

Orderly == Safe /\ FileOrdered /\ \A w \in Writer : WriterOrdered(w)

\* More may be left out of an order.
LEMMA OrderWeaker ==
    ASSUME NEW em, NEW q, NEW K, NEW L, InOrder(em, q, K), K \cap Event \subseteq L
    PROVE  InOrder(em, q, L)
  BY DEF InOrder

\* An empty list is in order.
LEMMA OrderOfEmpty == \A em, K : InOrder(em, << >>, K)
  BY DEF InOrder

\* A line emitted now comes before none that is there already.
LEMMA BeforeEmitted ==
    ASSUME NEW em \in Seq(Event), NEW n \in Event, n \notin ToSet(em),
           NEW e \in Event, NEW f \in ToSet(em), Before(Append(em, n), e, f)
    PROVE  Before(em, e, f)
<1> DEFINE u == Append(em, n)
<1>1. /\ DOMAIN u = 1 .. Len(em) + 1 /\ u[Len(em) + 1] = n /\ Len(em) \in Nat
      /\ DOMAIN em = 1 .. Len(em) /\ \A i \in 1 .. Len(em) : u[i] = em[i]
  OBVIOUS
<1>2. PICK j \in DOMAIN u : u[j] = f /\ \E i \in 1 .. j - 1 : u[i] = e
  BY DEF Before
<1>3. PICK i \in 1 .. j - 1 : u[i] = e
  BY <1>2
<1> HIDE DEF u
<1>4. j # Len(em) + 1
  BY <1>1, <1>2
<1>5. j \in 1 .. Len(em) /\ i \in 1 .. Len(em)
  BY <1>1, <1>3, <1>4
<1>6. em[j] = f /\ em[i] = e
  BY <1>1, <1>2, <1>3, <1>5
<1>7. j \in DOMAIN em
  BY <1>1, <1>5
<1>8. \E k \in DOMAIN em : em[k] = f /\ \E l \in 1 .. k - 1 : em[l] = e
  BY <1>3, <1>6, <1>7
<1> QED
  BY <1>8 DEF Before

\* Lines in order stay so when another line is emitted.
LEMMA OrderOfEmit ==
    ASSUME NEW em \in Seq(Event), NEW n \in Event, n \notin ToSet(em),
           NEW q, NEW K, ToSet(q) \subseteq ToSet(em), InOrder(em, q, K)
    PROVE  InOrder(Append(em, n), q, K)
<1> SUFFICES ASSUME NEW j \in DOMAIN q, NEW e \in Event, Before(Append(em, n), e, q[j])
             PROVE  e \in K \/ \E i \in 1 .. j - 1 : q[i] = e
  BY DEF InOrder
<1>1. q[j] \in ToSet(em)
  BY DEF ToSet
<1>2. Before(em, e, q[j])
  BY <1>1, BeforeEmitted
<1> QED
  BY <1>2 DEF InOrder

\* A line joins the end of an order when those before it are there.
LEMMA OrderOfAppend ==
    ASSUME NEW em, NEW q \in Seq(Event), NEW n \in Event, NEW K, InOrder(em, q, K),
           \A e \in Event : Before(em, e, n) => e \in K \/ e \in ToSet(q)
    PROVE  InOrder(em, Append(q, n), K)
<1> DEFINE u == Append(q, n)
<1>1. /\ DOMAIN u = 1 .. Len(q) + 1 /\ u[Len(q) + 1] = n /\ Len(q) \in Nat
      /\ DOMAIN q = 1 .. Len(q) /\ \A i \in 1 .. Len(q) : u[i] = q[i]
  OBVIOUS
<1> HIDE DEF u
<1>2. ASSUME NEW j \in DOMAIN u, NEW e \in Event, Before(em, e, u[j])
      PROVE  e \in K \/ \E i \in 1 .. j - 1 : u[i] = e
  <2>1. CASE j = Len(q) + 1
    <3>1. e \in K \/ \E i \in 1 .. Len(q) : q[i] = e
      BY <1>1, <1>2, <2>1 DEF ToSet
    <3>2. j - 1 = Len(q)
      BY <1>1, <2>1
    <3> QED
      BY <1>1, <3>1, <3>2
  <2>2. CASE j # Len(q) + 1
    <3>1. j \in DOMAIN q /\ u[j] = q[j] /\ 1 .. j - 1 \subseteq 1 .. Len(q)
      BY <1>1, <2>2
    <3>2. e \in K \/ \E i \in 1 .. j - 1 : q[i] = e
      BY <1>2, <3>1 DEF InOrder
    <3> QED
      BY <1>1, <3>1, <3>2
  <2> QED
    BY <2>1, <2>2
<1>3. InOrder(em, u, K)
  BY <1>2 DEF InOrder
<1> QED
  BY <1>3 DEF u

\* The first line comes behind nothing; the others may come behind it.
LEMMA OrderOfTail ==
    ASSUME NEW em, NEW q \in Seq(Event), q # << >>, NEW K, InOrder(em, q, K)
    PROVE  /\ \A e \in Event : Before(em, e, Head(q)) => e \in K
           /\ InOrder(em, Tail(q), K \cup {Head(q)})
<1> DEFINE u == Tail(q)
<1>1. /\ Len(q) \in Nat \ {0} /\ DOMAIN q = 1 .. Len(q) /\ Head(q) = q[1]
      /\ DOMAIN u = 1 .. Len(q) - 1 /\ \A i \in 1 .. Len(q) - 1 : u[i] = q[i + 1]
  OBVIOUS
<1> HIDE DEF u
<1>2. \A e \in Event : Before(em, e, Head(q)) => e \in K
  BY <1>1 DEF InOrder
<1>3. ASSUME NEW j \in DOMAIN u, NEW e \in Event, Before(em, e, u[j])
      PROVE  e \in K \cup {Head(q)} \/ \E i \in 1 .. j - 1 : u[i] = e
  <2>1. j + 1 \in DOMAIN q /\ u[j] = q[j + 1] /\ j \in Nat /\ (j + 1) - 1 = j
    BY <1>1
  <2>2. e \in K \/ \E i \in 1 .. j : q[i] = e
    BY <1>3, <2>1 DEF InOrder
  <2>3. ASSUME NEW i \in 1 .. j, q[i] = e, i # 1 PROVE \E k \in 1 .. j - 1 : u[k] = e
    <3>1. i - 1 \in 1 .. j - 1 /\ i - 1 \in 1 .. Len(q) - 1 /\ (i - 1) + 1 = i
      BY <1>1, <2>1, <2>3
    <3>2. u[i - 1] = q[i]
      BY <1>1, <3>1
    <3> QED
      BY <2>3, <3>1, <3>2
  <2> QED
    BY <1>1, <2>2, <2>3
<1>4. InOrder(em, u, K \cup {Head(q)})
  BY <1>3 DEF InOrder
<1> QED
  BY <1>2, <1>4 DEF u

\* An order goes on behind another.
LEMMA OrderOfConcat ==
    ASSUME NEW em, NEW q \in Seq(Event), NEW r \in Seq(Event), NEW K,
           InOrder(em, q, K), InOrder(em, r, K \cup ToSet(q))
    PROVE  InOrder(em, q \o r, K)
<1> DEFINE u == q \o r
<1>1. /\ Len(q) \in Nat /\ Len(r) \in Nat /\ DOMAIN q = 1 .. Len(q) /\ DOMAIN r = 1 .. Len(r)
      /\ DOMAIN u = 1 .. Len(q) + Len(r)
      /\ \A i \in 1 .. Len(q) : u[i] = q[i]
      /\ \A i \in 1 .. Len(r) : u[Len(q) + i] = r[i]
  OBVIOUS
<1> HIDE DEF u
<1>2. ASSUME NEW j \in DOMAIN u, NEW e \in Event, Before(em, e, u[j])
      PROVE  e \in K \/ \E i \in 1 .. j - 1 : u[i] = e
  <2>1. CASE j \in 1 .. Len(q)
    <3>1. u[j] = q[j] /\ 1 .. j - 1 \subseteq 1 .. Len(q)
      BY <1>1, <2>1
    <3>2. e \in K \/ \E i \in 1 .. j - 1 : q[i] = e
      BY <1>1, <1>2, <2>1, <3>1 DEF InOrder
    <3> QED
      BY <1>1, <3>1, <3>2
  <2>2. CASE j \notin 1 .. Len(q)
    <3> DEFINE m == j - Len(q)
    <3>1. m \in 1 .. Len(r) /\ j = Len(q) + m
      BY <1>1, <2>2
    <3> HIDE DEF m
    <3>2. u[j] = r[m]
      BY <1>1, <3>1
    <3>3. \/ e \in K
          \/ \E i \in 1 .. Len(q) : q[i] = e
          \/ \E i \in 1 .. m - 1 : r[i] = e
      BY <1>1, <1>2, <3>1, <3>2 DEF InOrder, ToSet
    <3>4. ASSUME NEW i \in 1 .. Len(q), q[i] = e PROVE i \in 1 .. j - 1 /\ u[i] = e
      BY <1>1, <3>1, <3>4
    <3>5. ASSUME NEW i \in 1 .. m - 1, r[i] = e
          PROVE  Len(q) + i \in 1 .. j - 1 /\ u[Len(q) + i] = e
      BY <1>1, <3>1, <3>5
    <3> QED
      BY <3>3, <3>4, <3>5
  <2> QED
    BY <2>1, <2>2
<1>3. InOrder(em, u, K)
  BY <1>2 DEF InOrder
<1> QED
  BY <1>3 DEF u

\* A file in order splits into a part to read and a part left unread.
LEMMA OrderOfSplit ==
    ASSUME NEW em, NEW q \in Seq(Event), NEW n \in 0 .. Len(q), NEW K, InOrder(em, q, K)
    PROVE  LET front == SubSeq(q, 1, n)
               rest == SubSeq(q, n + 1, Len(q)) IN
           InOrder(em, front, K) /\ InOrder(em, rest, K \cup ToSet(front))
<1> DEFINE front == SubSeq(q, 1, n)
           rest == SubSeq(q, n + 1, Len(q))
<1>1. /\ DOMAIN front = 1 .. n /\ \A i \in 1 .. n : front[i] = q[i]
      /\ DOMAIN rest = 1 .. Len(q) - n /\ \A i \in 1 .. Len(q) - n : rest[i] = q[n + i]
      /\ n \in Nat /\ Len(q) \in Nat /\ n <= Len(q) /\ DOMAIN q = 1 .. Len(q)
  OBVIOUS
<1> HIDE DEF front, rest
<1>2. InOrder(em, front, K)
  <2> SUFFICES ASSUME NEW j \in DOMAIN front, NEW e \in Event, Before(em, e, front[j])
               PROVE  e \in K \/ \E i \in 1 .. j - 1 : front[i] = e
    BY DEF InOrder
  <2>1. j \in DOMAIN q /\ front[j] = q[j] /\ 1 .. j - 1 \subseteq 1 .. n
    BY <1>1
  <2>2. e \in K \/ \E i \in 1 .. j - 1 : q[i] = e
    BY <2>1 DEF InOrder
  <2> QED
    BY <1>1, <2>1, <2>2
<1>3. InOrder(em, rest, K \cup ToSet(front))
  <2> SUFFICES ASSUME NEW j \in DOMAIN rest, NEW e \in Event, Before(em, e, rest[j])
               PROVE  e \in K \cup ToSet(front) \/ \E i \in 1 .. j - 1 : rest[i] = e
    BY DEF InOrder
  <2>1. n + j \in DOMAIN q /\ rest[j] = q[n + j] /\ j \in 1 .. Len(q) - n
    BY <1>1
  <2>2. e \in K \/ \E i \in 1 .. (n + j) - 1 : q[i] = e
    BY <2>1 DEF InOrder
  <2>3. ASSUME NEW i \in 1 .. (n + j) - 1, q[i] = e, i <= n PROVE e \in ToSet(front)
    <3>1. i \in DOMAIN front /\ front[i] = e
      BY <1>1, <2>3
    <3> QED
      BY <3>1 DEF ToSet
  <2>4. ASSUME NEW i \in 1 .. (n + j) - 1, q[i] = e, i > n PROVE \E k \in 1 .. j - 1 : rest[k] = e
    <3>1. i - n \in 1 .. j - 1 /\ i - n \in 1 .. Len(q) - n /\ n + (i - n) = i
      BY <1>1, <2>1, <2>4
    <3>2. rest[i - n] = e
      BY <1>1, <2>4, <3>1
    <3> QED
      BY <3>1, <3>2
  <2>5. \A i \in 1 .. (n + j) - 1 : i <= n \/ i > n
    BY <1>1
  <2> QED
    BY <2>2, <2>3, <2>4, <2>5
<1> QED
  BY <1>2, <1>3 DEF front, rest

\* What comes before the line just emitted was there already.
LEMMA BeforeNew ==
    ASSUME NEW em \in Seq(Event), NEW n \in Event, n \notin ToSet(em),
           NEW e \in Event, Before(Append(em, n), e, n)
    PROVE  e \in ToSet(em)
<1> DEFINE u == Append(em, n)
<1>1. /\ DOMAIN u = 1 .. Len(em) + 1 /\ Len(em) \in Nat
      /\ DOMAIN em = 1 .. Len(em) /\ \A i \in 1 .. Len(em) : u[i] = em[i]
  OBVIOUS
<1>2. PICK j \in DOMAIN u : u[j] = n /\ \E i \in 1 .. j - 1 : u[i] = e
  BY DEF Before
<1>3. PICK i \in 1 .. j - 1 : u[i] = e
  BY <1>2
<1> HIDE DEF u
<1>4. i \in 1 .. Len(em)
  BY <1>1, <1>3
<1>5. i \in DOMAIN em /\ em[i] = e
  BY <1>1, <1>3, <1>4
<1> QED
  BY <1>5 DEF ToSet
-----------------------------------------------------------------------------
(* Memory in order *)

\* What a consumer leaves alone depends on the partition only, among the
\* events a partition learns from.
LEMMA AloneTogether ==
    ASSUME NEW em, NEW w \in Writer, NEW e \in Event, NEW f \in Event, Before(em, e, f)
    PROVE  LeavesAlone(w, e) <=> LeavesAlone(w, f)
  BY DEF Before, Learning, LeavesAlone

\* A memory made, partition by partition, of two that are in order, or emptied.
LEMMA StoreMixed ==
    ASSUME NEW em, NEW K, NEW L, K \cap Event \subseteq L, NEW w, NEW a, NEW b, NEW c,
           StoreOrdered(em, K, w, a), StoreOrdered(em, K, w, b),
           \A s \in Space : c[s] = a[s] \/ c[s] = b[s] \/ c[s] = {}
    PROVE  StoreOrdered(em, L, w, c)
<1> SUFFICES ASSUME NEW s \in Space, NEW f \in c[s]
             PROVE  /\ f \in ToSet(em) /\ s = SpaceOf[f] /\ ~LeavesAlone(w, f)
                    /\ \A e \in Event : Before(em, e, f) => e \in L \cup c[s]
  BY DEF StoreOrdered
<1>1. CASE c[s] = a[s]
  BY <1>1 DEF StoreOrdered
<1>2. CASE c[s] = b[s]
  BY <1>2 DEF StoreOrdered
<1> QED
  BY <1>1, <1>2

\* Feedback joins the memory behind the events before it.
LEMMA StoreOfFeedback ==
    ASSUME NEW em, NEW K, NEW L, K \cap Event \subseteq L, NEW w, NEW a, NEW c,
           StoreOrdered(em, K, w, a), NEW n \in ToSet(em), ~LeavesAlone(w, n),
           \A s \in Space : c[s] = IF s = SpaceOf[n] THEN a[s] \cup {n} ELSE a[s],
           \A e \in Event : Before(em, e, n) => e \in K \cup a[SpaceOf[n]]
    PROVE  StoreOrdered(em, L, w, c)
<1> SUFFICES ASSUME NEW s \in Space, NEW f \in c[s]
             PROVE  /\ f \in ToSet(em) /\ s = SpaceOf[f] /\ ~LeavesAlone(w, f)
                    /\ \A e \in Event : Before(em, e, f) => e \in L \cup c[s]
  BY DEF StoreOrdered
<1>0. a[s] \subseteq c[s]
  OBVIOUS
<1>1. CASE f \in a[s]
  BY <1>0, <1>1 DEF StoreOrdered
<1>2. CASE s = SpaceOf[n] /\ f = n
  BY <1>0, <1>2
<1> QED
  BY <1>1, <1>2

\* Another line emitted changes nothing for what is in memory.
LEMMA StoreOfEmit ==
    ASSUME NEW em \in Seq(Event), NEW n \in Event, n \notin ToSet(em),
           NEW K, NEW w, NEW a, StoreOrdered(em, K, w, a)
    PROVE  StoreOrdered(Append(em, n), K, w, a)
<1>1. ToSet(em) \subseteq ToSet(Append(em, n))
  BY LinesOfAppend
<1> SUFFICES ASSUME NEW s \in Space, NEW f \in a[s]
             PROVE  /\ f \in ToSet(em) /\ s = SpaceOf[f] /\ ~LeavesAlone(w, f)
                    /\ \A e \in Event : Before(Append(em, n), e, f) => e \in K \cup a[s]
  BY <1>1 DEF StoreOrdered
<1>2. /\ f \in ToSet(em) /\ s = SpaceOf[f] /\ ~LeavesAlone(w, f)
      /\ \A e \in Event : Before(em, e, f) => e \in K \cup a[s]
  BY DEF StoreOrdered
<1> QED
  BY <1>2, BeforeEmitted
-----------------------------------------------------------------------------
(* One step of a drain *)

\* What comes before the line a drain applies is done or in the same memory.
LEMMA BeforeHead ==
    ASSUME Orderly, NEW w \in Writer, NextLine(w), ~LeavesAlone(w, Head(batch[w])),
           NEW e \in Event, Before(emitted, e, Head(batch[w]))
    PROVE  e \in Done \cup unsaved[w][SpaceOf[Head(batch[w])]]
<1> DEFINE n == Head(batch[w])
<1>1. TypeOK /\ batch[w] \in Seq(Event) /\ batch[w] # << >> /\ pc[w] = "line"
  BY DEF Orderly, Safe, TypeOK, NextLine
<1>2. HandOrdered(w) /\ StoreOrdered(emitted, Done, w, unsaved[w])
  BY <1>1 DEF Orderly, WriterOrdered
<1>3. n \in Event
  BY <1>1, LinesOfTail
<1>4. e \in Covered(w)
  BY <1>1, <1>2, OrderOfTail DEF HandOrdered
<1>5. e \notin ToSet(deferred[w])
  BY <1>2, <1>3, AloneTogether DEF HandOrdered
<1>6. ASSUME e \in Held(w) PROVE e \in unsaved[w][SpaceOf[n]]
  <2>1. PICK s \in saves[w] : e \in unsaved[w][s]
    BY <1>6 DEF Held
  <2>2. s \in Space
    BY <1>1 DEF TypeOK
  <2>3. s = SpaceOf[e]
    BY <1>2, <2>1, <2>2 DEF StoreOrdered
  <2> QED
    BY <2>1, <2>3 DEF Before
<1> QED
  BY <1>4, <1>5, <1>6 DEF Covered

\* The lines in hand stay in order when the drain passes one.
LEMMA HandPassing ==
    ASSUME Orderly, NEW w \in Writer, NextLine(w), emitted' = emitted,
           batch'[w] = Tail(batch[w]), pending'[w] = pending[w], tail'[w] = tail[w],
           Done \subseteq Done', Covered(w) \cup {Head(batch[w])} \subseteq Covered(w)',
           \/ deferred'[w] = deferred[w]
           \/ /\ LeavesAlone(w, Head(batch[w]))
              /\ deferred'[w] = Append(deferred[w], Head(batch[w]))
    PROVE  HandOrdered(w)'
<1> DEFINE n == Head(batch[w])
<1>1. /\ batch[w] \in Seq(Event) /\ batch[w] # << >> /\ pc[w] = "line"
      /\ deferred[w] \in Seq(Event)
  BY DEF Orderly, Safe, TypeOK, NextLine
<1>2. HandOrdered(w) /\ StoreOrdered(emitted, Done, w, unsaved[w]) /\ pending[w] = << >>
  BY <1>1 DEF Orderly, WriterOrdered, Safe, Accounted
<1>3. n \in Event /\ ToSet(batch[w]) = {n} \cup ToSet(batch'[w])
  BY <1>1, LinesOfTail
<1>4. /\ \A e \in Event : Before(emitted, e, n) => e \in Covered(w)
      /\ InOrder(emitted, batch'[w], Covered(w) \cup {n})
  <2>1. InOrder(emitted, batch[w], Covered(w))
    BY <1>2 DEF HandOrdered
  <2>2. /\ \A e \in Event : Before(emitted, e, Head(batch[w])) => e \in Covered(w)
        /\ InOrder(emitted, Tail(batch[w]), Covered(w) \cup {Head(batch[w])})
    BY <1>1, <2>1, OrderOfTail
  <2> QED
    BY <2>2
<1>5. InOrder(emitted, batch'[w], Covered(w)')
  BY <1>4, OrderWeaker
<1>6. InOrder(emitted, pending'[w], Covered(w)')
  BY <1>2, OrderOfEmpty
<1>7. InOrder(emitted, tail'[w], Covered(w)' \cup ToSet(batch'[w]) \cup ToSet(pending'[w]))
  <2>1. Covered(w) \cup ToSet(batch[w]) \cup ToSet(pending[w])
          \subseteq Covered(w)' \cup ToSet(batch'[w]) \cup ToSet(pending'[w])
    BY <1>3
  <2>2. InOrder(emitted, tail[w], Covered(w) \cup ToSet(batch[w]) \cup ToSet(pending[w]))
    BY <1>2 DEF HandOrdered
  <2> QED
    BY <2>1, <2>2, OrderWeaker
<1>8. CASE deferred'[w] = deferred[w]
  <2>1. InOrder(emitted, deferred'[w], Done')
    BY <1>2, <1>8, OrderWeaker DEF HandOrdered
  <2>2. /\ InHand(w)' \subseteq ToSet(emitted)
        /\ \A f \in ToSet(deferred'[w]) : LeavesAlone(w, f)
    BY <1>2, <1>3, <1>8 DEF HandOrdered, InHand
  <2> QED
    BY <1>5, <1>6, <1>7, <2>1, <2>2 DEF HandOrdered
<1>9. CASE LeavesAlone(w, n) /\ deferred'[w] = Append(deferred[w], n)
  <2>1. ASSUME NEW e \in Event, Before(emitted, e, n) PROVE e \in Done \/ e \in ToSet(deferred[w])
    <3>1. LeavesAlone(w, e)
      BY <1>3, <1>9, <2>1, AloneTogether
    <3>2. e \notin Held(w)
      <4>1. saves[w] \subseteq Space
        BY DEF Orderly, Safe, TypeOK
      <4> QED
        BY <1>2, <3>1, <4>1 DEF Held, StoreOrdered
    <3> QED
      BY <1>4, <2>1, <3>2 DEF Covered
  <2>2. InOrder(emitted, deferred'[w], Done)
    BY <1>1, <1>2, <1>3, <1>9, <2>1, OrderOfAppend DEF HandOrdered
  <2>3. InOrder(emitted, deferred'[w], Done')
    BY <2>2, OrderWeaker
  <2>4. ToSet(deferred'[w]) = ToSet(deferred[w]) \cup {n}
    BY <1>1, <1>3, <1>9, LinesOfAppend
  <2>5. /\ InHand(w)' \subseteq ToSet(emitted)
        /\ \A f \in ToSet(deferred'[w]) : LeavesAlone(w, f)
    BY <1>2, <1>3, <1>9, <2>4 DEF HandOrdered, InHand
  <2> QED
    BY <1>5, <1>6, <1>7, <2>3, <2>5 DEF HandOrdered
<1> QED
  BY <1>8, <1>9

\* They stay in order when the drain stops at one, or saves.
LEMMA HandKept ==
    ASSUME Orderly, NEW w \in Writer, pc[w] \in {"line", "persist"}, emitted' = emitted,
           tail'[w] = tail[w], deferred'[w] = deferred[w],
           Done \subseteq Done', Covered(w) \subseteq Covered(w)',
           \/ batch'[w] = batch[w] /\ pending'[w] = pending[w]
           \/ pending[w] = << >> /\ batch'[w] = << >> /\ pending'[w] = batch[w]
    PROVE  HandOrdered(w)'
<1>1. HandOrdered(w)
  BY DEF Orderly, WriterOrdered
<1>2. ToSet(<< >>) = {}
  BY DEF ToSet
<1>3. /\ ToSet(batch'[w]) \cup ToSet(pending'[w]) = ToSet(batch[w]) \cup ToSet(pending[w])
      /\ ToSet(deferred'[w]) = ToSet(deferred[w]) /\ ToSet(tail'[w]) = ToSet(tail[w])
  BY <1>2
<1>4. /\ InHand(w)' = InHand(w)
      /\ Covered(w)' \cup ToSet(batch'[w]) \cup ToSet(pending'[w])
           = Covered(w)' \cup ToSet(batch[w]) \cup ToSet(pending[w])
  BY <1>3 DEF InHand
<1>5. InOrder(emitted, deferred'[w], Done')
  BY <1>1, OrderWeaker DEF HandOrdered
<1>6. InOrder(emitted, batch[w], Covered(w)') /\ InOrder(emitted, pending[w], Covered(w)')
  BY <1>1, OrderWeaker DEF HandOrdered
<1>7. InOrder(emitted, batch'[w], Covered(w)') /\ InOrder(emitted, pending'[w], Covered(w)')
  BY <1>6, OrderOfEmpty
<1>8. InOrder(emitted, tail'[w], Covered(w)' \cup ToSet(batch[w]) \cup ToSet(pending[w]))
  <2>1. Covered(w) \cup ToSet(batch[w]) \cup ToSet(pending[w])
          \subseteq Covered(w)' \cup ToSet(batch[w]) \cup ToSet(pending[w])
    OBVIOUS
  <2> QED
    BY <1>1, <2>1, OrderWeaker DEF HandOrdered
<1>9. InOrder(emitted, tail'[w], Covered(w)' \cup ToSet(batch'[w]) \cup ToSet(pending'[w]))
  BY <1>4, <1>8
<1> QED
  BY <1>1, <1>3, <1>4, <1>5, <1>7, <1>9 DEF HandOrdered

\* What a line may come behind stays so.
LEMMA CoveredStays ==
    ASSUME TypeOK, NEW w \in Writer, Done \subseteq Done', saves[w] \subseteq saves'[w],
           ToSet(deferred[w]) \subseteq ToSet(deferred'[w]),
           \A f \in Event, s \in Space :
              f \in unsaved[w][s] => f \in unsaved'[w][s] \/ learned'[f] > 0
    PROVE  Covered(w) \subseteq Covered(w)'
<1>1. ASSUME NEW f \in Held(w) PROVE f \in Done' \cup Held(w)'
  <2>1. PICK s \in saves[w] : f \in unsaved[w][s]
    BY DEF Held
  <2>2. s \in Space /\ f \in Event /\ s \in saves'[w]
    BY <2>1 DEF TypeOK
  <2>3. CASE f \in unsaved'[w][s]
    BY <2>2, <2>3 DEF Held
  <2>4. CASE learned'[f] > 0
    BY <2>2, <2>4 DEF Done, Settled
  <2> QED
    BY <2>1, <2>2, <2>3, <2>4
<1> QED
  BY <1>1 DEF Covered

\* What is learned or discarded stays so.
LEMMA DoneGrows ==
    ASSUME TypeOK, NEW w \in Writer, WriterStep(w)
    PROVE  Done \subseteq Done'
  BY Grows DEF Done, Settled

\* An effect leaves the memory in order.
LEMMA StoreByEffect ==
    ASSUME Orderly, NEW w \in Writer, NEW n \in Event, Applies(w, n), Effect(w, n),
           Done \subseteq Done'
    PROVE  StoreOrdered(emitted, Done', w, unsaved'[w])
<1>1. /\ TypeOK /\ NextLine(w) /\ n = Head(batch[w]) /\ ~LeavesAlone(w, n)
      /\ SpaceOf[n] \in Space /\ unsaved[w] \in [Space -> SUBSET Event]
  BY EventAssumption DEF Orderly, Safe, Applies, TypeOK
<1>2. StoreOrdered(emitted, Done, w, unsaved[w])
  BY DEF Orderly, WriterOrdered
<1>3. n \in ToSet(emitted)
  <2>1. batch[w] \in Seq(Event) /\ batch[w] # << >> /\ HandOrdered(w)
    BY <1>1 DEF NextLine, TypeOK, Orderly, WriterOrdered
  <2>2. n \in ToSet(batch[w])
    BY <1>1, <2>1, LinesOfTail
  <2> QED
    BY <2>1, <2>2 DEF HandOrdered, InHand
<1>4. CASE Remember(w, n)
  <2>1. unsaved'[w] = [unsaved[w] EXCEPT ![SpaceOf[n]] = @ \cup {n}]
    BY <1>4 DEF Remember, Orderly, Safe, TypeOK
  <2>2. \A s \in Space :
          unsaved'[w][s] = IF s = SpaceOf[n] THEN unsaved[w][s] \cup {n} ELSE unsaved[w][s]
    BY <1>1, <2>1
  <2>3. \A e \in Event : Before(emitted, e, n) => e \in Done \cup unsaved[w][SpaceOf[n]]
    BY <1>1, BeforeHead
  <2> QED
    BY <1>1, <1>2, <1>3, <2>2, <2>3, StoreOfFeedback
<1>5. CASE unsaved' = [unsaved EXCEPT ![w][SpaceOf[n]] = {}]
  <2>1. unsaved'[w] = [unsaved[w] EXCEPT ![SpaceOf[n]] = {}]
    BY <1>5 DEF Orderly, Safe, TypeOK
  <2>2. \A s \in Space : unsaved'[w][s] = unsaved[w][s] \/ unsaved'[w][s] = {}
    BY <1>1, <2>1
  <2> QED
    BY <1>2, <2>2, StoreMixed
<1>6. CASE UNCHANGED unsaved
  BY <1>2, <1>6, StoreMixed
<1> QED
  BY <1>4, <1>5, <1>6 DEF Effect

\* What a drain holds in memory stays in order, whatever is saved or restored.
LEMMA StoresInDrain ==
    ASSUME Orderly, NEW w \in Writer, Drain(w), emitted' = emitted, Done \subseteq Done'
    PROVE  /\ StoreOrdered(emitted, Done, w, unsaved[w])'
           /\ StoreOrdered(emitted, Done, w, checkpoint[w])'
<1> USE DEF At, drain
<1>1. /\ TypeOK
      /\ StoreOrdered(emitted, Done, w, unsaved[w])
      /\ StoreOrdered(emitted, Done, w, checkpoint[w])
  BY DEF Orderly, WriterOrdered, Safe
<1>2. CASE UNCHANGED <<unsaved, checkpoint>>
  BY <1>1, <1>2, StoreMixed
<1>3. CASE ReadQueue(w)
  <2>1. unsaved' = unsaved /\ checkpoint'[w] = unsaved[w]
    BY <1>1, <1>3 DEF ReadQueue, TypeOK
  <2> QED
    BY <1>1, <2>1, StoreMixed
<1>4. CASE Apply(w) \/ AuditRaises(w)
  <2>1. PICK n \in Event : Applies(w, n) /\ Effect(w, n) /\ UNCHANGED checkpoint
    BY <1>4 DEF Apply, AuditRaises, StopAt
  <2>2. StoreOrdered(emitted, Done', w, unsaved'[w])
    BY <2>1, StoreByEffect
  <2> QED
    BY <1>1, <2>1, <2>2, StoreMixed
<1>5. CASE Persist(w)
  <2>1. PICK s \in Unsaved(w) : /\ unsaved' = [unsaved EXCEPT ![w][s] = {}]
                                /\ UNCHANGED checkpoint
    BY <1>5 DEF Persist
  <2>2. \A r \in Space : unsaved'[w][r] = unsaved[w][r] \/ unsaved'[w][r] = {}
    BY <1>1, <2>1 DEF TypeOK
  <2> QED
    BY <1>1, <2>1, <2>2, StoreMixed
<1>6. CASE PersistFails(w)
  <2>1. UNCHANGED checkpoint
    BY <1>6 DEF PersistFails
  <2>2. \A r \in Space : unsaved'[w][r] = unsaved[w][r] \/ unsaved'[w][r] = checkpoint[w][r]
    BY <1>1, <1>6 DEF PersistFails, TypeOK
  <2> QED
    BY <1>1, <2>1, <2>2, StoreMixed
<1> QED
  BY <1>2, <1>3, <1>4, <1>5, <1>6
  DEF Drain, FindEmpty, ArchiveCorrupt, Defer, Drop, ApplyRaises, LoadFails, OverrideRefused,
      EndOfBatch, Truncate, WriteBack, StopAt

\* A drain that has just read the file holds its lines in order.
LEMMA HandRead ==
    ASSUME Orderly, NEW w \in Writer, ReadQueue(w)
    PROVE  HandOrdered(w)'
<1> DEFINE n == HeadLength(queue)
           front == SubSeq(queue, 1, n)
           rest == SubSeq(queue, n + 1, Len(queue))
<1>1. /\ queue \in Seq(Event) /\ ToSet(queue) \subseteq ToSet(emitted)
      /\ InOrder(emitted, queue, Done) /\ n \in 0 .. Len(queue)
  BY HeadLengthType DEF Orderly, Safe, TypeOK, FileOrdered
<1>2. ToSet(queue) = ToSet(front) \cup ToSet(rest)
  BY <1>1, LinesOfSplit
<1>3. InOrder(emitted, front, Done) /\ InOrder(emitted, rest, Done \cup ToSet(front))
  BY <1>1, OrderOfSplit
<1>4. /\ batch'[w] = front /\ tail'[w] = rest /\ deferred'[w] = << >> /\ pending'[w] = << >>
      /\ emitted' = emitted
  BY DEF ReadQueue, Orderly, Safe, TypeOK
<1>5. Done' = Done
  BY DEF ReadQueue, Done, Settled
<1> HIDE DEF n, front, rest
<1>6. ToSet(<< >>) = {}
  BY DEF ToSet
<1>7. InHand(w)' \subseteq ToSet(emitted') /\ \A f \in ToSet(deferred'[w]) : LeavesAlone(w, f)
  BY <1>1, <1>2, <1>4, <1>6 DEF InHand
<1>8. InOrder(emitted', deferred'[w], Done') /\ InOrder(emitted', pending'[w], Covered(w)')
  BY <1>4, OrderOfEmpty
<1>9. Done \subseteq Covered(w)'
  BY <1>5 DEF Covered
<1>10. InOrder(emitted', batch'[w], Covered(w)')
  BY <1>3, <1>4, <1>9, OrderWeaker
<1>11. InOrder(emitted', tail'[w], Covered(w)' \cup ToSet(batch'[w]) \cup ToSet(pending'[w]))
  <2>1. Done \cup ToSet(front) \subseteq Covered(w)' \cup ToSet(batch'[w]) \cup ToSet(pending'[w])
    BY <1>4, <1>9
  <2> QED
    BY <1>3, <1>4, <2>1, OrderWeaker
<1> QED
  BY <1>7, <1>8, <1>10, <1>11 DEF HandOrdered

\* The lines in hand are in order until the drain ends.
LEMMA HandInDrain ==
    ASSUME Orderly, NEW w \in Writer, Drain(w), emitted' = emitted, Done \subseteq Done',
           pc'[w] \in {"line", "persist"}
    PROVE  HandOrdered(w)'
<1> USE DEF At, drain
<1>1. TypeOK /\ (pc[w] = "line" => pending[w] = << >>)
  BY DEF Orderly, Safe, Accounted
<1>2. CASE ReadQueue(w)
  BY <1>2, HandRead
<1>3. CASE Defer(w)
  <2>1. /\ NextLine(w) /\ LeavesAlone(w, Head(batch[w]))
        /\ UNCHANGED <<tail, pending, saves, unsaved, learned, dropped>>
        /\ batch'[w] = Tail(batch[w]) /\ deferred'[w] = Append(deferred[w], Head(batch[w]))
    BY <1>1, <1>3 DEF Defer, StepOver, TypeOK
  <2>2. ToSet(deferred'[w]) = ToSet(deferred[w]) \cup {Head(batch[w])}
    <3>1. deferred[w] \in Seq(Event) /\ Head(batch[w]) \in Event
      BY <1>1, <2>1, LineInHand DEF TypeOK
    <3> QED
      BY <2>1, <3>1, LinesOfAppend
  <2>3. Covered(w) \subseteq Covered(w)'
    BY <1>1, <2>1, <2>2, CoveredStays
  <2>4. Head(batch[w]) \in Covered(w)'
    BY <2>2 DEF Covered
  <2> QED
    BY <2>1, <2>3, <2>4, HandPassing
<1>4. CASE Drop(w) \/ OverrideRefused(w)
  <2>1. /\ NextLine(w) /\ Head(batch[w]) \in dropped'
        /\ UNCHANGED <<tail, deferred, pending, saves, unsaved, learned>>
        /\ batch'[w] = Tail(batch[w])
    BY <1>1, <1>4 DEF Drop, OverrideRefused, Applies, StepOver, TypeOK
  <2>2. Covered(w) \subseteq Covered(w)'
    BY <1>1, <2>1, CoveredStays
  <2>3. Head(batch[w]) \in Covered(w)'
    BY <1>1, <2>1, LineInHand DEF Covered, Done, Settled
  <2> QED
    BY <2>1, <2>2, <2>3, HandPassing
<1>5. CASE Apply(w)
  <2> PICK n \in Event : /\ Applies(w, n) /\ Effect(w, n) /\ StepOver(w)
                         /\ saves' = IF KindOf[n] = "feedback"
                              THEN [saves EXCEPT ![w] = @ \cup {SpaceOf[n]}] ELSE saves
                         /\ UNCHANGED <<tail, deferred, pending, checkpoint, dropped, failures>>
    BY <1>5 DEF Apply
  <2>1. NextLine(w) /\ n = Head(batch[w]) /\ batch'[w] = Tail(batch[w])
    BY <1>1 DEF Applies, StepOver, TypeOK
  <2>2. /\ saves[w] \subseteq saves'[w]
        /\ KindOf[n] = "feedback" => SpaceOf[n] \in saves'[w]
    BY <1>1 DEF TypeOK
  <2>3. Covered(w) \subseteq Covered(w)'
    BY <1>1, <2>2, EffectGrows, CoveredStays
  <2>4. n \in Covered(w)'
    <3>1. n \in Done' \/ n \in Held(w)'
      BY <1>1, <2>2, EffectGrows DEF Done, Settled, Held
    <3> QED
      BY <3>1 DEF Covered
  <2> QED
    BY <2>1, <2>3, <2>4, HandPassing
<1>6. CASE ApplyRaises(w)
  <2>1. /\ pc[w] = "line" /\ UNCHANGED <<tail, deferred, saves, unsaved, learned>>
        /\ batch'[w] = << >> /\ pending'[w] = batch[w]
    BY <1>1, <1>6 DEF ApplyRaises, Applies, NextLine, StopAt, TypeOK
  <2>2. Covered(w) \subseteq Covered(w)'
    BY <1>1, <2>1, CoveredStays
  <2> QED
    BY <1>1, <2>1, <2>2, HandKept
<1>7. CASE AuditRaises(w)
  <2> PICK n \in Event : Applies(w, n) /\ Effect(w, n) /\ StopAt(w)
    BY <1>7 DEF AuditRaises
  <2>1. /\ pc[w] = "line" /\ UNCHANGED <<tail, deferred, saves>>
        /\ batch'[w] = << >> /\ pending'[w] = batch[w]
    BY <1>1 DEF Applies, NextLine, StopAt, TypeOK
  <2>2. Covered(w) \subseteq Covered(w)'
    BY <1>1, <2>1, EffectGrows, CoveredStays
  <2> QED
    BY <1>1, <2>1, <2>2, HandKept
<1>8. CASE EndOfBatch(w)
  <2>1. pc[w] = "line" /\ UNCHANGED <<batch, pending, tail, deferred, saves, unsaved, learned>>
    BY <1>8 DEF EndOfBatch
  <2>2. Covered(w) \subseteq Covered(w)'
    BY <1>1, <2>1, CoveredStays
  <2> QED
    BY <2>1, <2>2, HandKept
<1>9. CASE Persist(w)
  <2> PICK s \in Unsaved(w) : /\ pc[w] = "persist" /\ Learn(unsaved[w][s])
                              /\ unsaved' = [unsaved EXCEPT ![w][s] = {}]
                              /\ UNCHANGED <<queue, lock, pc, drain, emitted, dropped, failures>>
    BY <1>9 DEF Persist
  <2>1. \A f \in Event : f \in unsaved[w][s] => learned'[f] > 0
    BY <1>1, LearnGrows
  <2>2. \A f \in Event, r \in Space : f \in unsaved[w][r] => f \in unsaved'[w][r] \/ learned'[f] > 0
    BY <1>1, <2>1 DEF TypeOK
  <2>3. Covered(w) \subseteq Covered(w)'
    BY <1>1, <2>2, CoveredStays
  <2> QED
    BY <2>3, HandKept
<1>10. pc'[w] \notin {"idle", "torn"}
  OBVIOUS
<1>11. pc \in [Writer -> {"idle", "read", "line", "persist", "torn"}]
  BY <1>1 DEF TypeOK
<1> QED
  BY <1>2, <1>3, <1>4, <1>5, <1>6, <1>7, <1>8, <1>9, <1>10, <1>11
  DEF Drain, FindEmpty, ArchiveCorrupt, LoadFails, PersistFails, Truncate, WriteBack

\* The lines that go back to the file are in order.
LEMMA TornOrdered ==
    ASSUME Orderly, NEW w \in Writer, Truncate(w)
    PROVE  /\ ToSet(Remainder(w)) \subseteq ToSet(emitted)
           /\ InOrder(emitted, Remainder(w), Done)
<1>1. pc[w] = "persist" /\ TypeOK
  BY DEF Truncate, At, Orderly, Safe
<1>2. HandOrdered(w) /\ batch[w] = << >>
  BY <1>1 DEF Orderly, WriterOrdered, Safe, Accounted
<1>3. Held(w) = {}
  BY DEF Truncate, Unsaved, Held
<1>4. deferred[w] \in Seq(Event) /\ pending[w] \in Seq(Event) /\ tail[w] \in Seq(Event)
  BY <1>1 DEF TypeOK
<1>5. ToSet(batch[w]) = {}
  BY <1>2 DEF ToSet
<1>6. /\ InOrder(emitted, deferred[w], Done)
      /\ InOrder(emitted, pending[w], Done \cup ToSet(deferred[w]))
  BY <1>2, <1>3 DEF HandOrdered, Covered
<1>7. /\ deferred[w] \o pending[w] \in Seq(Event)
      /\ ToSet(deferred[w] \o pending[w]) = ToSet(deferred[w]) \cup ToSet(pending[w])
      /\ InOrder(emitted, deferred[w] \o pending[w], Done)
  BY <1>4, <1>6, LinesOfConcat, OrderOfConcat
<1>8. InOrder(emitted, tail[w], Done \cup ToSet(deferred[w] \o pending[w]))
  <2>1. Covered(w) \cup ToSet(batch[w]) \cup ToSet(pending[w])
          = Done \cup ToSet(deferred[w] \o pending[w])
    BY <1>3, <1>5, <1>7 DEF Covered
  <2> QED
    BY <1>2, <2>1 DEF HandOrdered
<1>9. InOrder(emitted, (deferred[w] \o pending[w]) \o tail[w], Done)
  BY <1>4, <1>7, <1>8, OrderOfConcat
<1>10. ToSet(Remainder(w)) \subseteq ToSet(emitted)
  BY <1>1, <1>2, RemainderLines DEF HandOrdered, InHand
<1> QED
  BY <1>9, <1>10 DEF Remainder

\* A step of a drain keeps the file, the memory and the lines in hand in order.
LEMMA DrainOrderly ==
    ASSUME Orderly, NEW w \in Writer, Drain(w), emitted' = emitted, Done \subseteq Done'
    PROVE  FileOrdered' /\ WriterOrdered(w)'
<1> USE DEF At, drain
<1>1. TypeOK /\ FileOrdered /\ (pc[w] = "torn" => WriterOrdered(w))
  BY DEF Orderly, Safe
<1>2. CASE Truncate(w)
  <2>1. /\ ToSet(Remainder(w)) \subseteq ToSet(emitted)
        /\ InOrder(emitted, Remainder(w), Done)
    BY <1>2, TornOrdered
  <2>2. Remainder(w)' = Remainder(w) /\ queue' = << >> /\ pc'[w] = "torn"
    BY <1>1, <1>2 DEF Truncate, Remainder, TypeOK
  <2>3. /\ ToSet(Remainder(w)') \subseteq ToSet(emitted')
        /\ InOrder(emitted', Remainder(w)', Done')
    BY <2>1, <2>2, OrderWeaker
  <2>4. FileOrdered'
    BY <2>2, OrderOfEmpty DEF FileOrdered, ToSet
  <2> QED
    BY <2>2, <2>3, <2>4, StoresInDrain DEF WriterOrdered
<1>3. CASE WriteBack(w)
  <2>1. pc[w] = "torn" /\ queue' = Remainder(w) /\ pc'[w] = "idle"
    BY <1>1, <1>3 DEF WriteBack, TypeOK
  <2>2. /\ ToSet(Remainder(w)) \subseteq ToSet(emitted)
        /\ InOrder(emitted, Remainder(w), Done)
    BY <1>1, <2>1 DEF WriterOrdered
  <2>3. FileOrdered'
    BY <2>1, <2>2, OrderWeaker DEF FileOrdered
  <2> QED
    BY <2>1, <2>3, StoresInDrain DEF WriterOrdered
<1>4. CASE ArchiveCorrupt(w)
  <2>1. queue' = << >> /\ pc'[w] = "idle"
    BY <1>1, <1>4 DEF ArchiveCorrupt, TypeOK
  <2>2. FileOrdered'
    BY <2>1, OrderOfEmpty DEF FileOrdered, ToSet
  <2> QED
    BY <2>1, <2>2, StoresInDrain DEF WriterOrdered
<1>5. CASE queue' = queue /\ pc'[w] # "torn"
  <2>1. FileOrdered'
    BY <1>1, <1>5, OrderWeaker DEF FileOrdered
  <2> QED
    BY <1>5, <2>1, StoresInDrain, HandInDrain DEF WriterOrdered
<1>6. pc \in [Writer -> {"idle", "read", "line", "persist", "torn"}]
  BY <1>1 DEF TypeOK
<1> QED
  BY <1>2, <1>3, <1>4, <1>5, <1>6
  DEF Drain, FindEmpty, ReadQueue, Defer, Drop, Apply, ApplyRaises, AuditRaises, LoadFails,
      OverrideRefused, EndOfBatch, Persist, PersistFails, StepOver, StopAt, Applies, NextLine

\* A producer's line goes behind all those before it.
LEMMA EmitOrderly ==
    ASSUME Orderly, NEW n \in Event, Emit(n)
    PROVE  FileOrdered' /\ \A w \in Writer : WriterOrdered(w)'
<1>1. /\ lock = None /\ n \notin ToSet(emitted)
      /\ queue' = Append(queue, n) /\ emitted' = Append(emitted, n)
      /\ UNCHANGED <<pc, unsaved, checkpoint, learned, dropped>>
  BY DEF Emit, drain
<1>2. \A v \in Writer : pc[v] = "idle"
  BY <1>1, AllIdle DEF Orderly, Safe
<1>3. queue \in Seq(Event) /\ emitted \in Seq(Event) /\ FileOrdered
  BY DEF Orderly, Safe, TypeOK
<1>4. Done' = Done
  BY <1>1 DEF Done, Settled
<1>5. /\ ToSet(queue') = ToSet(queue) \cup {n}
      /\ ToSet(emitted') = ToSet(emitted) \cup {n}
  BY <1>1, <1>3, LinesOfAppend
<1>6. InOrder(emitted', queue, Done)
  BY <1>1, <1>3, OrderOfEmit DEF FileOrdered
<1>7. ASSUME NEW e \in Event, Before(emitted', e, n) PROVE e \in Done \/ e \in ToSet(queue)
  <2>1. e \in ToSet(emitted)
    BY <1>1, <1>3, <1>7, BeforeNew
  <2> QED
    BY <1>2, <2>1 DEF Orderly, Safe, NothingLost, Done, Settled
<1>8. InOrder(emitted', queue', Done)
  BY <1>1, <1>3, <1>6, <1>7, OrderOfAppend
<1>9. FileOrdered'
  BY <1>3, <1>4, <1>5, <1>8 DEF FileOrdered
<1>10. ASSUME NEW w \in Writer PROVE WriterOrdered(w)'
  <2>1. StoreOrdered(emitted, Done, w, unsaved[w]) /\ StoreOrdered(emitted, Done, w, checkpoint[w])
    BY DEF Orderly, WriterOrdered
  <2>2. StoreOrdered(emitted', Done, w, unsaved[w]) /\ StoreOrdered(emitted', Done, w, checkpoint[w])
    BY <1>1, <1>3, <2>1, StoreOfEmit
  <2> QED
    BY <1>1, <1>2, <1>4, <2>2 DEF WriterOrdered
<1> QED
  BY <1>9, <1>10

\* A writer that moves leaves the others' memory and lines as they are.
LEMMA OthersOrderly ==
    ASSUME Orderly, NEW w \in Writer, NEW v \in Writer, v # w, emitted' = emitted,
           Done \subseteq Done',
           pc'[v] = "idle" \/ (pc'[v] = pc[v] /\ UNCHANGED <<drain, learned, dropped>>),
           unsaved'[v] = unsaved[v], checkpoint'[v] = checkpoint[v]
    PROVE  WriterOrdered(v)'
<1>1. WriterOrdered(v)
  BY DEF Orderly
<1>2. /\ StoreOrdered(emitted', Done', v, unsaved'[v])
      /\ StoreOrdered(emitted', Done', v, checkpoint'[v])
  BY <1>1, StoreMixed DEF WriterOrdered
<1>3. CASE pc'[v] = "idle"
  BY <1>2, <1>3 DEF WriterOrdered
<1>4. CASE pc'[v] = pc[v] /\ UNCHANGED <<drain, learned, dropped>>
  <2>1. Done' = Done /\ Held(v)' = Held(v)
    BY <1>4 DEF Done, Settled, Held, drain
  <2>2. Covered(v)' = Covered(v) /\ Remainder(v)' = Remainder(v) /\ InHand(v)' = InHand(v)
    BY <1>4, <2>1 DEF Covered, Remainder, InHand, drain
  <2>3. HandOrdered(v) => HandOrdered(v)'
    BY <1>4, <2>1, <2>2 DEF HandOrdered, drain
  <2> QED
    BY <1>1, <1>2, <1>4, <2>1, <2>2, <2>3 DEF WriterOrdered
<1> QED
  BY <1>3, <1>4

\* A drain touches only its own writer's memory.
LEMMA OthersMemory ==
    ASSUME TypeOK, NEW w \in Writer, Drain(w), NEW v \in Writer, v # w
    PROVE  unsaved'[v] = unsaved[v] /\ checkpoint'[v] = checkpoint[v]
<1> USE DEF At, drain
<1>1. CASE UNCHANGED <<unsaved, checkpoint>>
  BY <1>1
<1>2. CASE ReadQueue(w)
  BY <1>2 DEF ReadQueue, TypeOK
<1>3. CASE Apply(w) \/ AuditRaises(w)
  <2>1. PICK n \in Event : Effect(w, n) /\ UNCHANGED checkpoint
    BY <1>3 DEF Apply, AuditRaises, StopAt
  <2> QED
    BY <2>1 DEF Effect, Remember, TypeOK
<1>4. CASE Persist(w) \/ PersistFails(w)
  BY <1>4 DEF Persist, PersistFails, TypeOK
<1> QED
  BY <1>1, <1>2, <1>3, <1>4
  DEF Drain, FindEmpty, ArchiveCorrupt, Defer, Drop, ApplyRaises, LoadFails, OverrideRefused,
      EndOfBatch, Truncate, WriteBack, StopAt

\* Every step keeps file, memory and lines in hand in the order of appending.
LEMMA OrderlyStep ==
    ASSUME Orderly, Safe', [Next]_vars
    PROVE  Orderly'
<1>t. TypeOK /\ Exclusive
  BY DEF Orderly, Safe
<1> SUFFICES FileOrdered' /\ \A w \in Writer : WriterOrdered(w)'
  BY DEF Orderly
<1>1. CASE UNCHANGED vars
  <2> USE <1>1 DEF vars, drain
  <2>1. Done' = Done
    BY DEF Done, Settled
  <2>2. FileOrdered'
    BY <2>1 DEF Orderly, FileOrdered
  <2>3. ASSUME NEW v \in Writer PROVE WriterOrdered(v)'
    <3>1. Covered(v)' = Covered(v) /\ InHand(v)' = InHand(v) /\ Remainder(v)' = Remainder(v)
      BY <2>1 DEF Covered, Held, InHand, Remainder
    <3>2. HandOrdered(v) => HandOrdered(v)'
      BY <2>1, <3>1 DEF HandOrdered
    <3> QED
      BY <2>1, <3>1, <3>2 DEF Orderly, WriterOrdered
  <2> QED
    BY <2>2, <2>3
<1>2. ASSUME NEW n \in Event, Emit(n)
      PROVE  FileOrdered' /\ \A w \in Writer : WriterOrdered(w)'
  BY <1>2, EmitOrderly
<1>3. ASSUME NEW w \in Writer, BeginDrain(w) \/ Crash(w)
      PROVE  FileOrdered' /\ \A v \in Writer : WriterOrdered(v)'
  <2>1. /\ UNCHANGED <<queue, emitted, drain, learned, dropped>>
        /\ pc'[w] \in {"idle", "read"} /\ \A v \in Writer \ {w} : pc'[v] = pc[v]
        /\ unsaved' = unsaved \/ unsaved' = [unsaved EXCEPT ![w] = NoEffects]
    BY <1>t, <1>3 DEF BeginDrain, Crash, At, TypeOK
  <2>2. Done' = Done
    BY <2>1 DEF Done, Settled
  <2>3. FileOrdered'
    BY <2>1, <2>2 DEF Orderly, FileOrdered
  <2>4. WriterOrdered(w)'
    <3>1. \A s \in Space : unsaved'[w][s] = unsaved[w][s] \/ unsaved'[w][s] = {}
      BY <1>t, <2>1 DEF TypeOK, NoEffects
    <3>2. /\ StoreOrdered(emitted', Done', w, unsaved'[w])
          /\ StoreOrdered(emitted', Done', w, checkpoint'[w])
      BY <2>1, <2>2, <3>1, StoreMixed DEF Orderly, WriterOrdered, drain
    <3> QED
      BY <2>1, <3>2 DEF WriterOrdered
  <2>5. ASSUME NEW v \in Writer, v # w PROVE WriterOrdered(v)'
    <3>1. unsaved'[v] = unsaved[v] /\ checkpoint'[v] = checkpoint[v]
      BY <1>t, <2>1, <2>5 DEF TypeOK, drain
    <3> QED
      BY <2>1, <2>2, <2>5, <3>1, OthersOrderly
  <2> QED
    BY <2>3, <2>4, <2>5
<1>4. ASSUME NEW w \in Writer, Drain(w)
      PROVE  FileOrdered' /\ \A v \in Writer : WriterOrdered(v)'
  <2>1. Done \subseteq Done'
    BY <1>t, <1>4, DoneGrows DEF WriterStep
  <2>2. emitted' = emitted /\ \A v \in Writer \ {w} : pc'[v] = "idle"
    BY <1>t, <1>4, OthersStill
  <2>3. FileOrdered' /\ WriterOrdered(w)'
    BY <1>4, <2>1, <2>2, DrainOrderly
  <2>4. ASSUME NEW v \in Writer, v # w PROVE WriterOrdered(v)'
    <3>1. unsaved'[v] = unsaved[v] /\ checkpoint'[v] = checkpoint[v]
      BY <1>t, <1>4, <2>4, OthersMemory
    <3>2. pc'[v] = "idle" \/ (pc'[v] = pc[v] /\ UNCHANGED <<drain, learned, dropped>>)
      BY <2>2, <2>4
    <3>3. emitted' = emitted
      BY <2>2
    <3> QED
      BY <2>1, <2>4, <3>1, <3>2, <3>3, OthersOrderly
  <2> QED
    BY <2>3, <2>4
<1> QED
  BY <1>1, <1>2, <1>3, <1>4 DEF Next

\* Of two events of a partition, the one appended first stands before the other.
LEMMA PrecedesBefore ==
    ASSUME NEW e \in Event, NEW f \in Event, Precedes(e, f), SpaceOf[e] = SpaceOf[f],
           {KindOf[e], KindOf[f]} \subseteq {"feedback", "verdict"}, emitted \in Seq(Event)
    PROVE  Before(emitted, e, f)
<1>1. ASSUME NEW x \in ToSet(emitted)
      PROVE  Position(x) \in 1 .. Len(emitted) /\ emitted[Position(x)] = x
  <2>1. \E i \in 1 .. Len(emitted) : emitted[i] = x
    <3>1. PICK i \in DOMAIN emitted : x = emitted[i]
      BY DEF ToSet
    <3>2. DOMAIN emitted = 1 .. Len(emitted)
      OBVIOUS
    <3> QED
      BY <3>1, <3>2
  <2> QED
    BY <2>1 DEF Position
<1>2. /\ e \in ToSet(emitted) /\ f \in ToSet(emitted) /\ Position(e) < Position(f)
  BY DEF Precedes
<1>3. /\ Position(f) \in DOMAIN emitted /\ emitted[Position(f)] = f
      /\ Position(e) \in 1 .. Position(f) - 1 /\ emitted[Position(e)] = e
  BY <1>1, <1>2
<1> QED
  BY <1>3 DEF Before, Learning

\* What reaches the disk in a step has those before it on disk by then.
LEMMA LearnedStep ==
    ASSUME Orderly, [Next]_vars, NEW e \in Event, NEW f \in Event, Before(emitted, e, f),
           learned[f] = 0, learned'[f] > 0, e \notin dropped
    PROVE  learned'[e] > 0
<1>t. TypeOK
  BY DEF Orderly, Safe
<1>1. PICK w \in Writer : Apply(w) \/ AuditRaises(w) \/ Persist(w)
  BY DEF Next, vars, Emit, BeginDrain, Crash, Drain, FindEmpty, ArchiveCorrupt, ReadQueue,
         Defer, Drop, ApplyRaises, LoadFails, OverrideRefused, EndOfBatch, PersistFails,
         Truncate, WriteBack, StopAt
<1>2. /\ StoreOrdered(emitted, Done, w, unsaved[w])
      /\ e \in Done => learned[e] > 0
      /\ SpaceOf[e] = SpaceOf[f] /\ Learning(f)
  BY DEF Orderly, WriterOrdered, Done, Settled, Before
<1>3. ASSUME NEW s \in Space, f \in unsaved[w][s]
      PROVE  learned[e] > 0 \/ e \in unsaved[w][s]
  BY <1>2, <1>3 DEF StoreOrdered
<1>4. CASE Persist(w)
  <2>1. PICK s \in Unsaved(w) : Learn(unsaved[w][s])
    BY <1>4 DEF Persist
  <2>2. s \in Space /\ f \in unsaved[w][s]
    BY <1>t, <2>1 DEF Unsaved, TypeOK, Learn
  <2> QED
    BY <1>3, <1>t, <2>1, <2>2, LearnGrows
<1>5. CASE Apply(w) \/ AuditRaises(w)
  <2>1. PICK n \in Event : Applies(w, n) /\ Effect(w, n)
    BY <1>5 DEF Apply, AuditRaises
  <2>2. CASE KindOf[n] = "override" /\ Learn({n})
    <3>1. f = n
      BY <2>2 DEF Learn
    <3> QED
      BY <1>2, <2>2, <3>1 DEF Learning
  <2>3. CASE Learn(unsaved[w][SpaceOf[n]] \cup {n})
    <3>1. f \in unsaved[w][SpaceOf[n]] \/ f = n
      BY <2>3 DEF Learn
    <3>2. SpaceOf[n] \in Space
      BY EventAssumption
    <3>3. learned[e] > 0 \/ e \in unsaved[w][SpaceOf[n]]
      BY <1>2, <1>3, <2>1, <3>1, <3>2, BeforeHead DEF Applies
    <3> QED
      BY <1>t, <2>3, <3>3, LearnGrows
  <2> QED
    BY <2>1, <2>2, <2>3 DEF Effect, Remember
<1> QED
  BY <1>1, <1>4, <1>5

\* Two verdicts or pieces of feedback on one partition reach the disk in the
\* order in which their lines were appended, whichever writers drain, however
\* many lines are deferred, replayed or discarded, and whatever fails, as long
\* as no writer dies between the two writes of the final rewrite.
THEOREM PartitionsInOrder ==
    ASSUME TornRewrites = FALSE PROVE Spec => LearnedInOrder
<1>1. Init => Orderly
  <2> SUFFICES ASSUME Init PROVE Orderly
    OBVIOUS
  <2>1. TypeOK
    <3>1. << >> \in Seq(Event) /\ 0 \in 0 .. MaxFailures
      BY LimitAssumption
    <3> QED
      BY <3>1 DEF Init, TypeOK, Nothing, NoEffects
  <2>2. ToSet(<< >>) = {} /\ \A w \in Writer : pc[w] = "idle"
    BY DEF Init, ToSet
  <2>3. Safe
    BY <2>1, <2>2 DEF Init, Safe, Exclusive, NothingLost, Accounted
  <2>4. FileOrdered
    BY <2>2, OrderOfEmpty DEF Init, FileOrdered
  <2>5. ASSUME NEW w \in Writer PROVE WriterOrdered(w)
    <3>1. unsaved[w] = NoEffects /\ checkpoint[w] = NoEffects
      BY DEF Init
    <3>2. StoreOrdered(emitted, Done, w, NoEffects)
      BY DEF StoreOrdered, NoEffects
    <3> QED
      BY <2>2, <3>1, <3>2 DEF WriterOrdered
  <2> QED
    BY <2>3, <2>4, <2>5 DEF Orderly
<1>2. Orderly /\ TypeOK' /\ [Next]_vars => Orderly'
  <2> SUFFICES ASSUME Orderly, TypeOK', [Next]_vars PROVE Orderly'
    OBVIOUS
  <2>1. Safe'
    BY SafeStep DEF Orderly
  <2> QED
    BY <2>1, OrderlyStep
<1>3. ASSUME Orderly, [Next]_vars
      PROVE  \A e, f \in Event :
               /\ learned[f] = 0 /\ learned'[f] > 0
               /\ Precedes(e, f) /\ SpaceOf[e] = SpaceOf[f]
               /\ {KindOf[e], KindOf[f]} \subseteq {"feedback", "verdict"}
               /\ e \notin dropped
               => learned'[e] > 0
  <2>1. emitted \in Seq(Event)
    BY <1>3 DEF Orderly, Safe, TypeOK
  <2> QED
    BY <1>3, <2>1, PrecedesBefore, LearnedStep
<1> QED
  BY <1>1, <1>2, <1>3, Typing, PTL DEF Spec, LearnedInOrder
=============================================================================
