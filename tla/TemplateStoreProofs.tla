------------------------- MODULE TemplateStoreProofs -------------------------
(***************************************************************************)
(* Theorems about the template store, for every set of questions, ids,     *)
(* partitions, views, sessions and uses.                                   *)
(***************************************************************************)
EXTENDS TemplateStore, FiniteSetTheorems, TLAPS

-----------------------------------------------------------------------------
(***************************************************************************)
(* Recursive functions on an interval.  The model loads the partitions of  *)
(* a list one after the other; these lemmas give the function that does so *)
(* its values, and carry a property along it.                              *)
(***************************************************************************)

\* Induction over the natural numbers, for a set.
LEMMA NatSetInduction ==
    ASSUME NEW S \in SUBSET Nat, 0 \in S, \A n \in S : n + 1 \in S
    PROVE  S = Nat
<1> DEFINE R == {ss \in Nat \X Nat : ss[1] < ss[2]}
<1>1. IsWellFoundedOn(R, Nat)
  BY NatLessThanWellFounded DEF OpToRel
<1>2. ASSUME Nat \ S # {} PROVE FALSE
  <2>1. PICK x \in Nat \ S : \A y \in Nat \ S : <<y, x>> \notin R
    <3> HIDE DEF R
    <3> QED BY <1>1, <1>2, WFMin, Zenon
  <2>2. x # 0 /\ x - 1 \in Nat /\ <<x - 1, x>> \in R
    BY <2>1
  <2>3. x - 1 \in S
    BY <2>1, <2>2
  <2> QED
    BY <2>1, <2>2, <2>3
<1> QED
  BY <1>2

\* Induction up to N.
LEMMA UpTo ==
    ASSUME NEW N \in Nat, NEW S, 0 \in S, \A n \in 1 .. N : n - 1 \in S => n \in S
    PROVE  0 .. N \subseteq S
<1> DEFINE Good == {n \in Nat : n <= N => n \in S}
<1>1. 0 \in Good
  OBVIOUS
<1>2. \A n \in Good : n + 1 \in Good
  <2>1. SUFFICES ASSUME NEW n \in Nat, n \in S, n + 1 <= N PROVE n + 1 \in S
    OBVIOUS
  <2>2. n + 1 \in 1 .. N /\ (n + 1) - 1 = n
    BY <2>1
  <2> QED
    BY <2>1, <2>2
<1>3. Good \in SUBSET Nat
  OBVIOUS
<1>4. Good = Nat
  <2> HIDE DEF Good
  <2> QED BY <1>1, <1>2, <1>3, NatSetInduction
<1> QED
  BY <1>4

\* A function that starts at a and goes on as step says exists.
Iterates(f, N, T, a, step) ==
    /\ f \in [0 .. N -> T]
    /\ f[0] = a /\ \A n \in 1 .. N : f[n] = step[n][f[n - 1]]

LEMMA Iteration ==
    ASSUME NEW N \in Nat, NEW T, NEW a \in T, NEW step \in [1 .. N -> [T -> T]]
    PROVE  \E f : Iterates(f, N, T, a, step)
<1> DEFINE Is(f, k) == f[0] = a /\ \A n \in 1 .. k : f[n] = step[n][f[n - 1]]
           S == {k \in Nat : k <= N => \E f \in [0 .. k -> T] : Is(f, k)}
<1>1. 0 \in S
  <2>1. [n \in 0 .. 0 |-> a] \in [0 .. 0 -> T] /\ Is([n \in 0 .. 0 |-> a], 0)
    OBVIOUS
  <2> QED
    BY <2>1
<1>2. ASSUME NEW k \in S PROVE k + 1 \in S
  <2>1. SUFFICES ASSUME k + 1 <= N PROVE \E f \in [0 .. k + 1 -> T] : Is(f, k + 1)
    OBVIOUS
  <2>2. PICK f \in [0 .. k -> T] : Is(f, k)
    BY <2>1
  <2> DEFINE g == [n \in 0 .. k + 1 |-> IF n = k + 1 THEN step[k + 1][f[k]] ELSE f[n]]
  <2>3. step[k + 1][f[k]] \in T
    <3>1. k + 1 \in 1 .. N /\ k \in 0 .. k
      BY <2>1
    <3> QED
      BY <3>1
  <2>4. g \in [0 .. k + 1 -> T]
    <3>1. \A n \in 0 .. k + 1 : n # k + 1 => n \in 0 .. k
      OBVIOUS
    <3> QED
      BY <2>3, <3>1
  <2>5. \A n \in 0 .. k : g[n] = f[n]
    OBVIOUS
  <2>6. g[k + 1] = step[k + 1][f[k]]
    OBVIOUS
  <2> HIDE DEF g
  <2>7. g[0] = a
    BY <2>2, <2>5
  <2>8. ASSUME NEW n \in 1 .. k + 1 PROVE g[n] = step[n][g[n - 1]]
    <3>1. CASE n = k + 1
      BY <2>5, <2>6, <3>1
    <3>2. CASE n # k + 1
      <4>1. n \in 1 .. k /\ n - 1 \in 0 .. k /\ n \in 0 .. k
        BY <3>2
      <4> QED
        BY <2>2, <2>5, <4>1
    <3> QED
      BY <3>1, <3>2
  <2> QED
    BY <2>4, <2>7, <2>8
<1>3. S = Nat
  <2>1. S \in SUBSET Nat
    OBVIOUS
  <2> HIDE DEF S
  <2> QED BY <1>1, <1>2, <2>1, NatSetInduction
<1>4. \E f \in [0 .. N -> T] : Is(f, N)
  BY <1>3
<1> QED
  BY <1>4 DEF Iterates

-----------------------------------------------------------------------------
(***************************************************************************)
(* Sequences without repetition.                                           *)
(***************************************************************************)

\* What Kept computes: a sequence kept[0], kept[1], ... that grows by the
\* elements that are in keepers.
LEMMA KeptSteps ==
    ASSUME NEW T, NEW seq \in Seq(T), NEW keepers, NEW N \in Nat, N = Len(seq)
    PROVE  \E kept :
            /\ kept[0] = << >>
            /\ \A n \in 1 .. N : kept[n] = IF seq[n] \in keepers THEN Append(kept[n - 1], seq[n])
                                         ELSE kept[n - 1]
            /\ Kept(seq, keepers) = kept[N]
<1> DEFINE Grown(x, n) == IF seq[n] \in keepers THEN Append(x, seq[n]) ELSE x
           step == [n \in 1 .. N |-> [x \in Seq(T) |-> Grown(x, n)]]
           Is(f) == f = [n \in 0 .. N |-> IF n = 0 THEN << >> ELSE Grown(f[n - 1], n)]
<1>1. ASSUME NEW n \in 1 .. N, NEW x \in Seq(T)
      PROVE  Grown(x, n) \in Seq(T)
  <2>1. seq[n] \in T
    OBVIOUS
  <2> QED
    BY <2>1
<1>2. step \in [1 .. N -> [Seq(T) -> Seq(T)]]
  BY <1>1
<1>3. \A n \in 1 .. N : \A x \in Seq(T) : step[n][x] = Grown(x, n)
  OBVIOUS
<1>4. << >> \in Seq(T)
  OBVIOUS
<1> HIDE DEF step
<1>5. PICK f : Iterates(f, N, Seq(T), << >>, step)
  BY <1>2, <1>4, Iteration, Zenon
<1>6. ASSUME NEW n \in 1 .. N
      PROVE  f[n] = Grown(f[n - 1], n)
  <2>1. n - 1 \in 0 .. N
    OBVIOUS
  <2>2. f[n - 1] \in Seq(T)
    BY <1>5, <2>1 DEF Iterates
  <2> QED
    BY <1>3, <1>5, <2>2, Zenon DEF Iterates
<1> HIDE DEF Grown
<1>7. Is(f)
  BY <1>5, <1>6 DEF Iterates
<1> DEFINE k == CHOOSE g : Is(g)
<1>8. Is(k)
  <2> HIDE DEF Is
  <2> QED BY <1>7, Zenon
<1>9. Kept(seq, keepers) = k[N]
  BY Zenon DEF Kept, Grown
<1> HIDE DEF k
<1>10. k[0] = << >> /\ \A n \in 1 .. N : k[n] = Grown(k[n - 1], n)
  <2>1. 0 \in 0 .. N /\ \A n \in 1 .. N : n \in 0 .. N /\ n # 0
    OBVIOUS
  <2> QED
    BY <1>8, <2>1
<1> QED
  BY <1>9, <1>10, Zenon DEF Grown

LEMMA AppendIs ==
    ASSUME NEW T, NEW x \in Seq(T), NEW e \in T
    PROVE  /\ Append(x, e) \in Seq(T) /\ Len(Append(x, e)) = Len(x) + 1
           /\ ToSet(Append(x, e)) = ToSet(x) \cup {e}
           /\ IsInjective(x) /\ e \notin ToSet(x) => IsInjective(Append(x, e))
<1>1. PICK n \in Nat : n = Len(x)
  OBVIOUS
<1> DEFINE y == Append(x, e)
<1>2. y \in Seq(T) /\ DOMAIN y = 1 .. n + 1 /\ DOMAIN x = 1 .. n
  BY <1>1
<1>3. (\A i \in 1 .. n : y[i] = x[i]) /\ y[n + 1] = e
  BY <1>1
<1> HIDE DEF y
<1>4. ToSet(y) = ToSet(x) \cup {e}
  <2>1. ToSet(y) \subseteq ToSet(x) \cup {e}
    BY <1>2, <1>3 DEF ToSet
  <2>2. ASSUME NEW z \in ToSet(x) PROVE z \in ToSet(y)
    <3>1. PICK i \in 1 .. n : z = x[i]
      BY <1>2 DEF ToSet
    <3>2. i \in 1 .. n + 1 /\ y[i] = z
      BY <1>3, <3>1
    <3> QED
      BY <1>2, <3>2 DEF ToSet
  <2>3. e \in ToSet(y)
    <3>1. n + 1 \in 1 .. n + 1
      OBVIOUS
    <3> QED
      BY <1>2, <1>3, <3>1 DEF ToSet
  <2> QED
    BY <2>1, <2>2, <2>3
<1>5. ASSUME IsInjective(x), e \notin ToSet(x) PROVE IsInjective(y)
  <2>1. SUFFICES ASSUME NEW a \in 1 .. n + 1, NEW b \in 1 .. n + 1, y[a] = y[b] PROVE a = b
    BY <1>2 DEF IsInjective
  <2>2. \A i \in 1 .. n : x[i] # e
    BY <1>2, <1>5 DEF ToSet
  <2>3. \A i, j \in 1 .. n : x[i] = x[j] => i = j
    BY <1>2, <1>5 DEF IsInjective
  <2> QED
    BY <1>3, <2>1, <2>2, <2>3
<1> QED
  BY <1>1, <1>2, <1>4, <1>5 DEF y

LEMMA KeptIs ==
    ASSUME NEW T, NEW seq \in Seq(T), NEW keepers
    PROVE  /\ Kept(seq, keepers) \in Seq(T)
           /\ ToSet(Kept(seq, keepers)) = ToSet(seq) \cap keepers
           /\ IsInjective(seq) => IsInjective(Kept(seq, keepers))
<1>1. PICK N \in Nat : N = Len(seq) /\ DOMAIN seq = 1 .. N /\ \A n \in 1 .. N : seq[n] \in T
  OBVIOUS
<1>2. PICK kept :
            /\ kept[0] = << >>
            /\ \A n \in 1 .. N : kept[n] = IF seq[n] \in keepers THEN Append(kept[n - 1], seq[n])
                                         ELSE kept[n - 1]
            /\ Kept(seq, keepers) = kept[N]
  BY <1>1, KeptSteps
<1> DEFINE Up(n) == {seq[i] : i \in 1 .. n}
           Good(n) == /\ kept[n] \in Seq(T) /\ ToSet(kept[n]) = Up(n) \cap keepers
                      /\ IsInjective(seq) => IsInjective(kept[n])
           S == {n \in 0 .. N : Good(n)}
<1>3. 0 \in S
  <2>1. << >> \in Seq(T) /\ ToSet(<< >>) = {} /\ IsInjective(<< >>)
    BY DEF ToSet, IsInjective
  <2>2. Up(0) \cap keepers = {}
    OBVIOUS
  <2>3. kept[0] = << >> /\ 0 \in 0 .. N
    BY <1>2
  <2> HIDE DEF Up
  <2>4. Good(0)
    BY <2>1, <2>2, <2>3, Zenon
  <2> QED
    BY <2>3, <2>4
<1>4. ASSUME NEW n \in 1 .. N, n - 1 \in S PROVE n \in S
  <2>1. Good(n - 1) /\ seq[n] \in T
    BY <1>1, <1>4
  <2>2. Up(n) = Up(n - 1) \cup {seq[n]}
    <3>1. \A i \in 1 .. n : i = n \/ i \in 1 .. n - 1
      OBVIOUS
    <3>2. \A i \in 1 .. n - 1 : i \in 1 .. n
      OBVIOUS
    <3>3. n \in 1 .. n
      OBVIOUS
    <3> QED
      BY <3>1, <3>2, <3>3
  <2>3. IsInjective(seq) => seq[n] \notin Up(n - 1)
    BY <1>1 DEF IsInjective
  <2> HIDE DEF Up
  <2>4. CASE seq[n] \in keepers
    <3>1. kept[n] = Append(kept[n - 1], seq[n])
      BY <1>2, <2>4
    <3>2. /\ kept[n] \in Seq(T) /\ ToSet(kept[n]) = ToSet(kept[n - 1]) \cup {seq[n]}
          /\ IsInjective(kept[n - 1]) /\ seq[n] \notin ToSet(kept[n - 1]) => IsInjective(kept[n])
      BY <2>1, <3>1, AppendIs
    <3> QED
      BY <2>1, <2>2, <2>3, <2>4, <3>2
  <2>5. CASE seq[n] \notin keepers
    <3>1. kept[n] = kept[n - 1]
      BY <1>2, <2>5
    <3> QED
      BY <2>1, <2>2, <2>5, <3>1
  <2> QED
    BY <2>4, <2>5
<1>5. 0 .. N \subseteq S
  <2> HIDE DEF S
  <2> QED BY <1>3, <1>4, UpTo
<1>6. Good(N)
  BY <1>5
<1>7. Up(N) = ToSet(seq)
  BY <1>1 DEF ToSet
<1> QED
  BY <1>2, <1>6, <1>7

\* The length of a sequence without repetition is the number of its elements.
LEMMA LengthIs ==
    ASSUME NEW T, NEW seq \in Seq(T), IsInjective(seq)
    PROVE  IsFiniteSet(ToSet(seq)) /\ Cardinality(ToSet(seq)) = Len(seq)
<1>1. PICK N \in Nat : N = Len(seq) /\ DOMAIN seq = 1 .. N
  OBVIOUS
<1>2. IsFiniteSet(1 .. N) /\ Cardinality(1 .. N) = N
  BY FS_Interval
<1> DEFINE E == ToSet(seq)
<1>3. seq \in [1 .. N -> E] /\ \A e \in E : \E i \in 1 .. N : seq[i] = e
  BY <1>1 DEF ToSet
<1> HIDE DEF E
<1>4. seq \in Surjection(1 .. N, E) /\ seq \in Injection(1 .. N, E)
  BY <1>3 DEF Surjection, Injection
<1>5. /\ IsFiniteSet(E)
      /\ Cardinality(E) = Cardinality(1 .. N) <=> seq \in Injection(1 .. N, E)
  BY <1>2, <1>4, FS_Surjection
<1> QED
  BY <1>1, <1>2, <1>4, <1>5 DEF E

LEMMA ListingIs ==
    ASSUME NEW S, IsFiniteSet(S)
    PROVE  SetToSeq(S) \in Seq(S) /\ IsInjective(SetToSeq(S))
<1>1. Cardinality(S) \in Nat /\ ExistsBijection(1 .. Cardinality(S), S)
  BY FS_CardinalityType
<1>2. PICK f : f \in Bijection(1 .. Cardinality(S), S)
  BY <1>1, Zenon DEF ExistsBijection
<1>3. f \in [1 .. Cardinality(S) -> S] /\ IsInjective(f)
  BY <1>2 DEF Bijection, Injection
<1>4. SetToSeq(S) \in [1 .. Cardinality(S) -> S] /\ IsInjective(SetToSeq(S))
  BY <1>3, Zenon DEF SetToSeq
<1> QED
  BY <1>1, <1>4

LEMMA WithoutIs ==
    ASSUME NEW T, NEW seq \in Seq(T), NEW e
    PROVE  /\ Without(seq, e) \in Seq(T)
           /\ ToSet(Without(seq, e)) = ToSet(seq) \ {e}
           /\ IsInjective(seq) => IsInjective(Without(seq, e))
BY KeptIs DEF Without

LEMMA RefreshedIs ==
    ASSUME NEW T, NEW seq \in Seq(T), IsInjective(seq), NEW e \in ToSet(seq)
    PROVE  /\ Refreshed(seq, e) \in Seq(T)
           /\ ToSet(Refreshed(seq, e)) = ToSet(seq)
           /\ IsInjective(Refreshed(seq, e))
           /\ Len(Refreshed(seq, e)) = Len(seq)
<1>1. e \in T
  BY DEF ToSet
<1>2. /\ Without(seq, e) \in Seq(T) /\ IsInjective(Without(seq, e))
      /\ ToSet(Without(seq, e)) = ToSet(seq) \ {e}
  BY WithoutIs
<1>3. e \notin ToSet(Without(seq, e))
  BY <1>2
<1>4. /\ Append(Without(seq, e), e) \in Seq(T)
      /\ ToSet(Append(Without(seq, e), e)) = ToSet(Without(seq, e)) \cup {e}
      /\ IsInjective(Append(Without(seq, e), e))
  BY <1>1, <1>2, <1>3, AppendIs
<1>5. Refreshed(seq, e) = Append(Without(seq, e), e)
  BY DEF Refreshed
<1>6. ToSet(Refreshed(seq, e)) = ToSet(seq)
  BY <1>2, <1>4, <1>5
<1>7. Refreshed(seq, e) \in Seq(T) /\ IsInjective(Refreshed(seq, e))
  BY <1>4, <1>5
<1>8. Len(Refreshed(seq, e)) = Cardinality(ToSet(Refreshed(seq, e)))
  BY <1>7, LengthIs
<1>9. Len(seq) = Cardinality(ToSet(seq))
  BY LengthIs
<1> QED
  BY <1>6, <1>7, <1>8, <1>9

-----------------------------------------------------------------------------
(***************************************************************************)
(* What loading a partition does to a view.                                *)
(***************************************************************************)

LEMMA PartitionsTyped ==
    /\ \A t \in Tid : PartOf[t] \in Part
    /\ \A q \in Question : FPartOf[q] \in FPart
    /\ IsFiniteSet(Part) /\ IsFiniteSet(FPart) /\ Part \subseteq Nat
<1>1. IsFiniteSet(Tid)
  BY PartitionAssumption, FS_Interval DEF Tid
<1>2. PartOf \in Surjection(Tid, Part) /\ FPartOf \in Surjection(Question, FPart)
  BY PartitionAssumption DEF Part, FPart, Surjection
<1>3. IsFiniteSet(Part) /\ IsFiniteSet(FPart)
  BY <1>1, <1>2, FS_Surjection, PartitionAssumption
<1> QED
  BY <1>3, PartitionAssumption DEF Part, FPart

LEMMA RoomIs ==
    ASSUME NEW vw \in Memory, Orderly(vw)
    PROVE  /\ Room(vw) \in Seq(Part) /\ IsInjective(Room(vw))
           /\ ToSet(Room(vw)) \subseteq ToSet(vw.cache)
           /\ vw.dirty \subseteq ToSet(Room(vw))
<1> DEFINE clean == Kept(vw.cache, ToSet(vw.cache) \ vw.dirty)
           oldest == {i \in DOMAIN clean : i <= Len(vw.cache) + 1 - use.lruMax}
           victims == {clean[i] : i \in oldest}
           stay == ToSet(vw.cache) \ victims
<1>1. /\ vw.cache \in Seq(Part) /\ IsInjective(vw.cache)
      /\ vw.dirty \subseteq ToSet(vw.cache)
  BY DEF Memory, Orderly
<1>2. ToSet(clean) = ToSet(vw.cache) \cap (ToSet(vw.cache) \ vw.dirty)
  BY <1>1, KeptIs
<1> HIDE DEF clean
<1>3. victims \subseteq ToSet(clean)
  BY DEF ToSet
<1>4. Room(vw) = Kept(vw.cache, stay)
  BY DEF Room, clean
<1> HIDE DEF victims
<1>5. vw.dirty \subseteq stay
  BY <1>1, <1>2, <1>3
<1> HIDE DEF stay
<1> QED
  BY <1>1, <1>4, <1>5, KeptIs

\* A partition that was cached stays as it is, the one that was not is read from
\* its file, and no dirty one goes.
LEMMA LoadedIs ==
    ASSUME NEW vw \in Memory, Orderly(vw), disk \in Files, NEW p \in Part
    PROVE  /\ Loaded(vw, p) \in Memory /\ Orderly(Loaded(vw, p))
           /\ Loaded(vw, p).head = vw.head /\ Loaded(vw, p).index = vw.index
           /\ Loaded(vw, p).dirty = vw.dirty
           /\ Loaded(vw, p).fcache = vw.fcache /\ Loaded(vw, p).fdirty = vw.fdirty
           /\ Loaded(vw, p).rows = vw.rows
           /\ p \in ToSet(Loaded(vw, p).cache)
           /\ ToSet(Loaded(vw, p).cache) \subseteq ToSet(vw.cache) \cup {p}
           /\ \A t \in Tid :
                \/ Loaded(vw, p).body[t] = vw.body[t]
                   /\ (PartOf[t] \in ToSet(Loaded(vw, p).cache) => PartOf[t] \in ToSet(vw.cache))
                \/ Loaded(vw, p).body[t] = disk.shard[t] /\ PartOf[t] \notin ToSet(vw.cache)
                \/ Loaded(vw, p).body[t] = {} /\ PartOf[t] \notin ToSet(Loaded(vw, p).cache)
<1>1. /\ vw.cache \in Seq(Part) /\ IsInjective(vw.cache)
      /\ vw.dirty \subseteq ToSet(vw.cache) /\ vw.body \in Bodies /\ disk.shard \in Bodies
  BY DEF Memory, Orderly, Files
<1>2. CASE p \in ToSet(vw.cache)
  <2> DEFINE c == Refreshed(vw.cache, p)
  <2>1. c \in Seq(Part) /\ ToSet(c) = ToSet(vw.cache) /\ IsInjective(c)
    BY <1>1, <1>2, RefreshedIs
  <2>2. Loaded(vw, p) = [vw EXCEPT !.cache = c]
    BY <1>2 DEF Loaded
  <2> HIDE DEF c
  <2>3. /\ [vw EXCEPT !.cache = c] \in Memory
        /\ [vw EXCEPT !.cache = c].cache = c
        /\ [vw EXCEPT !.cache = c].head = vw.head /\ [vw EXCEPT !.cache = c].index = vw.index
        /\ [vw EXCEPT !.cache = c].dirty = vw.dirty /\ [vw EXCEPT !.cache = c].body = vw.body
        /\ [vw EXCEPT !.cache = c].fcache = vw.fcache /\ [vw EXCEPT !.cache = c].rows = vw.rows
        /\ [vw EXCEPT !.cache = c].fdirty = vw.fdirty
    BY <2>1 DEF Memory
  <2>4. Orderly(Loaded(vw, p))
    BY <1>1, <2>1, <2>2, <2>3 DEF Orderly
  <2> QED
    BY <1>2, <2>1, <2>2, <2>3, <2>4
<1>3. CASE p \notin ToSet(vw.cache)
  <2> DEFINE room == Room(vw)
             c == Append(room, p)
             b == [t \in Tid |-> IF PartOf[t] = p THEN disk.shard[t]
                                ELSE IF PartOf[t] \in ToSet(room) THEN vw.body[t] ELSE {}]
             new == [vw EXCEPT !.cache = c, !.body = b]
  <2>1. Loaded(vw, p) = new
    BY <1>3 DEF Loaded
  <2>2. /\ room \in Seq(Part) /\ IsInjective(room)
        /\ ToSet(room) \subseteq ToSet(vw.cache) /\ vw.dirty \subseteq ToSet(room)
    BY RoomIs
  <2> HIDE DEF room
  <2>3. c \in Seq(Part) /\ IsInjective(c) /\ ToSet(c) = ToSet(room) \cup {p}
    BY <1>3, <2>2, AppendIs
  <2> HIDE DEF c
  <2>4. b \in Bodies
    BY <1>1 DEF Bodies
  <2>5. ASSUME NEW t \in Tid
        PROVE  b[t] = IF PartOf[t] = p THEN disk.shard[t]
                      ELSE IF PartOf[t] \in ToSet(room) THEN vw.body[t] ELSE {}
    OBVIOUS
  <2> HIDE DEF b
  <2>6. /\ new \in Memory /\ new.cache = c /\ new.body = b
        /\ new.head = vw.head /\ new.index = vw.index /\ new.dirty = vw.dirty
        /\ new.fcache = vw.fcache /\ new.rows = vw.rows /\ new.fdirty = vw.fdirty
    BY <2>3, <2>4 DEF Memory
  <2> HIDE DEF new
  <2>7. Orderly(new)
    <3>1. vw.dirty \subseteq ToSet(c)
      BY <2>2, <2>3
    <3> QED
      BY <2>3, <2>6, <3>1 DEF Orderly
  <2>8. ASSUME NEW t \in Tid
        PROVE  \/ new.body[t] = vw.body[t]
                  /\ (PartOf[t] \in ToSet(new.cache) => PartOf[t] \in ToSet(vw.cache))
               \/ new.body[t] = disk.shard[t] /\ PartOf[t] \notin ToSet(vw.cache)
               \/ new.body[t] = {} /\ PartOf[t] \notin ToSet(new.cache)
    BY <1>3, <2>2, <2>3, <2>5, <2>6
  <2>9. p \in ToSet(new.cache) /\ ToSet(new.cache) \subseteq ToSet(vw.cache) \cup {p}
    BY <2>2, <2>3, <2>6
  <2> QED
    BY <2>1, <2>6, <2>7, <2>8, <2>9
<1> QED
  BY <1>2, <1>3

LEMMA TailIs ==
    ASSUME NEW T, NEW seq \in Seq(T), IsInjective(seq), Len(seq) > 0
    PROVE  /\ Tail(seq) \in Seq(T) /\ IsInjective(Tail(seq)) /\ Len(Tail(seq)) = Len(seq) - 1
           /\ ToSet(Tail(seq)) = ToSet(seq) \ {Head(seq)}
<1>1. PICK N \in Nat : N = Len(seq) /\ N > 0 /\ DOMAIN seq = 1 .. N
  OBVIOUS
<1> DEFINE s == Tail(seq)
<1>2. /\ s \in Seq(T) /\ Len(s) = N - 1 /\ DOMAIN s = 1 .. N - 1
      /\ \A i \in 1 .. N - 1 : s[i] = seq[i + 1]
  BY <1>1
<1>3. Head(seq) = seq[1]
  BY <1>1
<1> HIDE DEF s
<1>4. \A i, j \in 1 .. N : seq[i] = seq[j] => i = j
  BY <1>1 DEF IsInjective
<1>5. IsInjective(s)
  <2>1. SUFFICES ASSUME NEW i \in 1 .. N - 1, NEW j \in 1 .. N - 1, s[i] = s[j] PROVE i = j
    BY <1>2 DEF IsInjective
  <2>2. i + 1 \in 1 .. N /\ j + 1 \in 1 .. N /\ seq[i + 1] = seq[j + 1]
    BY <1>1, <1>2, <2>1
  <2>3. i + 1 = j + 1
    BY <1>4, <2>2
  <2> QED
    BY <2>3
<1>6. ASSUME NEW e \in ToSet(s) PROVE e \in ToSet(seq) \ {Head(seq)}
  <2>1. PICK i \in 1 .. N - 1 : e = seq[i + 1]
    BY <1>2 DEF ToSet
  <2>2. i + 1 \in 1 .. N /\ i + 1 # 1 /\ 1 \in 1 .. N
    BY <1>1
  <2> QED
    BY <1>1, <1>3, <1>4, <2>1, <2>2 DEF ToSet
<1>7. ASSUME NEW e \in ToSet(seq) \ {Head(seq)} PROVE e \in ToSet(s)
  <2>1. PICK i \in 1 .. N : e = seq[i] /\ i # 1
    BY <1>1, <1>3 DEF ToSet
  <2>2. i - 1 \in 1 .. N - 1 /\ s[i - 1] = e
    BY <1>2, <2>1
  <2> QED
    BY <1>2, <2>2 DEF ToSet
<1> QED
  BY <1>1, <1>2, <1>5, <1>6, <1>7 DEF s

\* A cache that can hold all feedback has room for a partition that is not in it.
LEMMA RoomForFeedback ==
    ASSUME use \in Use, CacheHoldsFeedback, NEW c \in Seq(FPart), IsInjective(c),
           NEW p \in FPart, p \notin ToSet(c)
    PROVE  Len(c) < use.lruMax
<1>1. IsFiniteSet(ToSet(c)) /\ Cardinality(ToSet(c)) = Len(c)
  BY LengthIs
<1>2. /\ IsFiniteSet(ToSet(c) \cup {p})
      /\ Cardinality(ToSet(c) \cup {p}) = Len(c) + 1
  BY <1>1, FS_AddElement
<1>3. ToSet(c) \cup {p} \in SUBSET FPart
  BY DEF ToSet
<1>4. IsFiniteSet(FPart)
  BY PartitionsTyped
<1>5. Cardinality(ToSet(c) \cup {p}) <= Cardinality(FPart) /\ Cardinality(FPart) \in Nat
  BY <1>3, <1>4, FS_Subset, FS_CardinalityType
<1>6. use.lruMax \in Nat
  BY BoundAssumption, PartitionAssumption
<1>7. Len(c) \in Nat
  OBVIOUS
<1> QED
  BY <1>2, <1>5, <1>6, <1>7 DEF CacheHoldsFeedback

Load == [vw : Memory, files : Rows]

\* From x to y no feedback partition has been let go or written, and those that
\* have come are as their files have them.
Retains(x, y) ==
    /\ y.files = x.files /\ y.vw.fdirty = x.vw.fdirty
    /\ ToSet(x.vw.fcache) \subseteq ToSet(y.vw.fcache)
    /\ \A q \in Question :
        /\ FPartOf[q] \in ToSet(x.vw.fcache) => y.vw.rows[q] = x.vw.rows[q]
        /\ FPartOf[q] \notin ToSet(x.vw.fcache) /\ FPartOf[q] \in ToSet(y.vw.fcache) =>
            y.vw.rows[q] = x.files[q]

\* A feedback partition is read from its file unless it is cached.  The one that
\* makes room goes to its file when it is dirty; when the cache can hold all
\* partitions, none goes.
LEMMA FeedbackLoadedIs ==
    ASSUME use \in Use, NEW x \in Load, Orderly(x.vw), NEW p \in FPart,
           NEW y, y = FeedbackLoaded(x, p)
    PROVE  /\ y \in Load /\ Orderly(y.vw)
           /\ y.vw.head = x.vw.head /\ y.vw.index = x.vw.index
           /\ y.vw.cache = x.vw.cache /\ y.vw.body = x.vw.body /\ y.vw.dirty = x.vw.dirty
           /\ y.vw.fdirty \subseteq x.vw.fdirty
           /\ p \in ToSet(y.vw.fcache) /\ ToSet(y.vw.fcache) \subseteq ToSet(x.vw.fcache) \cup {p}
           /\ \A q \in Question : /\ y.files[q] = x.files[q] \/ y.files[q] = x.vw.rows[q]
                                  /\ y.vw.rows[q] \in {x.vw.rows[q], y.files[q], {}}
           /\ CacheHoldsFeedback => Retains(x, y)
<1>1. /\ x.vw \in Memory /\ x.files \in Rows
      /\ x.vw.fcache \in Seq(FPart) /\ IsInjective(x.vw.fcache)
      /\ x.vw.fdirty \subseteq ToSet(x.vw.fcache) /\ x.vw.rows \in Rows
      /\ Len(x.vw.fcache) <= use.lruMax /\ Len(x.vw.fcache) \in Nat
  BY DEF Load, Memory, Orderly
<1>2. use.lruMax \in Nat \ {0}
  BY BoundAssumption, PartitionAssumption
<1>3. CASE p \in ToSet(x.vw.fcache)
  <2> DEFINE c == Refreshed(x.vw.fcache, p)
             new == [x EXCEPT !.vw.fcache = c]
  <2>1. /\ c \in Seq(FPart) /\ ToSet(c) = ToSet(x.vw.fcache) /\ IsInjective(c)
        /\ Len(c) = Len(x.vw.fcache)
    BY <1>1, <1>3, RefreshedIs
  <2>2. y = new
    BY <1>3 DEF FeedbackLoaded
  <2> HIDE DEF c
  <2>3. /\ new \in Load /\ new.vw.fcache = c /\ new.files = x.files
        /\ new.vw.head = x.vw.head /\ new.vw.index = x.vw.index
        /\ new.vw.dirty = x.vw.dirty /\ new.vw.body = x.vw.body
        /\ new.vw.cache = x.vw.cache /\ new.vw.rows = x.vw.rows
        /\ new.vw.fdirty = x.vw.fdirty
    BY <2>1 DEF Load, Memory
  <2> HIDE DEF new
  <2>4. Orderly(new.vw)
    BY <1>1, <2>1, <2>3 DEF Orderly
  <2> QED
    BY <1>3, <2>1, <2>2, <2>3, <2>4 DEF Retains
<1>4. CASE p \notin ToSet(x.vw.fcache)
  <2> DEFINE cache == x.vw.fcache
             full == Len(cache) >= use.lruMax
             victim == Head(cache)
             rest == IF full THEN Tail(cache) ELSE cache
             files == IF full /\ victim \in x.vw.fdirty
                      THEN [q \in Question |->
                             IF FPartOf[q] = victim THEN x.vw.rows[q] ELSE x.files[q]]
                      ELSE x.files
             rows == [q \in Question |->
                        IF FPartOf[q] = p THEN files[q]
                        ELSE IF FPartOf[q] \in ToSet(rest) THEN x.vw.rows[q] ELSE {}]
             c == Append(rest, p)
             d == x.vw.fdirty \cap ToSet(rest)
             vw == [x.vw EXCEPT !.fcache = c, !.fdirty = d, !.rows = rows]
  <2>1. y = [files |-> files, vw |-> vw]
    BY <1>4 DEF FeedbackLoaded
  <2>2. /\ rest \in Seq(FPart) /\ IsInjective(rest) /\ ToSet(rest) \subseteq ToSet(cache)
        /\ Len(rest) < use.lruMax
    BY <1>1, <1>2, TailIs
  <2>3. CacheHoldsFeedback => ~ full
    <3>1. CacheHoldsFeedback => Len(cache) < use.lruMax
      BY <1>1, <1>4, RoomForFeedback
    <3> QED
      BY <1>1, <1>2, <3>1
  <2>4. /\ files \in Rows
        /\ \A q \in Question : files[q] = x.files[q] \/ files[q] = x.vw.rows[q]
    BY <1>1 DEF Rows
  <2>5. ~ full => rest = cache /\ files = x.files
    OBVIOUS
  <2> HIDE DEF full, rest, files
  <2>6. /\ rows \in Rows
        /\ \A q \in Question :
            rows[q] = IF FPartOf[q] = p THEN files[q]
                      ELSE IF FPartOf[q] \in ToSet(rest) THEN x.vw.rows[q] ELSE {}
    BY <1>1, <2>4 DEF Rows
  <2>7. p \notin ToSet(rest)
    BY <1>4, <2>2
  <2>8. /\ c \in Seq(FPart) /\ IsInjective(c) /\ ToSet(c) = ToSet(rest) \cup {p}
        /\ Len(c) = Len(rest) + 1
    BY <2>2, <2>7, AppendIs
  <2> HIDE DEF rows, c
  <2>9. d \subseteq ToSet(c) /\ d \subseteq FPart /\ d \subseteq x.vw.fdirty
    BY <1>1, <2>8 DEF Memory
  <2>10. CacheHoldsFeedback => d = x.vw.fdirty
    BY <1>1, <2>3, <2>5
  <2>11. Len(c) <= use.lruMax
    BY <1>2, <2>2, <2>8
  <2> HIDE DEF d
  <2>12. /\ vw \in Memory /\ vw.fcache = c /\ vw.fdirty = d /\ vw.rows = rows
         /\ vw.head = x.vw.head /\ vw.index = x.vw.index
         /\ vw.dirty = x.vw.dirty /\ vw.body = x.vw.body /\ vw.cache = x.vw.cache
    BY <1>1, <2>6, <2>8, <2>9 DEF Memory
  <2> HIDE DEF vw
  <2>13. Orderly(vw)
    BY <1>1, <2>8, <2>9, <2>11, <2>12 DEF Orderly
  <2>14. y \in Load /\ y.vw = vw /\ y.files = files
    BY <2>1, <2>4, <2>12 DEF Load
  <2>15. ASSUME NEW q \in Question
         PROVE  /\ y.files[q] = x.files[q] \/ y.files[q] = x.vw.rows[q]
                /\ y.vw.rows[q] \in {x.vw.rows[q], y.files[q], {}}
    BY <2>4, <2>6, <2>12, <2>14
  <2>16. ASSUME CacheHoldsFeedback
         PROVE  Retains(x, y)
    <3>1. y.files = x.files /\ rest = x.vw.fcache
      BY <2>3, <2>5, <2>14, <2>16
    <3>2. y.vw.fdirty = x.vw.fdirty
      BY <2>10, <2>12, <2>14, <2>16
    <3>3. ToSet(y.vw.fcache) = ToSet(x.vw.fcache) \cup {p}
      BY <2>8, <2>12, <2>14, <3>1
    <3> QED
      BY <1>4, <2>6, <2>12, <2>14, <3>1, <3>2, <3>3 DEF Retains
  <2>17. p \in ToSet(y.vw.fcache) /\ ToSet(y.vw.fcache) \subseteq ToSet(x.vw.fcache) \cup {p}
    BY <2>2, <2>8, <2>12, <2>14
  <2> QED
    BY <2>9, <2>12, <2>13, <2>14, <2>15, <2>16, <2>17
<1> QED
  BY <1>3, <1>4

-----------------------------------------------------------------------------
(***************************************************************************)
(* What a view is after any number of loads.                               *)
(***************************************************************************)

\* From x to y template partitions have been read from their files or evicted;
\* those that x has changed are untouched.
Loads(x, y) ==
    /\ y \in Memory /\ Orderly(y)
    /\ y.head = x.head /\ y.index = x.index /\ y.dirty = x.dirty
    /\ y.fcache = x.fcache /\ y.fdirty = x.fdirty /\ y.rows = x.rows
    /\ \A t \in Tid :
        /\ y.body[t] \in {x.body[t], disk.shard[t], {}}
        /\ PartOf[t] \in x.dirty => y.body[t] = x.body[t]
        /\ PartOf[t] \in ToSet(y.cache) =>
            \/ y.body[t] = disk.shard[t]
            \/ y.body[t] = x.body[t] /\ PartOf[t] \in ToSet(x.cache)

\* From x to y feedback partitions have been read; a cache that can hold all has
\* let none go.
Reads(x, y) ==
    /\ y \in Load /\ Orderly(y.vw)
    /\ y.vw.head = x.vw.head /\ y.vw.index = x.vw.index
    /\ y.vw.cache = x.vw.cache /\ y.vw.body = x.vw.body /\ y.vw.dirty = x.vw.dirty
    /\ \A q \in Question : y.files[q] \cup y.vw.rows[q] \subseteq x.files[q] \cup x.vw.rows[q]
    /\ CacheHoldsFeedback => Retains(x, y)

LEMMA LoadsOne ==
    ASSUME NEW vw \in Memory, Orderly(vw), disk \in Files, NEW p \in Part
    PROVE  Loads(vw, Loaded(vw, p)) /\ p \in ToSet(Loaded(vw, p).cache)
<1> DEFINE y == Loaded(vw, p)
<1>1. /\ y \in Memory /\ Orderly(y) /\ y.head = vw.head /\ y.index = vw.index
      /\ y.dirty = vw.dirty /\ y.fcache = vw.fcache /\ y.fdirty = vw.fdirty /\ y.rows = vw.rows
      /\ p \in ToSet(y.cache)
      /\ \A t \in Tid :
            \/ y.body[t] = vw.body[t]
               /\ (PartOf[t] \in ToSet(y.cache) => PartOf[t] \in ToSet(vw.cache))
            \/ y.body[t] = disk.shard[t] /\ PartOf[t] \notin ToSet(vw.cache)
            \/ y.body[t] = {} /\ PartOf[t] \notin ToSet(y.cache)
  BY LoadedIs
<1> HIDE DEF y
<1>2. vw.dirty \subseteq ToSet(vw.cache) /\ vw.dirty \subseteq ToSet(y.cache)
  BY <1>1 DEF Orderly
<1>3. Loads(vw, y)
  BY <1>1, <1>2 DEF Loads
<1> QED
  BY <1>1, <1>3 DEF y

LEMMA LoadsAgain ==
    ASSUME NEW x, NEW y, NEW z, Loads(x, y), Loads(y, z)
    PROVE  Loads(x, z)
<1>1. ASSUME NEW t \in Tid
      PROVE  /\ z.body[t] \in {x.body[t], disk.shard[t], {}}
             /\ PartOf[t] \in x.dirty => z.body[t] = x.body[t]
             /\ PartOf[t] \in ToSet(z.cache) =>
                    \/ z.body[t] = disk.shard[t]
                    \/ z.body[t] = x.body[t] /\ PartOf[t] \in ToSet(x.cache)
  BY DEF Loads
<1> QED
  BY <1>1 DEF Loads

LEMMA LoadsNone ==
    ASSUME NEW vw \in Memory, Orderly(vw)
    PROVE  Loads(vw, vw)
BY DEF Loads

LEMMA ReleasedIs ==
    ASSUME NEW vw \in Memory, Orderly(vw)
    PROVE  Loads(vw, Released(vw))
<1> DEFINE visited == {PartOf[t] : t \in vw.head.map}
           c == Kept(vw.cache, vw.dirty \cup (Part \ visited))
           b == [t \in Tid |-> IF PartOf[t] \in ToSet(c) THEN vw.body[t] ELSE {}]
           y == [vw EXCEPT !.cache = c, !.body = b]
<1>1. /\ vw.cache \in Seq(Part) /\ IsInjective(vw.cache)
      /\ vw.dirty \subseteq ToSet(vw.cache) /\ vw.body \in Bodies
  BY DEF Memory, Orderly
<1>2. /\ c \in Seq(Part) /\ IsInjective(c)
      /\ ToSet(c) = ToSet(vw.cache) \cap (vw.dirty \cup (Part \ visited))
  <2> HIDE DEF visited
  <2> QED BY <1>1, KeptIs
<1>3. Released(vw) = y
  BY DEF Released
<1> HIDE DEF c, visited
<1>4. /\ b \in Bodies
      /\ \A t \in Tid : b[t] = IF PartOf[t] \in ToSet(c) THEN vw.body[t] ELSE {}
  BY <1>1 DEF Bodies
<1> HIDE DEF b
<1>5. /\ y \in Memory /\ y.cache = c /\ y.body = b
      /\ y.head = vw.head /\ y.index = vw.index /\ y.dirty = vw.dirty
      /\ y.fcache = vw.fcache /\ y.rows = vw.rows /\ y.fdirty = vw.fdirty
  BY <1>2, <1>4 DEF Memory
<1> HIDE DEF y
<1>6. vw.dirty \subseteq ToSet(c) /\ ToSet(c) \subseteq ToSet(vw.cache)
  BY <1>1, <1>2
<1>7. Orderly(y)
  BY <1>2, <1>5, <1>6 DEF Orderly
<1>8. Loads(vw, y)
  BY <1>4, <1>5, <1>6, <1>7 DEF Loads
<1> QED
  BY <1>3, <1>8

LEMMA ReadsOne ==
    ASSUME use \in Use, NEW x \in Load, Orderly(x.vw), NEW p \in FPart
    PROVE  /\ Reads(x, FeedbackLoaded(x, p))
           /\ p \in ToSet(FeedbackLoaded(x, p).vw.fcache)
<1>1. PICK y : y = FeedbackLoaded(x, p)
  OBVIOUS
<1>2. /\ y \in Load /\ Orderly(y.vw)
      /\ y.vw.head = x.vw.head /\ y.vw.index = x.vw.index
      /\ y.vw.cache = x.vw.cache /\ y.vw.body = x.vw.body /\ y.vw.dirty = x.vw.dirty
      /\ p \in ToSet(y.vw.fcache)
      /\ \A q \in Question : /\ y.files[q] = x.files[q] \/ y.files[q] = x.vw.rows[q]
                             /\ y.vw.rows[q] \in {x.vw.rows[q], y.files[q], {}}
  BY <1>1, FeedbackLoadedIs
<1>3. CacheHoldsFeedback => Retains(x, y)
  BY <1>1, FeedbackLoadedIs, Zenon
<1>4. \A q \in Question : y.files[q] \cup y.vw.rows[q] \subseteq x.files[q] \cup x.vw.rows[q]
  BY <1>2
<1>5. Reads(x, y)
  BY <1>2, <1>3, <1>4 DEF Reads
<1> QED
  BY <1>1, <1>2, <1>5

LEMMA ReadsAgain ==
    ASSUME NEW x, NEW y, NEW z, Reads(x, y), Reads(y, z)
    PROVE  Reads(x, z)
<1>1. \A q \in Question : z.files[q] \cup z.vw.rows[q] \subseteq x.files[q] \cup x.vw.rows[q]
  BY DEF Reads
<1>2. ASSUME CacheHoldsFeedback
      PROVE  Retains(x, z)
  BY <1>2 DEF Reads, Retains
<1> QED
  BY <1>1, <1>2 DEF Reads

LEMMA ReadsNone ==
    ASSUME NEW x \in Load, Orderly(x.vw)
    PROVE  Reads(x, x)
BY DEF Reads, Retains

LEMMA VisitedIs ==
    ASSUME NEW vw \in Memory, Orderly(vw), disk \in Files
    PROVE  Loads(vw, Visited(vw))
<1> DEFINE named == SetToSeq({PartOf[t] : t \in disk.head.map})
           T == {y \in Memory : Loads(vw, y)}
<1>1. named \in Seq(Part)
  <2> DEFINE P == {PartOf[t] : t \in disk.head.map}
  <2>1. P \in SUBSET Part
    BY PartitionsTyped DEF Files, Header
  <2> HIDE DEF P
  <2>2. IsFiniteSet(P)
    BY <2>1, PartitionsTyped, FS_Subset
  <2>3. SetToSeq(P) \in Seq(P)
    BY <2>2, ListingIs
  <2>4. SetToSeq(P) \in Seq(Part)
    BY <2>1, <2>3
  <2> QED
    BY <2>4 DEF P
<1> HIDE DEF named
<1>2. PICK N \in Nat : N = Len(named) /\ \A n \in 1 .. N : named[n] \in Part
  BY <1>1
<1> DEFINE step == [n \in 1 .. N |-> [y \in T |-> Loaded(y, named[n])]]
           Is(f) == f = [n \in 0 .. N |-> IF n = 0 THEN vw ELSE Loaded(f[n - 1], named[n])]
           after == CHOOSE f : Is(f)
<1>3. ASSUME NEW n \in 1 .. N, NEW y \in T PROVE Loaded(y, named[n]) \in T
  <2>1. y \in Memory /\ Orderly(y) /\ Loads(vw, y) /\ named[n] \in Part
    BY <1>2 DEF Loads
  <2>2. Loads(y, Loaded(y, named[n]))
    BY <2>1, LoadsOne
  <2>3. Loads(vw, Loaded(y, named[n]))
    BY <2>1, <2>2, LoadsAgain, Zenon
  <2> QED
    BY <2>3 DEF Loads
<1>4. vw \in T
  BY LoadsNone
<1>5. /\ step \in [1 .. N -> [T -> T]]
      /\ \A n \in 1 .. N : \A y \in T : step[n][y] = Loaded(y, named[n])
  <2> HIDE DEF T
  <2> QED BY <1>3
<1> HIDE DEF step, T
<1>6. PICK f : Iterates(f, N, T, vw, step)
  BY <1>4, <1>5, Iteration, Zenon
<1>7. \A n \in 1 .. N : f[n] = Loaded(f[n - 1], named[n])
  <2>1. \A n \in 1 .. N : n - 1 \in 0 .. N
    OBVIOUS
  <2> QED
    BY <1>5, <1>6, <2>1 DEF Iterates
<1>8. Is(f)
  BY <1>6, <1>7 DEF Iterates
<1>9. Is(after)
  <2> HIDE DEF Is
  <2> QED BY <1>8, Zenon
<1>10. Visited(vw) = after[N]
  BY <1>2, Zenon DEF Visited, named
<1> HIDE DEF after
<1>11. after[0] = vw /\ \A n \in 1 .. N : after[n] = Loaded(after[n - 1], named[n])
  <2>1. 0 \in 0 .. N /\ \A n \in 1 .. N : n \in 0 .. N /\ n # 0
    OBVIOUS
  <2> QED
    BY <1>9, <2>1
<1> DEFINE S == {n \in 0 .. N : after[n] \in T}
<1>12. 0 .. N \subseteq S
  <2>1. 0 \in S
    BY <1>4, <1>11
  <2>2. ASSUME NEW n \in 1 .. N, n - 1 \in S PROVE n \in S
    BY <1>3, <1>11, <2>2
  <2> HIDE DEF S
  <2> QED BY <2>1, <2>2, UpTo
<1>13. after[N] \in T
  BY <1>12
<1> QED
  BY <1>10, <1>13 DEF T

LEMMA CountedIs ==
    ASSUME use \in Use, NEW vw \in Memory, Orderly(vw), NEW files \in Rows
    PROVE  Reads([vw |-> vw, files |-> files], Counted(vw, files))
<1> DEFINE x == [vw |-> vw, files |-> files]
           T == {y \in Load : Reads(x, y)}
<1>1. x \in Load /\ x.vw = vw
  BY DEF Load
<1>2. PICK N \in Nat : N = Len(vw.index) /\ \A n \in 1 .. N : FPartOf[vw.index[n]] \in FPart
  <2>1. vw.index \in Seq(Question)
    BY DEF Memory
  <2> QED
    BY <2>1, PartitionsTyped
<1> DEFINE step == [n \in 1 .. N |-> [y \in T |-> FeedbackLoaded(y, FPartOf[vw.index[n]])]]
           Is(f) == f = [n \in 0 .. N |-> IF n = 0 THEN x
                                        ELSE FeedbackLoaded(f[n - 1], FPartOf[vw.index[n]])]
           after == CHOOSE f : Is(f)
<1>9. Counted(vw, files) = after[N]
  BY <1>2, Zenon DEF Counted
<1> HIDE DEF x
<1>3. ASSUME NEW n \in 1 .. N, NEW y \in T
      PROVE  FeedbackLoaded(y, FPartOf[vw.index[n]]) \in T
  <2>1. y \in Load /\ Orderly(y.vw) /\ Reads(x, y) /\ FPartOf[vw.index[n]] \in FPart
    BY <1>2 DEF Reads
  <2>2. Reads(y, FeedbackLoaded(y, FPartOf[vw.index[n]]))
    BY <2>1, ReadsOne
  <2>3. Reads(x, FeedbackLoaded(y, FPartOf[vw.index[n]]))
    BY <2>1, <2>2, ReadsAgain, Zenon
  <2> QED
    BY <2>3 DEF Reads
<1>4. x \in T
  BY <1>1, ReadsNone
<1>5. /\ step \in [1 .. N -> [T -> T]]
      /\ \A n \in 1 .. N : \A y \in T : step[n][y] = FeedbackLoaded(y, FPartOf[vw.index[n]])
  <2> HIDE DEF T
  <2> QED BY <1>3
<1> HIDE DEF step, T
<1>6. PICK f : Iterates(f, N, T, x, step)
  BY <1>4, <1>5, Iteration, Zenon
<1>7. \A n \in 1 .. N : f[n] = FeedbackLoaded(f[n - 1], FPartOf[vw.index[n]])
  <2>1. \A n \in 1 .. N : n - 1 \in 0 .. N
    OBVIOUS
  <2> QED
    BY <1>5, <1>6, <2>1 DEF Iterates
<1>8. Is(f)
  BY <1>6, <1>7 DEF Iterates
<1>10. Is(after)
  <2> HIDE DEF Is
  <2> QED BY <1>8, Zenon
<1> HIDE DEF after
<1>11. after[0] = x /\ \A n \in 1 .. N : after[n] = FeedbackLoaded(after[n - 1], FPartOf[vw.index[n]])
  <2>1. 0 \in 0 .. N /\ \A n \in 1 .. N : n \in 0 .. N /\ n # 0
    OBVIOUS
  <2> QED
    BY <1>10, <2>1
<1> DEFINE S == {n \in 0 .. N : after[n] \in T}
<1>12. 0 .. N \subseteq S
  <2>1. 0 \in S
    BY <1>4, <1>11
  <2>2. ASSUME NEW n \in 1 .. N, n - 1 \in S PROVE n \in S
    BY <1>3, <1>11, <2>2
  <2> HIDE DEF S
  <2> QED BY <2>1, <2>2, UpTo
<1>13. after[N] \in T
  BY <1>12
<1> QED
  BY <1>9, <1>13 DEF T, x

-----------------------------------------------------------------------------
(***************************************************************************)
(* The invariant, one part for each theorem.                               *)
(***************************************************************************)

\* Who holds the lock, and what the state of session s says of its view.
ControlOf(s) ==
    /\ pc[s] \in {"merged", "headed"} <=> lock = s
    /\ pc[s] # "down" => s \in use.sessions
    /\ pc[s] \in {"idle", "reserved", "counted", "saved"} => ViewOf[s] \in live
    /\ pc[s] = "reserved" <=> held[s] # 0
    /\ lock = s => (commit.opening <=> ViewOf[s] \notin live)

Control ==
    /\ \A s \in Session : ControlOf(s)
    /\ \A v \in View \ live : view[v] = EmptyView

\* Every id with a body, in the files, in a view or in a save under way, was named
\* by a header or is below the counter that ids are handed out from.
IdsOnDisk ==
    /\ \A t \in Tid : disk.shard[t] # {} => t \in everMapped
    /\ disk.head.map \subseteq everMapped
    /\ \A t \in everMapped : t < disk.head.next

IdsInViews ==
    /\ \A v \in View : \A t \in Tid :
        view[v].body[t] # {} => t \in everMapped \/ t < view[v].head.next
    /\ \A s \in Session : held[s] < view[ViewOf[s]].head.next

IdsInCommit == lock # None =>
    /\ \A t \in commit.head.map : t < commit.head.next
    /\ disk.head.next <= commit.head.next
    /\ \A t \in Tid : commit.body[t] # {} => t \in commit.head.map \cup everMapped
    /\ pc[lock] = "headed" => commit.head.map \subseteq everMapped

Ids == IdsOnDisk /\ IdsInViews /\ IdsInCommit

\* The files of a save under way: what is not to be replaced any more is as the
\* merged view has it, and a repair has no row without a body nor the reverse.
Replaced == lock # None =>
    /\ \A t \in Tid : PartOf[t] \notin commit.parts => disk.shard[t] = commit.body[t]
    /\ pc[lock] = "headed" => disk.head = commit.head
    /\ commit.opening => \A t \in Tid : commit.body[t] # {} <=> t \in commit.head.map

Accounted == CacheHoldsFeedback =>
    /\ HeaderFirst
    /\ lock # None /\ pc[lock] = "headed" => Marks(commit.body) \cup Marks(commit.rows) \subseteq headed

\* Of a session that is alone: the id it has reserved is new, and after a save its
\* view has nothing to save.
OneSession(s) ==
    /\ pc[s] = "reserved" =>
        held[s] \notin everMapped /\ view[ViewOf[s]].body[held[s]] = {}
    /\ pc[s] = "saved" => view[ViewOf[s]].dirty = {} /\ view[ViewOf[s]].fdirty = {}

Single == Alone => \A s \in use.sessions : OneSession(s)

\* Mark m is one of template t, somewhere.
About(m, t) ==
    \/ m \in disk.shard[t]
    \/ \E v \in View : m \in view[v].body[t]
    \/ lock # None /\ m \in commit.body[t]

AboutFeedback(m, q) ==
    \/ m \in disk.fshard[q]
    \/ \E v \in View : m \in view[v].rows[q]
    \/ lock # None /\ m \in commit.rows[q]

\* The marks that are somewhere.
Placed == {m \in Mark : \/ \E t \in Tid : About(m, t)
                        \/ \E q \in Question : AboutFeedback(m, q)}

\* A mark is handed out once and stays with the template or question it was put to.
OnePlace ==
    /\ \A m \in Mark : \A t \in Tid : About(m, t) =>
        /\ m <= used
        /\ \A u \in Tid : About(m, u) => u = t
        /\ \A q \in Question : ~ AboutFeedback(m, q)
    /\ \A m \in Mark : \A q \in Question : AboutFeedback(m, q) => m <= used
    /\ \A s \in Session : drop[s] \subseteq {m \in Mark : m <= used}

\* Mark m of template t is safe with session s: it is in the view where its
\* partition is cached, in the files where the view has not changed it, and in
\* what a save is about to write.
SafeTemplate(s, m, t) ==
    LET vw == view[ViewOf[s]] IN
    /\ PartOf[t] \in ToSet(vw.cache) => m \in vw.body[t]
    /\ PartOf[t] \notin vw.dirty \/ m \in durable => m \in disk.shard[t] /\ t \in disk.head.map
    /\ lock # None => m \in commit.body[t] /\ t \in commit.head.map

SafeFeedback(s, m, q) ==
    LET vw == view[ViewOf[s]] IN
    /\ FPartOf[q] \in ToSet(vw.fcache) => m \in vw.rows[q]
    /\ FPartOf[q] \notin vw.fdirty \/ m \in durable => m \in disk.fshard[q] /\ q \in disk.head.index
    /\ lock # None => m \in commit.rows[q] /\ q \in commit.head.index

IsSafe(s, m) ==
    \/ \E t \in Tid : SafeTemplate(s, m, t)
    \/ \E q \in Question : SafeFeedback(s, m, q)

\* A feedback shard that a save is not to replace any more is as it has it.
RowsReplaced == lock # None =>
    \A q \in Question : FPartOf[q] \notin commit.fparts => disk.fshard[q] = commit.rows[q]

Safe == Alone /\ CacheHoldsFeedback =>
    /\ RowsReplaced
    /\ \A s \in use.sessions : \A m \in keep[s] \cup durable : IsSafe(s, m)

\* No mark is owed or durable before it is handed out.
HandedOut ==
    /\ durable \subseteq 1 .. used
    /\ \A s \in Session : keep[s] \subseteq 1 .. used

\* What a session removed is in its view no more, and in the files only where the
\* view has changes to save.
GoneFrom(s, m, t) ==
    /\ m \notin view[ViewOf[s]].body[t]
    /\ PartOf[t] \in view[ViewOf[s]].dirty \/ m \notin disk.shard[t]
    /\ lock # None => m \notin commit.body[t]

IsGone(s, m) ==
    /\ \A q \in Question : ~ AboutFeedback(m, q)
    /\ \A t \in Tid : GoneFrom(s, m, t)

Gone == Alone /\ ~ May("forget") =>
    \A s \in use.sessions : \A m \in drop[s] : IsGone(s, m)
-----------------------------------------------------------------------------
LEMMA UseTyped ==
    ASSUME use \in Use
    PROVE  /\ use.sessions \subseteq Session /\ use.lruMax \in Nat \ {0} /\ use.ids \in Tid
           /\ use.marks \in 0 .. MaxMarks /\ use.failures \in 0 .. MaxFailures
           /\ MaxMarks \in Nat /\ MaxFailures \in Nat /\ MaxId \in Nat \ {0}
           /\ use.operations \subseteq {"put", "improve", "remove", "record", "forget"}
BY BoundAssumption, PartitionAssumption

LEMMA EmptyViewIs ==
    ASSUME use \in Use
    PROVE  EmptyView \in Memory /\ Orderly(EmptyView)
<1>1. EmptyView \in Memory
  BY DEF EmptyView, Memory, Bodies, Rows, NoBodies, NoRows, Counter
<1>2. IsInjective(<< >>) /\ ToSet(<< >>) = {}
  BY DEF IsInjective, ToSet
<1> QED
  BY <1>1, <1>2, UseTyped DEF EmptyView, Orderly

\* A view read from the header has no partition cached.
LEMMA FromHeaderIs ==
    ASSUME use \in Use, disk \in Files
    PROVE  /\ FromHeader \in Memory /\ Orderly(FromHeader)
           /\ FromHeader.head = [map |-> disk.head.map \ Orphans, next |-> disk.head.next]
           /\ FromHeader.cache = << >> /\ FromHeader.dirty = {} /\ FromHeader.body = NoBodies
           /\ FromHeader.fcache = << >> /\ FromHeader.fdirty = {} /\ FromHeader.rows = NoRows
<1>1. /\ disk.head.map \subseteq Tid /\ disk.head.next \in Counter
      /\ disk.head.index \in SUBSET Question
  BY DEF Files, Header
<1> DEFINE list == SetToSeq(disk.head.index)
           h == [map |-> disk.head.map \ Orphans, next |-> disk.head.next]
           y == [EmptyView EXCEPT !.head = h, !.index = list]
<1>2. list \in Seq(Question) /\ IsInjective(list)
  <2>1. IsFiniteSet(disk.head.index)
    BY <1>1, PartitionAssumption, FS_Subset
  <2>2. list \in Seq(disk.head.index) /\ IsInjective(list)
    BY <2>1, ListingIs
  <2> QED
    BY <1>1, <2>2
<1>3. FromHeader = y
  BY DEF FromHeader, Repaired
<1> HIDE DEF list
<1>4. h \in [map : SUBSET Tid, next : Counter]
  BY <1>1
<1>5. EmptyView \in Memory /\ Orderly(EmptyView)
  BY EmptyViewIs
<1>6. /\ y \in Memory /\ y.head = h /\ y.index = list
      /\ y.cache = EmptyView.cache /\ y.dirty = EmptyView.dirty /\ y.body = EmptyView.body
      /\ y.fcache = EmptyView.fcache /\ y.fdirty = EmptyView.fdirty /\ y.rows = EmptyView.rows
  BY <1>2, <1>4, <1>5 DEF Memory
<1> HIDE DEF y
<1>7. Orderly(y)
  BY <1>2, <1>5, <1>6 DEF Orderly
<1> QED
  BY <1>3, <1>6, <1>7 DEF EmptyView

\* What a view that has just been opened is: it agrees with the files, or with what
\* the repair has made of them.
IsFresh(y) ==
    /\ y.head = [map |-> disk.head.map \ Orphans, next |-> disk.head.next]
    /\ y.dirty = {}
    /\ \A t \in Tid : /\ y.body[t] \in {disk.shard[t], {}}
                      /\ PartOf[t] \in ToSet(y.cache) => y.body[t] = disk.shard[t]
    /\ \A q \in Question : y.rows[q] \subseteq disk.fshard[q]
    /\ CacheHoldsFeedback =>
        /\ y.fdirty = {}
        /\ \A q \in Question : FPartOf[q] \in ToSet(y.fcache) => y.rows[q] = disk.fshard[q]

LEMMA OpenedIs ==
    ASSUME use \in Use, disk \in Files, NEW vw, vw \in {FromHeader, Visited(FromHeader)},
           NEW y, y = Counted(vw, disk.fshard).vw
    PROVE  y \in Memory /\ Orderly(y) /\ IsFresh(y)
<1> DEFINE h == FromHeader
           x == [vw |-> vw, files |-> disk.fshard]
           z == Counted(vw, disk.fshard)
<1>1. /\ h \in Memory /\ Orderly(h)
      /\ h.head = [map |-> disk.head.map \ Orphans, next |-> disk.head.next]
      /\ h.cache = << >> /\ h.dirty = {} /\ h.body = NoBodies
      /\ h.fcache = << >> /\ h.fdirty = {} /\ h.rows = NoRows
  BY FromHeaderIs
<1> HIDE DEF h
<1>2. Loads(h, vw)
  <2>1. Loads(h, h)
    BY <1>1, LoadsNone
  <2>2. Loads(h, Visited(h))
    BY <1>1, VisitedIs
  <2> QED
    BY <2>1, <2>2 DEF h
<1>3. disk.fshard \in Rows /\ vw \in Memory /\ Orderly(vw)
  BY <1>2 DEF Files, Loads
<1>4. Reads(x, z)
  BY <1>3, CountedIs
<1>5. x.vw = vw /\ x.files = disk.fshard /\ y = z.vw
  OBVIOUS
<1> HIDE DEF x, z
<1>6. ToSet(<< >>) = {}
  BY DEF ToSet
<1>7. \A t \in Tid : /\ y.body[t] \in {disk.shard[t], {}}
                     /\ PartOf[t] \in ToSet(y.cache) => y.body[t] = disk.shard[t]
  BY <1>1, <1>2, <1>4, <1>5, <1>6 DEF Loads, Reads, NoBodies
<1>8. \A q \in Question : y.rows[q] \subseteq disk.fshard[q]
  BY <1>1, <1>2, <1>4, <1>5 DEF Loads, Reads, NoRows
<1>9. CacheHoldsFeedback =>
        /\ y.fdirty = {}
        /\ \A q \in Question : FPartOf[q] \in ToSet(y.fcache) => y.rows[q] = disk.fshard[q]
  BY <1>1, <1>2, <1>4, <1>5, <1>6 DEF Loads, Reads, Retains
<1>10. /\ y \in Memory /\ Orderly(y) /\ y.dirty = {}
       /\ y.head = [map |-> disk.head.map \ Orphans, next |-> disk.head.next]
  BY <1>1, <1>2, <1>4, <1>5 DEF Loads, Reads, Load
<1> QED
  BY <1>7, <1>8, <1>9, <1>10 DEF IsFresh

\* From vw to y the body of t becomes marks, once its partition is in the cache as
\* there has it.
Changes(vw, there, y, t, marks) ==
    /\ Loads(vw, there) /\ PartOf[t] \in ToSet(there.cache)
    /\ y \in Memory /\ Orderly(y)
    /\ y.head.next = vw.head.next /\ y.index = vw.index
    /\ y.fcache = vw.fcache /\ y.fdirty = vw.fdirty /\ y.rows = vw.rows
    /\ y.cache = there.cache /\ y.dirty = vw.dirty \cup {PartOf[t]}
    /\ y.body[t] = marks /\ \A u \in Tid : u # t => y.body[u] = there.body[u]

LEMMA ChangesOne ==
    ASSUME NEW vw, NEW there, Loads(vw, there), NEW t \in Tid, PartOf[t] \in ToSet(there.cache),
           NEW marks \in SUBSET Mark, NEW map \in SUBSET Tid, NEW y,
           y = [there EXCEPT !.body[t] = marks, !.dirty = @ \cup {PartOf[t]}, !.head.map = map]
    PROVE  Changes(vw, there, y, t, marks)
<1> DEFINE nb == [there.body EXCEPT ![t] = marks]
           nd == there.dirty \cup {PartOf[t]}
           nh == [there.head EXCEPT !.map = map]
           new == [there EXCEPT !.body = nb, !.dirty = nd, !.head = nh]
<1>1. /\ there \in Memory /\ Orderly(there) /\ there.head = vw.head /\ there.index = vw.index
      /\ there.dirty = vw.dirty /\ there.fcache = vw.fcache /\ there.fdirty = vw.fdirty
      /\ there.rows = vw.rows
  BY DEF Loads
<1>2. /\ there.body \in Bodies /\ there.dirty \subseteq Part
      /\ there.head \in [map : SUBSET Tid, next : Counter]
  BY <1>1 DEF Memory
<1>3. y = new
  BY <1>1 DEF Memory
<1>4. nb \in Bodies /\ nb[t] = marks /\ \A u \in Tid : u # t => nb[u] = there.body[u]
  BY <1>2 DEF Bodies
<1>5. nh \in [map : SUBSET Tid, next : Counter] /\ nh.next = there.head.next
  BY <1>2
<1>6. nd \in SUBSET Part
  BY <1>2, PartitionsTyped
<1> HIDE DEF nb, nh, nd
<1>7. /\ new \in Memory /\ new.body = nb /\ new.dirty = nd /\ new.head = nh
      /\ new.cache = there.cache /\ new.index = there.index /\ new.fcache = there.fcache
      /\ new.fdirty = there.fdirty /\ new.rows = there.rows
  BY <1>1, <1>4, <1>5, <1>6 DEF Memory
<1> HIDE DEF new
<1>8. nd \subseteq ToSet(there.cache) /\ nd = vw.dirty \cup {PartOf[t]}
  BY <1>1 DEF nd, Orderly
<1>9. Orderly(y)
  BY <1>1, <1>3, <1>7, <1>8 DEF Orderly
<1> QED
  BY <1>1, <1>3, <1>4, <1>5, <1>7, <1>8, <1>9 DEF Changes

\* set_template_raw_dict
LEMMA StoredIs ==
    ASSUME NEW vw \in Memory, Orderly(vw), disk \in Files, NEW t \in Tid,
           NEW marks \in SUBSET Mark
    PROVE  Changes(vw, Loaded(vw, PartOf[t]), Stored(vw, t, marks), t, marks)
<1>1. PICK there : there = Loaded(vw, PartOf[t])
  OBVIOUS
<1>2. Loads(vw, there) /\ PartOf[t] \in ToSet(there.cache)
  BY <1>1, PartitionsTyped, LoadsOne
<1>3. there.head.map \cup {t} \in SUBSET Tid
  BY <1>2 DEF Loads, Memory
<1>4. Stored(vw, t, marks) = [there EXCEPT !.body[t] = marks, !.dirty = @ \cup {PartOf[t]},
                                           !.head.map = there.head.map \cup {t}]
  BY <1>1 DEF Stored
<1> QED
  BY <1>1, <1>2, <1>3, <1>4, ChangesOne

\* The view that remove_template_id takes a template from.
Holding(vw, t) == IF PartOf[t] \in ToSet(vw.cache) THEN vw ELSE Loaded(vw, PartOf[t])

LEMMA RemovedIs ==
    ASSUME NEW vw \in Memory, Orderly(vw), disk \in Files, NEW t \in Tid, NEW there,
           there = Holding(vw, t)
    PROVE  Changes(vw, there, [there EXCEPT !.body[t] = {}, !.dirty = @ \cup {PartOf[t]},
                                            !.head.map = @ \ {t}], t, {})
<1>1. Loads(vw, there) /\ PartOf[t] \in ToSet(there.cache)
  BY PartitionsTyped, LoadsOne, LoadsNone DEF Holding
<1>2. there.head.map \ {t} \in SUBSET Tid
  BY <1>1 DEF Loads, Memory
<1> DEFINE y == [there EXCEPT !.body[t] = {}, !.dirty = @ \cup {PartOf[t]}, !.head.map = @ \ {t}]
<1>3. y = [there EXCEPT !.body[t] = {}, !.dirty = @ \cup {PartOf[t]},
                        !.head.map = there.head.map \ {t}]
  OBVIOUS
<1> HIDE DEF y
<1>4. Changes(vw, there, y, t, {})
  BY <1>1, <1>2, <1>3, ChangesOne
<1> QED
  BY <1>4 DEF y

\* The same for the rows of a question; the list of questions may change too.
ChangesFeedback(x, there, y, q, marks) ==
    /\ Reads(x, there) /\ FPartOf[q] \in ToSet(there.vw.fcache)
    /\ y \in Memory /\ Orderly(y)
    /\ y.head = x.vw.head
    /\ y.cache = x.vw.cache /\ y.dirty = x.vw.dirty /\ y.body = x.vw.body
    /\ y.fcache = there.vw.fcache /\ y.fdirty = there.vw.fdirty \cup {FPartOf[q]}
    /\ y.rows[q] = marks /\ \A r \in Question : r # q => y.rows[r] = there.vw.rows[r]

LEMMA ChangesFeedbackOne ==
    ASSUME NEW x, NEW there, Reads(x, there), NEW q \in Question,
           FPartOf[q] \in ToSet(there.vw.fcache), NEW marks \in SUBSET Mark,
           NEW list \in Seq(Question), IsInjective(list), NEW y,
           y = [there.vw EXCEPT !.index = list, !.rows[q] = marks, !.fdirty = @ \cup {FPartOf[q]}]
    PROVE  ChangesFeedback(x, there, y, q, marks)
<1> DEFINE vw == there.vw
           nr == [vw.rows EXCEPT ![q] = marks]
           nd == vw.fdirty \cup {FPartOf[q]}
           new == [vw EXCEPT !.index = list, !.rows = nr, !.fdirty = nd]
<1>1. /\ vw \in Memory /\ Orderly(vw) /\ vw.head = x.vw.head /\ vw.cache = x.vw.cache
      /\ vw.dirty = x.vw.dirty /\ vw.body = x.vw.body
  BY DEF Reads, Load
<1>2. vw.rows \in Rows /\ vw.fdirty \subseteq FPart
  BY <1>1 DEF Memory
<1>3. y = new
  BY <1>1 DEF Memory
<1>4. nr \in Rows /\ nr[q] = marks /\ \A r \in Question : r # q => nr[r] = vw.rows[r]
  BY <1>2 DEF Rows
<1>5. nd \in SUBSET FPart
  BY <1>2, PartitionsTyped
<1> HIDE DEF nr, nd
<1>6. /\ new \in Memory /\ new.index = list /\ new.rows = nr /\ new.fdirty = nd
      /\ new.head = vw.head /\ new.cache = vw.cache /\ new.dirty = vw.dirty
      /\ new.body = vw.body /\ new.fcache = vw.fcache
  BY <1>1, <1>4, <1>5 DEF Memory
<1> HIDE DEF new
<1>7. nd \subseteq ToSet(vw.fcache) /\ nd = vw.fdirty \cup {FPartOf[q]}
  BY <1>1 DEF nd, Orderly
<1>8. Orderly(y)
  BY <1>1, <1>3, <1>6, <1>7 DEF Orderly
<1> QED
  BY <1>1, <1>3, <1>4, <1>6, <1>7, <1>8 DEF ChangesFeedback
-----------------------------------------------------------------------------
(***************************************************************************)
(* What each operation does to the view of its session.                    *)
(***************************************************************************)

\* The view of s becomes y, the others stay.
Becomes(s, y) ==
    /\ view' \in [View -> Memory] /\ view'[ViewOf[s]] = y
    /\ \A w \in View : w # ViewOf[s] => view'[w] = view[w]
    /\ \A w \in View : Orderly(view'[w])

LEMMA BecomesIs ==
    ASSUME TypeOK, NEW s \in Session, NEW y \in Memory, Orderly(y),
           view' = [view EXCEPT ![ViewOf[s]] = y]
    PROVE  Becomes(s, y)
<1>1. ViewOf[s] \in View
  BY SessionAssumption
<1> QED
  BY <1>1 DEF TypeOK, Becomes

LEMMA ViewTyped ==
    ASSUME TypeOK, NEW s \in Session
    PROVE  ViewOf[s] \in View /\ view[ViewOf[s]] \in Memory /\ Orderly(view[ViewOf[s]])
BY SessionAssumption DEF TypeOK

LEMMA FreshTyped ==
    ASSUME TypeOK, used < use.marks
    PROVE  Fresh \in Mark /\ Fresh \in 0 .. MaxMarks /\ Fresh = used + 1 /\ used \in Nat
BY UseTyped DEF TypeOK, Fresh, Mark

LEMMA PutNewIs ==
    ASSUME TypeOK, Control, NEW s \in Session, PutNew(s)
    PROVE  /\ held[s] \in Tid
           /\ \E y : /\ Becomes(s, y)
                     /\ Changes(view[ViewOf[s]], Loaded(view[ViewOf[s]], PartOf[held[s]]), y,
                               held[s], {Fresh})
<1> DEFINE y == Stored(view[ViewOf[s]], held[s], {Fresh})
<1>1. held[s] \in Tid
  <2>1. pc[s] = "reserved" /\ held[s] \in 0 .. MaxId /\ held[s] # 0
    BY DEF PutNew, At, Control, ControlOf, TypeOK
  <2> QED
    BY <2>1, PartitionAssumption DEF Tid
<1>2. {Fresh} \in SUBSET Mark
  BY FreshTyped DEF PutNew, Owe
<1>3. Changes(view[ViewOf[s]], Loaded(view[ViewOf[s]], PartOf[held[s]]), y, held[s], {Fresh})
  BY <1>1, <1>2, StoredIs, ViewTyped DEF TypeOK
<1>4. view' = [view EXCEPT ![ViewOf[s]] = y]
  BY DEF PutNew
<1> HIDE DEF y
<1>5. Becomes(s, y)
  BY <1>3, <1>4, BecomesIs DEF Changes
<1> QED
  BY <1>1, <1>3, <1>5

LEMMA ImproveIs ==
    ASSUME TypeOK, NEW s \in Session, NEW t \in Tid, Improve(s, t), NEW there,
           there = Loaded(view[ViewOf[s]], PartOf[t])
    PROVE  \E y : /\ Becomes(s, y)
                  /\ Changes(view[ViewOf[s]], there, y, t, there.body[t] \cup {Fresh})
<1> DEFINE y == Stored(view[ViewOf[s]], t, there.body[t] \cup {Fresh})
<1>1. Loads(view[ViewOf[s]], there)
  BY LoadsOne, ViewTyped, PartitionsTyped DEF TypeOK
<1>2. there.body[t] \cup {Fresh} \in SUBSET Mark
  <2>1. Fresh \in Mark
    BY FreshTyped DEF Improve, Owe
  <2>2. there.body[t] \in SUBSET Mark
    BY <1>1 DEF Loads, Memory, Bodies
  <2> QED
    BY <2>1, <2>2
<1>3. Changes(view[ViewOf[s]], there, y, t, there.body[t] \cup {Fresh})
  BY <1>2, StoredIs, ViewTyped DEF TypeOK
<1>4. view' = [view EXCEPT ![ViewOf[s]] = y]
  BY DEF Improve
<1> HIDE DEF y
<1>5. Becomes(s, y)
  BY <1>3, <1>4, BecomesIs DEF Changes
<1> QED
  BY <1>3, <1>5

LEMMA RemoveTemplateIs ==
    ASSUME TypeOK, NEW s \in Session, NEW t \in Tid, RemoveTemplate(s, t), NEW there,
           there = Holding(view[ViewOf[s]], t)
    PROVE  /\ \E y : Becomes(s, y) /\ Changes(view[ViewOf[s]], there, y, t, {})
           /\ Withdraw(s, there.body[t])
<1> DEFINE y == [there EXCEPT !.body[t] = {}, !.dirty = @ \cup {PartOf[t]}, !.head.map = @ \ {t}]
<1>1. Changes(view[ViewOf[s]], there, y, t, {})
  BY RemovedIs, ViewTyped DEF TypeOK
<1>2. view' = [view EXCEPT ![ViewOf[s]] = y] /\ Withdraw(s, there.body[t])
  BY DEF RemoveTemplate, Holding
<1> HIDE DEF y
<1>3. Becomes(s, y)
  BY <1>1, <1>2, BecomesIs DEF Changes
<1> QED
  BY <1>1, <1>2, <1>3

\* What a session sees of the feedback: its view and the files.
Seen(s) == [vw |-> view[ViewOf[s]], files |-> disk.fshard]

LEMMA SeenTyped ==
    ASSUME TypeOK, NEW s \in Session
    PROVE  /\ Seen(s) \in Load /\ Orderly(Seen(s).vw)
           /\ Seen(s).vw = view[ViewOf[s]] /\ Seen(s).files = disk.fshard
<1>1. view[ViewOf[s]] \in Memory /\ Orderly(view[ViewOf[s]]) /\ disk.fshard \in Rows
  BY ViewTyped DEF TypeOK, Files
<1> QED
  BY <1>1 DEF Seen, Load

\* Only the feedback shards on disk become files.
Flushes(files) ==
    /\ disk' \in Files /\ disk'.fshard = files
    /\ disk'.head = disk.head /\ disk'.shard = disk.shard

LEMMA FlushesIs ==
    ASSUME TypeOK, NEW files \in Rows, disk' = [disk EXCEPT !.fshard = files]
    PROVE  Flushes(files)
BY DEF TypeOK, Files, Flushes

LEMMA RecordFeedbackIs ==
    ASSUME TypeOK, NEW s \in Session, NEW q \in Question, RecordFeedback(s, q), NEW there,
           there = FeedbackLoaded(Seen(s), FPartOf[q])
    PROVE  /\ \E y : /\ Becomes(s, y)
                     /\ ChangesFeedback(Seen(s), there, y, q, there.vw.rows[q] \cup {Fresh})
           /\ Flushes(there.files)
<1> DEFINE list == IF q \in ToSet(there.vw.index) THEN there.vw.index ELSE Append(there.vw.index, q)
           marks == there.vw.rows[q] \cup {Fresh}
           y == [there.vw EXCEPT !.index = list, !.rows[q] = marks, !.fdirty = @ \cup {FPartOf[q]}]
<1>1. Reads(Seen(s), there) /\ FPartOf[q] \in ToSet(there.vw.fcache)
  BY SeenTyped, PartitionsTyped, ReadsOne DEF TypeOK
<1>2. /\ there.vw.index \in Seq(Question) /\ IsInjective(there.vw.index)
      /\ there.vw.rows \in Rows /\ there.files \in Rows
  BY <1>1 DEF Reads, Load, Memory, Orderly
<1>3. list \in Seq(Question) /\ IsInjective(list)
  BY <1>2, AppendIs
<1>4. marks \in SUBSET Mark
  <2>1. Fresh \in Mark
    BY FreshTyped DEF RecordFeedback, Owe
  <2>2. there.vw.rows[q] \in SUBSET Mark
    BY <1>2 DEF Rows
  <2> QED
    BY <2>1, <2>2
<1>5. view' = [view EXCEPT ![ViewOf[s]] = y] /\ disk' = [disk EXCEPT !.fshard = there.files]
  BY DEF RecordFeedback, Seen
<1> HIDE DEF list, marks
<1>6. ChangesFeedback(Seen(s), there, y, q, marks)
  BY <1>1, <1>3, <1>4, ChangesFeedbackOne
<1> HIDE DEF y
<1>7. Becomes(s, y)
  BY <1>5, <1>6, BecomesIs DEF ChangesFeedback
<1>8. Flushes(there.files)
  BY <1>2, <1>5, FlushesIs
<1> QED
  BY <1>6, <1>7, <1>8 DEF marks

\* The view that _remove_feedback_question_key takes a question from.
HoldingFeedback(x, q) ==
    IF FPartOf[q] \in ToSet(x.vw.fcache) THEN x ELSE FeedbackLoaded(x, FPartOf[q])

LEMMA ForgetFeedbackIs ==
    ASSUME TypeOK, NEW s \in Session, NEW q \in Question, ForgetFeedback(s, q), NEW there,
           there = HoldingFeedback(Seen(s), q)
    PROVE  /\ \E y : Becomes(s, y) /\ ChangesFeedback(Seen(s), there, y, q, {})
           /\ Flushes(there.files)
           /\ Withdraw(s, there.vw.rows[q])
<1> DEFINE list == Without(there.vw.index, q)
           y == [there.vw EXCEPT !.index = list, !.rows[q] = {}, !.fdirty = @ \cup {FPartOf[q]}]
<1>1. Reads(Seen(s), there) /\ FPartOf[q] \in ToSet(there.vw.fcache)
  BY SeenTyped, PartitionsTyped, ReadsOne, ReadsNone DEF TypeOK, HoldingFeedback
<1>2. /\ there.vw.index \in Seq(Question) /\ IsInjective(there.vw.index) /\ there.files \in Rows
  BY <1>1 DEF Reads, Load, Memory, Orderly
<1>3. list \in Seq(Question) /\ IsInjective(list)
  BY <1>2, WithoutIs
<1>4. /\ view' = [view EXCEPT ![ViewOf[s]] = y] /\ disk' = [disk EXCEPT !.fshard = there.files]
      /\ Withdraw(s, there.vw.rows[q])
  <2>1. Seen(s).vw = view[ViewOf[s]]
    BY SeenTyped
  <2> QED
    BY <2>1 DEF ForgetFeedback, Seen, HoldingFeedback
<1> HIDE DEF list
<1>5. ChangesFeedback(Seen(s), there, y, q, {})
  BY <1>1, <1>3, ChangesFeedbackOne
<1> HIDE DEF y
<1>6. Becomes(s, y)
  BY <1>4, <1>5, BecomesIs DEF ChangesFeedback
<1>7. Flushes(there.files)
  BY <1>2, <1>4, FlushesIs
<1> QED
  BY <1>4, <1>5, <1>6, <1>7

LEMMA CountRowsIs ==
    ASSUME TypeOK, NEW s \in Session, CountRows(s)
    PROVE  \E z, y : /\ Reads(Seen(s), z) /\ Loads(z.vw, y)
                     /\ Becomes(s, y) /\ Flushes(z.files)
<1> DEFINE z == Counted(view[ViewOf[s]], disk.fshard)
           y == Released(z.vw)
<1>1. Reads(Seen(s), z)
  BY CountedIs, ViewTyped, SeenTyped DEF TypeOK, Files, Seen
<1>2. view' = [view EXCEPT ![ViewOf[s]] = y] /\ disk' = [disk EXCEPT !.fshard = z.files]
  BY DEF CountRows
<1> HIDE DEF z
<1>3. z.vw \in Memory /\ Orderly(z.vw) /\ z.files \in Rows
  BY <1>1 DEF Reads, Load
<1>4. Loads(z.vw, y)
  BY <1>3, ReleasedIs
<1> HIDE DEF y
<1>5. Becomes(s, y)
  BY <1>2, <1>4, BecomesIs DEF Loads
<1>6. Flushes(z.files)
  BY <1>2, <1>3, FlushesIs
<1> QED
  BY <1>1, <1>4, <1>5, <1>6
-----------------------------------------------------------------------------
(***************************************************************************)
(* Ids and merges.                                                         *)
(***************************************************************************)

LEMMA Least ==
    ASSUME NEW U \in SUBSET Nat, U # {}
    PROVE  \E m \in U : \A k \in U : m <= k
<1> DEFINE R == {ss \in Nat \X Nat : ss[1] < ss[2]}
<1>1. IsWellFoundedOn(R, Nat)
  BY NatLessThanWellFounded DEF OpToRel
<1> HIDE DEF R
<1>2. \E m \in U : \A k \in U : ~ (<<k, m>> \in R)
  <2>1. U \subseteq Nat /\ U # {}
    OBVIOUS
  <2> QED
    BY <1>1, <2>1, WFMin, Zenon
<1>3. ASSUME NEW m \in U, \A k \in U : ~ (<<k, m>> \in R) PROVE \A k \in U : m <= k
  <2>1. SUFFICES ASSUME NEW k \in U PROVE m <= k
    OBVIOUS
  <2>2. k < m => <<k, m>> \in R
    BY DEF R
  <2> QED
    BY <1>3, <2>2
<1> QED
  BY <1>2, <1>3

LEMMA MaxIs ==
    ASSUME NEW S \in SUBSET Nat, S # {}, NEW n \in Nat, \A x \in S : x <= n
    PROVE  Max(S) \in S /\ \A x \in S : x <= Max(S)
<1> DEFINE U == {k \in Nat : \A x \in S : x <= k}
<1>1. U \in SUBSET Nat /\ n \in U
  OBVIOUS
<1>2. PICK m \in U : \A k \in U : m <= k
  BY <1>1, Least
<1>3. m \in S
  <2>1. SUFFICES ASSUME m \notin S PROVE FALSE
    OBVIOUS
  <2>2. m \in Nat /\ \A x \in S : x \in Nat /\ x <= m
    BY <1>2
  <2>3. \A x \in S : x <= m - 1
    BY <2>1, <2>2
  <2>4. PICK x \in S : TRUE
    OBVIOUS
  <2>5. m - 1 \in Nat
    BY <2>2, <2>3, <2>4
  <2>6. m - 1 \in U /\ ~ (m <= m - 1)
    BY <2>2, <2>3, <2>5
  <2> QED
    BY <1>2, <2>6
<1>4. \E x \in S : \A y \in S : x >= y
  BY <1>3
<1>5. Max(S) \in S /\ \A y \in S : Max(S) >= y
  BY <1>4, Zenon DEF Max
<1> QED
  BY <1>5

LEMMA NextIdIs ==
    ASSUME TypeOK, NEW vw \in Memory
    PROVE  /\ NextId(vw) \in Counter /\ vw.head.next <= NextId(vw)
           /\ disk.head.next <= NextId(vw)
<1> DEFINE S == {vw.head.next, disk.head.next} \cup {t + 1 : t \in disk.head.map}
<1>1. /\ vw.head.next \in Counter /\ disk.head.next \in Counter /\ disk.head.map \subseteq Tid
      /\ MaxId \in Nat
  BY PartitionAssumption DEF TypeOK, Files, Header, Memory
<1>2. S \in SUBSET Nat /\ S # {}
  BY <1>1 DEF Counter, Tid
<1>3. \A x \in S : x <= vw.head.next + disk.head.next + MaxId + 1
  BY <1>1 DEF Counter, Tid
<1>4. vw.head.next + disk.head.next + MaxId + 1 \in Nat
  BY <1>1 DEF Counter
<1>5. vw.head.next \in S /\ disk.head.next \in S
  OBVIOUS
<1>6. NextId(vw) = Max(S)
  BY DEF NextId
<1>8. 0 \notin S
  BY <1>1 DEF Counter, Tid
<1> HIDE DEF S
<1>7. Max(S) \in S /\ \A x \in S : x <= Max(S)
  <2>1. PICK n \in Nat : \A x \in S : x <= n
    BY <1>3, <1>4
  <2> QED
    BY <1>2, <2>1, MaxIs
<1>9. Max(S) \in Counter
  BY <1>2, <1>7, <1>8 DEF Counter
<1> QED
  BY <1>5, <1>6, <1>7, <1>9

LEMMA MaxOfTwo ==
    ASSUME NEW a \in Nat, NEW b \in Nat
    PROVE  Max({a, b}) \in {a, b} /\ a <= Max({a, b}) /\ b <= Max({a, b})
<1>1. \A x \in {a, b} : x <= a + b
  OBVIOUS
<1> QED
  BY <1>1, MaxIs

\* What a merge of view vw into the files is.
Merges(vw, m) ==
    /\ m \in Merged
    /\ disk.head.next <= m.head.next /\ vw.head.next <= m.head.next
    /\ m.parts = vw.dirty /\ m.fparts = vw.fdirty /\ m.opening = FALSE
    /\ \A t \in Tid :
         /\ PartOf[t] \in vw.dirty => m.body[t] = vw.body[t]
         /\ PartOf[t] \notin vw.dirty => m.body[t] = disk.shard[t]
         /\ t \in m.head.map <=>
             \/ PartOf[t] \in vw.dirty /\ vw.body[t] # {}
             \/ t \in disk.head.map
                /\ ~ (PartOf[t] \in vw.dirty /\ vw.body[t] = {} /\ disk.shard[t] # {})
    /\ disk.head.index \subseteq m.head.index
    /\ \A q \in Question :
         \/ /\ FPartOf[q] \in vw.fdirty /\ vw.rows[q] # {}
            /\ m.rows[q] = vw.rows[q] /\ q \in m.head.index
         \/ /\ ~ (FPartOf[q] \in vw.fdirty /\ vw.rows[q] # {})
            /\ m.rows[q] = disk.fshard[q]

LEMMA MergeIs ==
    ASSUME TypeOK, NEW vw \in Memory, NEW m, m = Merge(vw)
    PROVE  Merges(vw, m)
<1> DEFINE changed == {t \in Tid : PartOf[t] \in vw.dirty}
           gone == {t \in changed : vw.body[t] = {} /\ disk.shard[t] # {}}
           put == {t \in changed : vw.body[t] # {}}
           asked == {q \in Question : FPartOf[q] \in vw.fdirty /\ vw.rows[q] # {}}
           map == (disk.head.map \ gone) \cup put
           next == Max({disk.head.next, vw.head.next})
           index == disk.head.index \cup asked
           body == [t \in Tid |-> IF t \in changed THEN vw.body[t] ELSE disk.shard[t]]
           rows == [q \in Question |-> IF q \in asked THEN vw.rows[q] ELSE disk.fshard[q]]
<1>1. m = [head |-> [map |-> map, next |-> next, index |-> index], body |-> body, rows |-> rows,
           parts |-> vw.dirty, fparts |-> vw.fdirty, opening |-> FALSE]
  BY DEF Merge
<1>2. /\ vw.head.next \in Counter /\ disk.head.next \in Counter /\ disk.head.map \subseteq Tid
      /\ disk.head.index \subseteq Question /\ vw.body \in Bodies /\ disk.shard \in Bodies
      /\ vw.rows \in Rows /\ disk.fshard \in Rows
      /\ vw.dirty \in SUBSET Part /\ vw.fdirty \in SUBSET FPart
  BY DEF TypeOK, Files, Header, Memory
<1>3. next \in Counter /\ disk.head.next <= next /\ vw.head.next <= next
  <2>1. disk.head.next \in Nat /\ vw.head.next \in Nat
    BY <1>2 DEF Counter
  <2>2. /\ next \in {disk.head.next, vw.head.next}
        /\ disk.head.next <= next /\ vw.head.next <= next
    BY <2>1, MaxOfTwo
  <2> QED
    BY <1>2, <2>2
<1>4. map \in SUBSET Tid /\ index \in SUBSET Question
  BY <1>2
<1>5. body \in Bodies /\ rows \in Rows
  BY <1>2 DEF Bodies, Rows
<1>6. \A t \in Tid :
        /\ PartOf[t] \in vw.dirty => body[t] = vw.body[t]
        /\ PartOf[t] \notin vw.dirty => body[t] = disk.shard[t]
        /\ t \in map <=>
            \/ PartOf[t] \in vw.dirty /\ vw.body[t] # {}
            \/ t \in disk.head.map
               /\ ~ (PartOf[t] \in vw.dirty /\ vw.body[t] = {} /\ disk.shard[t] # {})
  OBVIOUS
<1>7. disk.head.index \subseteq index
  OBVIOUS
<1>8. \A q \in Question :
        \/ /\ FPartOf[q] \in vw.fdirty /\ vw.rows[q] # {}
           /\ rows[q] = vw.rows[q] /\ q \in index
        \/ /\ ~ (FPartOf[q] \in vw.fdirty /\ vw.rows[q] # {})
           /\ rows[q] = disk.fshard[q]
  OBVIOUS
<1> HIDE DEF map, next, index, body, rows
<1>9. /\ m.head.map = map /\ m.head.next = next /\ m.head.index = index
      /\ m.body = body /\ m.rows = rows
      /\ m.parts = vw.dirty /\ m.fparts = vw.fdirty /\ m.opening = FALSE
  BY <1>1
<1>10. m \in Merged
  BY <1>1, <1>2, <1>3, <1>4, <1>5 DEF Merged, Header
<1> QED
  BY <1>3, <1>6, <1>7, <1>8, <1>9, <1>10 DEF Merges

LEMMA OpenIs ==
    ASSUME TypeOK, NEW s \in Session, Open(s) \/ FinishOpen(s)
    PROVE  \E y : Becomes(s, y) /\ IsFresh(y)
<1>1. PICK vw \in {FromHeader, Visited(FromHeader)} :
        view' = [view EXCEPT ![ViewOf[s]] = Counted(vw, disk.fshard).vw]
  BY DEF Open, FinishOpen
<1> DEFINE y == Counted(vw, disk.fshard).vw
<1>2. y \in Memory /\ Orderly(y) /\ IsFresh(y)
  BY OpenedIs DEF TypeOK
<1>3. view' = [view EXCEPT ![ViewOf[s]] = y]
  BY <1>1
<1> HIDE DEF y
<1>4. Becomes(s, y)
  BY <1>2, <1>3, BecomesIs
<1> QED
  BY <1>2, <1>4
-----------------------------------------------------------------------------
(***************************************************************************)
(* Types and control.                                                      *)
(***************************************************************************)

LEMMA Ordered ==
    ASSUME use' = use,
           \/ TypeOK /\ view' = view
           \/ \E s \in Session : \E y : Becomes(s, y)
    PROVE  \A v \in View : Orderly(view[v])'
BY DEF TypeOK, Becomes, Orderly

\* A session is to save its newest mark, or to take some off the disk.
LEMMA OweTyped ==
    ASSUME TypeOK, NEW s \in Session, Owe(s, Fresh)
    PROVE  /\ used' \in 0 .. MaxMarks /\ durable' \subseteq Mark
           /\ keep' \in [Session -> SUBSET Mark] /\ drop' \in [Session -> SUBSET Mark]
<1>1. Fresh \in Mark /\ used' \in 0 .. MaxMarks
  BY FreshTyped DEF Owe
<1> QED
  BY <1>1 DEF Owe, TypeOK

LEMMA WithdrawTyped ==
    ASSUME TypeOK, NEW s \in Session, NEW ms \in SUBSET Mark, Withdraw(s, ms)
    PROVE  /\ used' \in 0 .. MaxMarks /\ durable' \subseteq Mark
           /\ keep' \in [Session -> SUBSET Mark] /\ drop' \in [Session -> SUBSET Mark]
BY DEF Withdraw, TypeOK

\* A session with an open view works on it.
LEMMA ControlAtWork ==
    ASSUME TypeOK, Control, NEW s \in Session, NEW y, Becomes(s, y),
           UNCHANGED <<use, live, lock, commit>>, pc[s] \in {"idle", "reserved"},
           NEW at \in {"idle", "reserved", "counted"}, pc' = [pc EXCEPT ![s] = at],
           NEW id, held' = [held EXCEPT ![s] = id], at = "reserved" <=> id # 0
    PROVE  Control'
<1>1. ASSUME NEW x \in Session PROVE ControlOf(x)'
  <2>1. CASE x = s
    BY <2>1 DEF TypeOK, Control, ControlOf
  <2>2. CASE x # s
    <3>1. pc'[x] = pc[x] /\ held'[x] = held[x]
      BY <2>2 DEF TypeOK
    <3> QED
      BY <3>1 DEF Control, ControlOf
  <2> QED
    BY <2>1, <2>2
<1>2. \A v \in View \ live' : view'[v] = EmptyView
  <2>1. ViewOf[s] \in live
    BY DEF Control, ControlOf
  <2> QED
    BY <2>1 DEF Becomes, Control
<1> QED
  BY <1>1, <1>2 DEF Control

LEMMA FinishSaveIs ==
    ASSUME TypeOK, NEW s \in Session, FinishSave(s)
    PROVE  \E y : Becomes(s, y) /\ y = [view[ViewOf[s]] EXCEPT !.dirty = {}, !.fdirty = {}]
<1> DEFINE vw == view[ViewOf[s]]
           y == [vw EXCEPT !.dirty = {}, !.fdirty = {}]
<1>1. vw \in Memory /\ Orderly(vw)
  BY ViewTyped
<1>2. /\ y \in Memory /\ y.index = vw.index /\ y.cache = vw.cache /\ y.dirty = {}
      /\ y.fcache = vw.fcache /\ y.fdirty = {}
  BY <1>1 DEF Memory
<1>3. view' = [view EXCEPT ![ViewOf[s]] = y]
  BY <1>1 DEF FinishSave, Memory, TypeOK
<1> HIDE DEF y
<1>4. Orderly(y)
  BY <1>1, <1>2 DEF Orderly
<1>5. Becomes(s, y)
  BY <1>2, <1>3, <1>4, BecomesIs
<1> QED
  BY <1>5 DEF y

\* The sessions of a view that has just been opened are idle.
LEMMA OpenedControl ==
    ASSUME TypeOK, Control, NEW v \in View, v \notin live, Opened(v),
           UNCHANGED <<use, held>>, NEW x \in Session,
           \/ lock = None /\ UNCHANGED <<lock, commit>>
           \/ lock \in Session /\ ViewOf[lock] = v /\ lock' = None
    PROVE  ControlOf(x)'
<1>1. ControlOf(x) /\ (pc'[x] = IF x \in SessionsOf(v) THEN "idle" ELSE pc[x]) /\ live' = live \cup {v}
  BY DEF Control, Opened
<1>2. CASE ViewOf[x] = v
  BY <1>1, <1>2, SessionAssumption DEF ControlOf, SessionsOf, TypeOK
<1>3. CASE ViewOf[x] # v
  BY <1>1, <1>3, SessionAssumption DEF ControlOf, SessionsOf, TypeOK
<1> QED
  BY <1>2, <1>3

LEMMA TypeStep ==
    ASSUME TypeOK, Control, Next
    PROVE  (TypeOK /\ Control)'
<1> USE UseTyped
<1>1. ASSUME NEW s \in Session, Reserve(s) PROVE (TypeOK /\ Control)'
  <2> DEFINE v == ViewOf[s]
             id == NextId(view[v])
             h == [view[v].head EXCEPT !.next = id + 1]
             y == [view[v] EXCEPT !.head = h]
  <2>1. v \in View /\ view[v] \in Memory /\ Orderly(view[v])
    BY ViewTyped
  <2>2. id \in Counter /\ id \in 1 .. MaxId
    BY <1>1, <2>1, NextIdIs DEF Reserve, Counter, Tid, TypeOK
  <2>3. view' = [view EXCEPT ![v] = y] /\ held' = [held EXCEPT ![s] = id]
    BY <1>1, <2>1 DEF Reserve, Memory
  <2> HIDE DEF id
  <2>4. h \in [map : SUBSET Tid, next : Counter]
    <3>1. view[v].head \in [map : SUBSET Tid, next : Counter]
      BY <2>1 DEF Memory
    <3>2. id + 1 \in Counter
      BY <2>2 DEF Counter
    <3> QED
      BY <3>1, <3>2
  <2> HIDE DEF h
  <2>5. /\ y \in Memory /\ y.index = view[v].index /\ y.cache = view[v].cache
        /\ y.dirty = view[v].dirty /\ y.fcache = view[v].fcache /\ y.fdirty = view[v].fdirty
    BY <2>1, <2>4 DEF Memory
  <2> HIDE DEF y
  <2>6. Orderly(y)
    BY <2>1, <2>5 DEF Orderly
  <2>7. Becomes(s, y)
    BY <2>3, <2>5, <2>6, BecomesIs
  <2>8. Control'
    BY <1>1, <2>2, <2>3, <2>7, ControlAtWork DEF Reserve, At, Counter
  <2>9. \A w \in View : Orderly(view[w])'
    BY <1>1, <2>7, Ordered DEF Reserve
  <2>10. TypeOK'
    BY <1>1, <2>2, <2>3, <2>7, <2>9 DEF Reserve, At, TypeOK, Becomes, ghosts, history
  <2> QED
    BY <2>8, <2>10
<1>2. ASSUME NEW s \in Session, PutNew(s) PROVE (TypeOK /\ Control)'
  <2>1. PICK y : Becomes(s, y)
    BY <1>2, PutNewIs
  <2>2. Control'
    BY <1>2, <2>1, ControlAtWork DEF PutNew, At
  <2>3. \A w \in View : Orderly(view[w])'
    BY <1>2, <2>1, Ordered DEF PutNew
  <2>4. Owe(s, Fresh) /\ 0 \in 0 .. MaxId
    BY <1>2 DEF PutNew, TypeOK
  <2>5. TypeOK'
    BY <1>2, <2>1, <2>3, <2>4, OweTyped DEF PutNew, At, TypeOK, Becomes, history
  <2> QED
    BY <2>2, <2>5
<1>3. ASSUME NEW s \in Session, NEW t \in Tid, Improve(s, t) PROVE (TypeOK /\ Control)'
  <2>1. PICK y : Becomes(s, y)
    BY <1>3, ImproveIs
  <2>2. pc' = [pc EXCEPT ![s] = "idle"] /\ held' = [held EXCEPT ![s] = 0]
    BY <1>3 DEF Improve, Idle, TypeOK, Control, ControlOf
  <2>3. Control'
    BY <1>3, <2>1, <2>2, ControlAtWork DEF Improve, Idle
  <2>4. \A w \in View : Orderly(view[w])'
    BY <1>3, <2>1, Ordered DEF Improve
  <2>5. Owe(s, Fresh)
    BY <1>3 DEF Improve
  <2>6. TypeOK'
    BY <1>3, <2>1, <2>4, <2>5, OweTyped DEF Improve, Idle, TypeOK, Becomes, history
  <2> QED
    BY <2>3, <2>6
<1>4. ASSUME NEW s \in Session, NEW t \in Tid, RemoveTemplate(s, t) PROVE (TypeOK /\ Control)'
  <2>1. PICK there : there = Holding(view[ViewOf[s]], t)
    OBVIOUS
  <2>2. PICK y : Becomes(s, y) /\ Changes(view[ViewOf[s]], there, y, t, {})
    BY <1>4, <2>1, RemoveTemplateIs
  <2>3. pc' = [pc EXCEPT ![s] = "idle"] /\ held' = [held EXCEPT ![s] = 0]
    BY <1>4 DEF RemoveTemplate, Idle, TypeOK, Control, ControlOf
  <2>4. Control'
    BY <1>4, <2>2, <2>3, ControlAtWork DEF RemoveTemplate, Idle
  <2>5. \A w \in View : Orderly(view[w])'
    BY <1>4, <2>2, Ordered DEF RemoveTemplate
  <2>6. Withdraw(s, there.body[t]) /\ there.body[t] \subseteq Mark
    BY <1>4, <2>1, <2>2, RemoveTemplateIs DEF Changes, Loads, Memory, Bodies
  <2>7. TypeOK'
    BY <1>4, <2>2, <2>5, <2>6, WithdrawTyped DEF RemoveTemplate, Idle, TypeOK, Becomes, history
  <2> QED
    BY <2>4, <2>7
<1>5. ASSUME NEW s \in Session, NEW q \in Question, RecordFeedback(s, q) PROVE (TypeOK /\ Control)'
  <2>1. PICK there : there = FeedbackLoaded(Seen(s), FPartOf[q])
    OBVIOUS
  <2>2. PICK y : Becomes(s, y)
    BY <1>5, <2>1, RecordFeedbackIs
  <2>3. Flushes(there.files)
    BY <1>5, <2>1, RecordFeedbackIs
  <2>4. pc' = [pc EXCEPT ![s] = "idle"] /\ held' = [held EXCEPT ![s] = 0]
    BY <1>5 DEF RecordFeedback, Idle, TypeOK, Control, ControlOf
  <2>5. Control'
    BY <1>5, <2>2, <2>4, ControlAtWork DEF RecordFeedback, Idle
  <2>6. \A w \in View : Orderly(view[w])'
    BY <1>5, <2>2, Ordered DEF RecordFeedback
  <2>7. Owe(s, Fresh)
    BY <1>5 DEF RecordFeedback
  <2>8. TypeOK'
    BY <1>5, <2>2, <2>3, <2>6, <2>7, OweTyped
       DEF RecordFeedback, Idle, TypeOK, Becomes, Flushes, history
  <2> QED
    BY <2>5, <2>8
<1>6. ASSUME NEW s \in Session, NEW q \in Question, ForgetFeedback(s, q) PROVE (TypeOK /\ Control)'
  <2>1. PICK there : there = HoldingFeedback(Seen(s), q)
    OBVIOUS
  <2>2. PICK y : Becomes(s, y) /\ ChangesFeedback(Seen(s), there, y, q, {})
    BY <1>6, <2>1, ForgetFeedbackIs
  <2>3. Flushes(there.files) /\ Withdraw(s, there.vw.rows[q])
    BY <1>6, <2>1, ForgetFeedbackIs
  <2>4. there.vw.rows[q] \subseteq Mark
    BY <2>2 DEF ChangesFeedback, Reads, Load, Memory, Rows
  <2>5. pc' = [pc EXCEPT ![s] = "idle"] /\ held' = [held EXCEPT ![s] = 0]
    BY <1>6 DEF ForgetFeedback, Idle, TypeOK, Control, ControlOf
  <2>6. Control'
    BY <1>6, <2>2, <2>5, ControlAtWork DEF ForgetFeedback, Idle
  <2>7. \A w \in View : Orderly(view[w])'
    BY <1>6, <2>2, Ordered DEF ForgetFeedback
  <2>8. TypeOK'
    BY <1>6, <2>2, <2>3, <2>4, <2>7, WithdrawTyped
       DEF ForgetFeedback, Idle, TypeOK, Becomes, Flushes, history
  <2> QED
    BY <2>6, <2>8
<1>7. ASSUME NEW s \in Session, CountRows(s) PROVE (TypeOK /\ Control)'
  <2>1. PICK z, y : Reads(Seen(s), z) /\ Loads(z.vw, y) /\ Becomes(s, y) /\ Flushes(z.files)
    BY <1>7, CountRowsIs
  <2>2. pc' = [pc EXCEPT ![s] = "counted"] /\ held' = [held EXCEPT ![s] = 0]
    BY <1>7 DEF CountRows, At, TypeOK, Control, ControlOf
  <2>3. Control'
    BY <1>7, <2>1, <2>2, ControlAtWork DEF CountRows, At
  <2>4. \A w \in View : Orderly(view[w])'
    BY <1>7, <2>1, Ordered DEF CountRows
  <2>5. TypeOK'
    BY <1>7, <2>1, <2>4 DEF CountRows, At, TypeOK, Becomes, Flushes, ghosts, history
  <2> QED
    BY <2>3, <2>5
<1>8. ASSUME NEW s \in Session, MergeSave(s) PROVE (TypeOK /\ Control)'
  <2>1. commit' \in Merged /\ commit'.opening = FALSE
    <3>1. Merges(view[ViewOf[s]], commit')
      BY <1>8, ViewTyped, MergeIs DEF MergeSave
    <3> QED
      BY <3>1 DEF Merges
  <2>2. \A w \in View : Orderly(view[w])'
    BY <1>8, Ordered DEF MergeSave
  <2>3. TypeOK'
    BY <1>8, <2>1, <2>2, SessionAssumption DEF MergeSave, At, TypeOK, ghosts, history
  <2>4. ASSUME NEW x \in Session PROVE ControlOf(x)'
    BY <1>8, <2>1, SessionAssumption DEF MergeSave, At, TypeOK, Control, ControlOf
  <2>5. \A v \in View \ live' : view'[v] = EmptyView
    BY <1>8 DEF MergeSave, Control
  <2> QED
    BY <2>3, <2>4, <2>5 DEF Control
<1>9. ASSUME NEW s \in Session, CommitHeader(s) PROVE (TypeOK /\ Control)'
  <2>1. lock = s /\ commit \in Merged
    BY <1>9, SessionAssumption DEF CommitHeader, At, Control, ControlOf, TypeOK
  <2>2. Marks(commit.body) \subseteq Mark /\ Marks(commit.rows) \subseteq Mark
    BY <2>1 DEF Merged, Bodies, Rows, Marks
  <2>3. disk' \in Files /\ commit.head.map \subseteq Tid
    BY <1>9, <2>1 DEF CommitHeader, TypeOK, Files, Merged, Header
  <2>4. \A w \in View : Orderly(view[w])'
    BY <1>9, Ordered DEF CommitHeader
  <2>5. TypeOK'
    BY <1>9, <2>2, <2>3, <2>4 DEF CommitHeader, At, TypeOK, ghosts
  <2>6. ASSUME NEW x \in Session PROVE ControlOf(x)'
    BY <1>9, <2>1 DEF CommitHeader, At, TypeOK, Control, ControlOf
  <2>7. \A v \in View \ live' : view'[v] = EmptyView
    BY <1>9 DEF CommitHeader, Control
  <2> QED
    BY <2>5, <2>6, <2>7 DEF Control
<1>10. ASSUME NEW s \in Session, CommitShard(s) PROVE (TypeOK /\ Control)'
  <2>1. lock = s /\ commit \in Merged
    BY <1>10, SessionAssumption DEF CommitShard, Control, ControlOf, TypeOK
  <2>2. commit' \in Merged /\ commit'.opening = commit.opening
    BY <1>10, <2>1 DEF CommitShard, Merged
  <2>3. disk' \in Files
    BY <1>10, <2>1 DEF CommitShard, TypeOK, Files, Merged, Bodies
  <2>4. \A w \in View : Orderly(view[w])'
    BY <1>10, Ordered DEF CommitShard
  <2>5. TypeOK'
    BY <1>10, <2>1, <2>2, <2>3, <2>4, SessionAssumption DEF CommitShard, TypeOK, ghosts, history
  <2>6. ASSUME NEW x \in Session PROVE ControlOf(x)'
    BY <1>10, <2>2 DEF CommitShard, Control, ControlOf
  <2>7. \A v \in View \ live' : view'[v] = EmptyView
    BY <1>10 DEF CommitShard, Control
  <2> QED
    BY <2>5, <2>6, <2>7 DEF Control
<1>11. ASSUME NEW s \in Session, CommitFeedback(s) PROVE (TypeOK /\ Control)'
  <2>1. lock = s /\ commit \in Merged
    BY <1>11, SessionAssumption DEF CommitFeedback, Control, ControlOf, TypeOK
  <2>2. commit' \in Merged /\ commit'.opening = commit.opening
    BY <1>11, <2>1 DEF CommitFeedback, Merged
  <2>3. disk' \in Files
    BY <1>11, <2>1 DEF CommitFeedback, TypeOK, Files, Merged, Rows
  <2>4. \A w \in View : Orderly(view[w])'
    BY <1>11, Ordered DEF CommitFeedback
  <2>5. TypeOK'
    BY <1>11, <2>1, <2>2, <2>3, <2>4, SessionAssumption
       DEF CommitFeedback, TypeOK, ghosts, history
  <2>6. ASSUME NEW x \in Session PROVE ControlOf(x)'
    BY <1>11, <2>2 DEF CommitFeedback, Control, ControlOf
  <2>7. \A v \in View \ live' : view'[v] = EmptyView
    BY <1>11 DEF CommitFeedback, Control
  <2> QED
    BY <2>5, <2>6, <2>7 DEF Control
<1>12. ASSUME NEW s \in Session, FinishSave(s) PROVE (TypeOK /\ Control)'
  <2>1. PICK y : Becomes(s, y) /\ y = [view[ViewOf[s]] EXCEPT !.dirty = {}, !.fdirty = {}]
    BY <1>12, FinishSaveIs
  <2>2. lock = s /\ ViewOf[s] \in live
    BY <1>12 DEF FinishSave, Committed, Control, ControlOf
  <2>3. \A w \in View : Orderly(view[w])'
    BY <1>12, <2>1, Ordered DEF FinishSave
  <2>4. TypeOK'
    BY <1>12, <2>1, <2>3 DEF FinishSave, Committed, At, TypeOK, Becomes, ghosts, history
  <2>5. ASSUME NEW x \in Session PROVE ControlOf(x)'
    BY <1>12, <2>2, SessionAssumption
       DEF FinishSave, Committed, At, TypeOK, Control, ControlOf
  <2>6. \A v \in View \ live' : view'[v] = EmptyView
    BY <1>12, <2>1, <2>2 DEF FinishSave, Becomes, Control
  <2> QED
    BY <2>4, <2>5, <2>6 DEF Control
<1>13. ASSUME NEW s \in Session, Return(s) PROVE (TypeOK /\ Control)'
  <2>1. \A w \in View : Orderly(view[w])'
    BY <1>13, Ordered DEF Return
  <2>2. TypeOK'
    BY <1>13, <2>1 DEF Return, At, TypeOK, history
  <2>3. ASSUME NEW x \in Session PROVE ControlOf(x)'
    BY <1>13 DEF Return, At, TypeOK, Control, ControlOf
  <2>4. \A v \in View \ live' : view'[v] = EmptyView
    BY <1>13 DEF Return, Control
  <2> QED
    BY <2>2, <2>3, <2>4 DEF Control
<1>14. ASSUME NEW s \in Session, SaveFails(s) PROVE (TypeOK /\ Control)'
  <2>1. \A w \in View : Orderly(view[w])'
    BY <1>14, Ordered DEF SaveFails
  <2>2. /\ failures' \in 0 .. MaxFailures
        /\ pc'[s] \in {"idle", "down"} /\ (pc'[s] = "idle" => ViewOf[s] \in live)
        /\ pc' \in [Session ->
                {"down", "idle", "reserved", "counted", "merged", "headed", "saved"}]
        /\ \A x \in Session : x # s => pc'[x] = pc[x]
    BY <1>14, UseTyped DEF SaveFails, Fail, TypeOK
  <2>3. IF pc[s] = "counted" THEN UNCHANGED <<lock, commit>> ELSE lock' = None /\ commit' = None
    BY <1>14 DEF SaveFails
  <2>4. TypeOK'
    BY <1>14, <2>1, <2>2, <2>3 DEF SaveFails, TypeOK, ghosts, history
  <2>5. ASSUME NEW x \in Session PROVE ControlOf(x)'
    <3>1. ControlOf(x) /\ ControlOf(s)
      BY DEF Control
    <3>2. pc[s] \in {"counted", "merged", "headed"}
      BY <1>14 DEF SaveFails
    <3>3. UNCHANGED <<use, live, held>>
      BY <1>14 DEF SaveFails
    <3>4. CASE x = s
      BY <2>2, <2>3, <3>1, <3>2, <3>3, <3>4, SessionAssumption DEF ControlOf
    <3>5. CASE x # s
      BY <2>2, <2>3, <3>1, <3>2, <3>3, <3>5, SessionAssumption DEF ControlOf
    <3> QED
      BY <3>4, <3>5
  <2>6. \A v \in View \ live' : view'[v] = EmptyView
    BY <1>14 DEF SaveFails, Control
  <2> QED
    BY <2>4, <2>5, <2>6 DEF Control
<1>15. ASSUME NEW s \in Session, Open(s) PROVE (TypeOK /\ Control)'
  <2>1. PICK y : Becomes(s, y)
    BY <1>15, OpenIs
  <2>2. \A w \in View : Orderly(view[w])'
    BY <1>15, <2>1, Ordered DEF Open
  <2>3. ViewOf[s] \in View /\ ViewOf[s] \notin live /\ lock = None
    BY <1>15, ViewTyped DEF Open
  <2>4. TypeOK'
    BY <1>15, <2>1, <2>2, <2>3 DEF Open, Opened, TypeOK, Becomes, ghosts, history
  <2>5. ASSUME NEW x \in Session PROVE ControlOf(x)'
    BY <1>15, <2>3, OpenedControl DEF Open
  <2>6. \A v \in View \ live' : view'[v] = EmptyView
    BY <1>15, <2>1 DEF Open, Opened, Becomes, Control
  <2> QED
    BY <2>4, <2>5, <2>6 DEF Control
<1>16. ASSUME NEW s \in Session, OpenAndRepair(s) PROVE (TypeOK /\ Control)'
  <2>1. commit' \in Merged /\ commit'.opening = TRUE
    <3> DEFINE body == [t \in Tid |-> IF t \in Strays THEN {} ELSE disk.shard[t]]
               parts == {PartOf[t] : t \in Strays}
    <3>1. disk \in Files
      BY DEF TypeOK
    <3>2. Repaired \in Header
      BY <3>1 DEF Repaired, Files, Header
    <3>3. body \in Bodies
      BY <3>1 DEF Files, Bodies
    <3>4. parts \in SUBSET Part
      BY PartitionsTyped DEF Strays
    <3>5. commit' = [head |-> Repaired, body |-> body, rows |-> disk.fshard,
                     parts |-> parts, fparts |-> {}, opening |-> TRUE]
      BY <1>16 DEF OpenAndRepair
    <3> HIDE DEF body, parts
    <3> QED
      BY <3>1, <3>2, <3>3, <3>4, <3>5 DEF Files, Merged
  <2>2. \A w \in View : Orderly(view[w])'
    BY <1>16, Ordered DEF OpenAndRepair
  <2>3. TypeOK'
    BY <1>16, <2>1, <2>2, SessionAssumption DEF OpenAndRepair, At, TypeOK, ghosts, history
  <2>4. ASSUME NEW x \in Session PROVE ControlOf(x)'
    BY <1>16, <2>1, SessionAssumption
       DEF OpenAndRepair, SessionsOf, At, TypeOK, Control, ControlOf
  <2>5. \A v \in View \ live' : view'[v] = EmptyView
    BY <1>16 DEF OpenAndRepair, Control
  <2> QED
    BY <2>3, <2>4, <2>5 DEF Control
<1>17. ASSUME NEW s \in Session, FinishOpen(s) PROVE (TypeOK /\ Control)'
  <2>1. PICK y : Becomes(s, y)
    BY <1>17, OpenIs
  <2>2. \A w \in View : Orderly(view[w])'
    BY <1>17, <2>1, Ordered DEF FinishOpen
  <2>3. lock = s /\ ViewOf[s] \in View /\ ViewOf[s] \notin live
    BY <1>17, ViewTyped DEF FinishOpen, Committed, Control, ControlOf
  <2>4. UNCHANGED <<use, held>> /\ lock' = None /\ commit' = None
    BY <1>17 DEF FinishOpen, Committed
  <2>5. TypeOK'
    BY <1>17, <2>1, <2>2, <2>3, <2>4 DEF FinishOpen, Opened, TypeOK, Becomes, ghosts, history
  <2>6. ASSUME NEW x \in Session PROVE ControlOf(x)'
    BY <1>17, <2>3, <2>4, OpenedControl DEF FinishOpen
  <2>7. \A v \in View \ live' : view'[v] = EmptyView
    BY <1>17, <2>1 DEF FinishOpen, Opened, Becomes, Control
  <2> QED
    BY <2>5, <2>6, <2>7 DEF Control
<1>18. ASSUME NEW v \in View, Crash(v) PROVE (TypeOK /\ Control)'
  <2>1. /\ use' = use /\ live' = live \ {v} /\ disk' = disk
        /\ pc' = [s \in Session |-> IF ViewOf[s] = v THEN "down" ELSE pc[s]]
        /\ held' = [s \in Session |-> IF ViewOf[s] = v THEN 0 ELSE held[s]]
        /\ view' = [view EXCEPT ![v] = EmptyView]
    BY <1>18 DEF Crash
  <2>2. view' \in [View -> Memory] /\ \A w \in View : Orderly(view[w])'
    BY <2>1, EmptyViewIs DEF TypeOK, Orderly
  <2>3. IF lock # None /\ ViewOf[lock] = v THEN lock' = None /\ commit' = None
        ELSE UNCHANGED <<lock, commit>>
    <3>1. ASSUME lock # None PROVE lock \in use.sessions
      BY <3>1 DEF TypeOK, Control, ControlOf
    <3> QED
      BY <1>18, <3>1, UseTyped, SessionAssumption DEF Crash, SessionsOf, TypeOK
  <2>4. failures' \in 0 .. MaxFailures
    BY <1>18, UseTyped DEF Crash, Fail, TypeOK
  <2>5. keep' \in [Session -> SUBSET Mark] /\ drop' \in [Session -> SUBSET Mark]
    BY <1>18 DEF Crash, TypeOK
  <2>6. held' \in [Session -> 0 .. MaxId]
    BY <2>1, UseTyped DEF TypeOK
  <2>7. TypeOK'
    BY <1>18, <2>1, <2>2, <2>3, <2>4, <2>5, <2>6 DEF Crash, TypeOK, history
  <2>8. ASSUME NEW x \in Session PROVE ControlOf(x)'
    <3>1. ControlOf(x)
      BY DEF Control
    <3>2. CASE ViewOf[x] = v
      BY <2>1, <2>3, <3>1, <3>2, SessionAssumption DEF ControlOf
    <3>3. CASE ViewOf[x] # v
      BY <2>1, <2>3, <3>1, <3>3, SessionAssumption DEF ControlOf
    <3> QED
      BY <3>2, <3>3
  <2>9. \A w \in View \ live' : view'[w] = EmptyView
    BY <2>1 DEF TypeOK, Control
  <2> QED
    BY <2>7, <2>8, <2>9 DEF Control
<1> QED
  BY <1>1, <1>2, <1>3, <1>4, <1>5, <1>6, <1>7, <1>8, <1>9, <1>10, <1>11, <1>12, <1>13, <1>14,
     <1>15, <1>16, <1>17, <1>18 DEF Next

LEMMA TypeStutter ==
    ASSUME TypeOK, Control, UNCHANGED vars
    PROVE  (TypeOK /\ Control)'
<1>1. \A w \in View : Orderly(view[w])'
  BY Ordered DEF vars
<1>2. TypeOK'
  BY <1>1 DEF vars, ghosts, history, TypeOK
<1>3. Control'
  BY DEF vars, ghosts, Control, ControlOf
<1> QED
  BY <1>2, <1>3

LEMMA TypeInit == Init => TypeOK /\ Control
<1> SUFFICES ASSUME Init PROVE TypeOK /\ Control
  OBVIOUS
<1>1. EmptyView \in Memory /\ Orderly(EmptyView)
  BY EmptyViewIs DEF Init
<1>2. disk \in Files
  BY DEF Init, Files, Header, Counter, Bodies, Rows, NoBodies, NoRows
<1>3. MaxMarks \in Nat /\ MaxFailures \in Nat /\ MaxId \in Nat
  BY PartitionAssumption, BoundAssumption
<1>4. TypeOK
  BY <1>1, <1>2, <1>3 DEF Init, TypeOK
<1>5. Control
  BY SessionAssumption DEF Init, Control, ControlOf
<1> QED
  BY <1>4, <1>5

LEMMA Typed == Spec => [](TypeOK /\ Control)
<1>1. TypeOK /\ Control /\ [Next]_vars => (TypeOK /\ Control)'
  BY TypeStep, TypeStutter
<1> QED
  BY <1>1, TypeInit, PTL DEF Spec

\* Whatever the sessions do and whenever they die, the files, the views and the save
\* under way have their types; no view lists or caches anything twice, evicts what
\* it has yet to save, or holds more feedback partitions than
\* TEMPLATE_STORE_PARTITION_LRU_MAX.
THEOREM Typing == Spec => []TypeOK
BY Typed, PTL
-----------------------------------------------------------------------------
(***************************************************************************)
(* Ids, the repair and the order of a save.                                *)
(***************************************************************************)

\* What the steps of a session between two saves have in common: its view becomes
\* y, it goes to at and holds id.
Works(s, y, at, id) ==
    /\ Becomes(s, y)
    /\ pc[s] \in {"idle", "reserved"} /\ pc' = [pc EXCEPT ![s] = at]
    /\ held' = [held EXCEPT ![s] = id]
    /\ UNCHANGED <<use, live, lock, commit, headed, everMapped>>
    /\ disk' \in Files /\ disk'.head = disk.head /\ disk'.shard = disk.shard
    /\ CacheHoldsFeedback => disk'.fshard = disk.fshard
    /\ id \in {0, held[s]} \/ id >= disk.head.next
    /\ view[ViewOf[s]].head.next <= y.head.next /\ id < y.head.next
    /\ \A t \in Tid : y.body[t] # {} =>
        view[ViewOf[s]].body[t] # {} \/ disk.shard[t] # {} \/ t = held[s]

WorkStep(s) ==
    \/ Reserve(s) \/ PutNew(s)
    \/ \E t \in Tid : Improve(s, t) \/ RemoveTemplate(s, t)
    \/ \E q \in Question : RecordFeedback(s, q) \/ ForgetFeedback(s, q)
    \/ CountRows(s)

LEMMA WorksIs ==
    ASSUME TypeOK, Control, NEW s \in Session, WorkStep(s)
    PROVE  \E y \in Memory, at \in {"idle", "reserved", "counted"}, id \in 0 .. MaxId :
                Works(s, y, at, id)
<1> DEFINE v == ViewOf[s]
<1>1. /\ v \in View /\ view[v] \in Memory /\ disk \in Files /\ disk.fshard \in Rows
      /\ view[v].head.next \in Counter /\ 0 \in 0 .. MaxId /\ held[s] \in 0 .. MaxId
      /\ pc[s] = "idle" => held[s] = 0
  BY ViewTyped, UseTyped DEF TypeOK, Control, ControlOf, Files, Memory
<1>2. Seen(s).vw = view[v] /\ Seen(s).files = disk.fshard
  BY SeenTyped
<1>3. 0 < view[v].head.next
  BY <1>1 DEF Counter
<1>4. CASE Reserve(s)
  <2> DEFINE id == NextId(view[v])
             h == [view[v].head EXCEPT !.next = id + 1]
             y == [view[v] EXCEPT !.head = h]
  <2>1. Orderly(view[v])
    BY ViewTyped
  <2>2. /\ id \in Counter /\ id \in 0 .. MaxId /\ id >= disk.head.next
        /\ view[v].head.next <= id + 1 /\ id < id + 1
    <3>1. /\ id \in Counter /\ view[v].head.next <= id /\ disk.head.next <= id
          /\ view[v].head.next \in Counter /\ disk.head.next \in Counter
      BY <1>1, NextIdIs DEF Files, Header
    <3>2. id <= MaxId
      BY <1>4, <3>1, UseTyped DEF Reserve, Counter, Tid, TypeOK
    <3> HIDE DEF id
    <3> QED
      BY <3>1, <3>2, UseTyped DEF Counter
  <2>3. view' = [view EXCEPT ![v] = y] /\ held' = [held EXCEPT ![s] = id]
    BY <1>1, <1>4 DEF Reserve, Memory, TypeOK
  <2> HIDE DEF id
  <2>4. h \in [map : SUBSET Tid, next : Counter] /\ h.next = id + 1
    <3>1. view[v].head \in [map : SUBSET Tid, next : Counter]
      BY <1>1 DEF Memory
    <3>2. id + 1 \in Counter
      BY <2>2 DEF Counter
    <3> QED
      BY <3>1, <3>2
  <2> HIDE DEF h
  <2>5. /\ y \in Memory /\ y.head = h /\ y.index = view[v].index /\ y.cache = view[v].cache
        /\ y.dirty = view[v].dirty /\ y.fcache = view[v].fcache /\ y.fdirty = view[v].fdirty
        /\ y.body = view[v].body
    BY <1>1, <2>4 DEF Memory
  <2> HIDE DEF y
  <2>6. Becomes(s, y)
    <3>1. Orderly(y)
      BY <2>1, <2>5 DEF Orderly
    <3> QED
      BY <2>3, <2>5, <3>1, BecomesIs
  <2>7. Works(s, y, "reserved", id)
    BY <1>1, <1>4, <2>2, <2>3, <2>4, <2>5, <2>6 DEF Reserve, At, Works, history
  <2> QED
    BY <2>2, <2>5, <2>7
<1>5. CASE PutNew(s)
  <2>1. PICK y : /\ Becomes(s, y)
                 /\ Changes(view[v], Loaded(view[v], PartOf[held[s]]), y, held[s], {Fresh})
    BY <1>5, PutNewIs
  <2>2. /\ y \in Memory /\ view[v].head.next <= y.head.next /\ 0 < y.head.next
        /\ \A t \in Tid : y.body[t] # {} =>
            view[v].body[t] # {} \/ disk.shard[t] # {} \/ t = held[s]
    <3>1. y \in Memory /\ y.head.next = view[v].head.next
      BY <2>1 DEF Changes
    <3>2. view[v].head.next <= y.head.next /\ 0 < y.head.next
      BY <1>1, <1>3, <3>1 DEF Counter
    <3>3. \A t \in Tid : y.body[t] # {} =>
            view[v].body[t] # {} \/ disk.shard[t] # {} \/ t = held[s]
      BY <2>1 DEF Changes, Loads
    <3> QED
      BY <3>1, <3>2, <3>3
  <2>3. pc[s] = "reserved" /\ pc' = [pc EXCEPT ![s] = "idle"] /\ held' = [held EXCEPT ![s] = 0]
    BY <1>5 DEF PutNew, At
  <2>4. Works(s, y, "idle", 0)
    BY <1>1, <1>5, <2>1, <2>2, <2>3 DEF PutNew, Works, history
  <2> QED
    BY <1>1, <2>2, <2>4
<1>6. CASE \E t \in Tid : Improve(s, t)
  <2>1. PICK t \in Tid : Improve(s, t)
    BY <1>6
  <2>2. PICK there : there = Loaded(view[v], PartOf[t])
    OBVIOUS
  <2>3. PICK y : Becomes(s, y) /\ Changes(view[v], there, y, t, there.body[t] \cup {Fresh})
    BY <2>1, <2>2, ImproveIs
  <2>4. there.body[t] # {}
    BY <2>1, <2>2 DEF Improve
  <2>5. /\ y \in Memory /\ view[v].head.next <= y.head.next /\ 0 < y.head.next
        /\ \A u \in Tid : y.body[u] # {} =>
            view[v].body[u] # {} \/ disk.shard[u] # {} \/ u = held[s]
    BY <1>1, <1>3, <2>3, <2>4 DEF Changes, Loads, Counter
  <2>6. /\ pc[s] = "idle" /\ pc' = [pc EXCEPT ![s] = "idle"] /\ held' = [held EXCEPT ![s] = 0]
    BY <1>1, <2>1 DEF Improve, Idle, TypeOK
  <2>7. Works(s, y, "idle", 0)
    BY <1>1, <2>1, <2>3, <2>5, <2>6 DEF Improve, Works, history
  <2> QED
    BY <1>1, <2>5, <2>7
<1>7. CASE \E t \in Tid : RemoveTemplate(s, t)
  <2>1. PICK t \in Tid : RemoveTemplate(s, t)
    BY <1>7
  <2>2. PICK there : there = Holding(view[v], t)
    OBVIOUS
  <2>3. PICK y : Becomes(s, y) /\ Changes(view[v], there, y, t, {})
    BY <2>1, <2>2, RemoveTemplateIs
  <2>4. /\ y \in Memory /\ view[v].head.next <= y.head.next /\ 0 < y.head.next
        /\ \A u \in Tid : y.body[u] # {} =>
            view[v].body[u] # {} \/ disk.shard[u] # {} \/ u = held[s]
    BY <1>1, <1>3, <2>3 DEF Changes, Loads, Counter
  <2>5. /\ pc[s] = "idle" /\ pc' = [pc EXCEPT ![s] = "idle"] /\ held' = [held EXCEPT ![s] = 0]
    BY <1>1, <2>1 DEF RemoveTemplate, Idle, TypeOK
  <2>6. Works(s, y, "idle", 0)
    BY <1>1, <2>1, <2>3, <2>4, <2>5 DEF RemoveTemplate, Works, history
  <2> QED
    BY <1>1, <2>4, <2>6
<1>8. CASE \E q \in Question : RecordFeedback(s, q)
  <2>1. PICK q \in Question : RecordFeedback(s, q)
    BY <1>8
  <2>2. PICK there : there = FeedbackLoaded(Seen(s), FPartOf[q])
    OBVIOUS
  <2>3. Flushes(there.files)
    BY <2>1, <2>2, RecordFeedbackIs
  <2>4. PICK y : /\ Becomes(s, y)
                 /\ ChangesFeedback(Seen(s), there, y, q, there.vw.rows[q] \cup {Fresh})
    BY <2>1, <2>2, RecordFeedbackIs
  <2>5. /\ y \in Memory /\ view[v].head.next <= y.head.next /\ 0 < y.head.next
        /\ y.body = view[v].body
        /\ CacheHoldsFeedback => there.files = disk.fshard
    BY <1>1, <1>2, <1>3, <2>4 DEF ChangesFeedback, Reads, Retains, Counter
  <2>6. /\ pc[s] = "idle" /\ pc' = [pc EXCEPT ![s] = "idle"] /\ held' = [held EXCEPT ![s] = 0]
    BY <1>1, <2>1 DEF RecordFeedback, Idle, TypeOK
  <2>7. Works(s, y, "idle", 0)
    BY <1>1, <2>1, <2>3, <2>4, <2>5, <2>6 DEF RecordFeedback, Works, Flushes, history
  <2> QED
    BY <1>1, <2>5, <2>7
<1>9. CASE \E q \in Question : ForgetFeedback(s, q)
  <2>1. PICK q \in Question : ForgetFeedback(s, q)
    BY <1>9
  <2>2. PICK there : there = HoldingFeedback(Seen(s), q)
    OBVIOUS
  <2>3. Flushes(there.files)
    BY <2>1, <2>2, ForgetFeedbackIs
  <2>4. PICK y : Becomes(s, y) /\ ChangesFeedback(Seen(s), there, y, q, {})
    BY <2>1, <2>2, ForgetFeedbackIs
  <2>5. /\ y \in Memory /\ view[v].head.next <= y.head.next /\ 0 < y.head.next
        /\ y.body = view[v].body
        /\ CacheHoldsFeedback => there.files = disk.fshard
    BY <1>1, <1>2, <1>3, <2>4 DEF ChangesFeedback, Reads, Retains, Counter
  <2>6. /\ pc[s] = "idle" /\ pc' = [pc EXCEPT ![s] = "idle"] /\ held' = [held EXCEPT ![s] = 0]
    BY <1>1, <2>1 DEF ForgetFeedback, Idle, TypeOK
  <2>7. Works(s, y, "idle", 0)
    BY <1>1, <2>1, <2>3, <2>4, <2>5, <2>6 DEF ForgetFeedback, Works, Flushes, history
  <2> QED
    BY <1>1, <2>5, <2>7
<1>10. CASE CountRows(s)
  <2>1. PICK z, y : Reads(Seen(s), z) /\ Loads(z.vw, y) /\ Becomes(s, y) /\ Flushes(z.files)
    BY <1>10, CountRowsIs
  <2>2. /\ y \in Memory /\ view[v].head.next <= y.head.next /\ 0 < y.head.next
        /\ \A t \in Tid : y.body[t] # {} => view[v].body[t] # {} \/ disk.shard[t] # {}
        /\ CacheHoldsFeedback => z.files = disk.fshard
    BY <1>1, <1>2, <1>3, <2>1 DEF Loads, Reads, Retains, Counter
  <2>3. /\ pc[s] = "idle" /\ pc' = [pc EXCEPT ![s] = "counted"] /\ held' = [held EXCEPT ![s] = 0]
    BY <1>1, <1>10 DEF CountRows, At, TypeOK
  <2>4. Works(s, y, "counted", 0)
    BY <1>1, <1>10, <2>1, <2>2, <2>3 DEF CountRows, Works, Flushes, history
  <2> QED
    BY <1>1, <2>2, <2>4
<1> QED
  BY <1>4, <1>5, <1>6, <1>7, <1>8, <1>9, <1>10 DEF WorkStep

LEMMA Holder ==
    ASSUME TypeOK, Control, NEW s \in Session, pc[s] \in {"merged", "headed"}
    PROVE  lock = s /\ lock # None /\ commit \in Merged
BY SessionAssumption DEF TypeOK, Control, ControlOf

LEMMA NextTyped ==
    ASSUME TypeOK
    PROVE  /\ disk.head.next \in Nat /\ \A v \in View : view[v].head.next \in Nat
           /\ \A t \in Tid : t \in Nat
           /\ \A s \in Session : held[s] \in Nat /\ ViewOf[s] \in View
           /\ disk.head.map \subseteq Tid /\ everMapped \subseteq Tid
BY SessionAssumption DEF TypeOK, Files, Header, Memory, Counter, Tid

LEMMA IdsAtWork ==
    ASSUME TypeOK, Control, Ids, NEW s \in Session, NEW y \in Memory, NEW at, NEW id \in 0 .. MaxId,
           Works(s, y, at, id)
    PROVE  Ids'
<1> USE NextTyped
<1>1. IdsOnDisk'
  BY DEF Works, Ids, IdsOnDisk
<1>2. IdsInViews'
  <2> DEFINE v == ViewOf[s]
  <2>1. y.head.next \in Nat /\ v \in View /\ id \in Nat
    BY DEF Memory, Counter
  <2>2. view[v].head.next <= y.head.next /\ id < y.head.next
    BY DEF Works
  <2>3. ASSUME NEW t \in Tid, y.body[t] # {} PROVE t \in everMapped \/ t < y.head.next
    <3>1. t \in everMapped \/ t < view[v].head.next
      BY <2>3 DEF Works, Ids, IdsOnDisk, IdsInViews
    <3> QED
      BY <2>1, <2>2, <3>1
  <2>4. ASSUME NEW w \in View, NEW t \in Tid, view'[w].body[t] # {}
        PROVE  t \in everMapped \/ t < view'[w].head.next
    BY <2>3, <2>4 DEF Works, Becomes, Ids, IdsInViews
  <2>5. ASSUME NEW x \in Session PROVE held'[x] < view'[ViewOf[x]].head.next
    <3>1. held[x] < view[ViewOf[x]].head.next
      BY DEF Ids, IdsInViews
    <3>2. held'[x] = IF x = s THEN id ELSE held[x]
      BY DEF Works, TypeOK
    <3>3. view'[ViewOf[x]] = IF ViewOf[x] = v THEN y ELSE view[ViewOf[x]]
      BY DEF Works, Becomes
    <3> QED
      BY <2>1, <2>2, <3>1, <3>2, <3>3
  <2> QED
    BY <2>4, <2>5 DEF IdsInViews, Works
<1>3. IdsInCommit'
  <2>1. (lock # s /\ pc'[lock] = pc[lock]) \/ lock = None
    BY DEF Works, Control, ControlOf, TypeOK
  <2> QED
    BY <2>1 DEF Works, Ids, IdsInCommit
<1> QED
  BY <1>1, <1>2, <1>3 DEF Ids

LEMMA IdsWhenOpened ==
    ASSUME TypeOK, Control, Ids, NEW s \in Session, Open(s) \/ FinishOpen(s),
           UNCHANGED <<disk, held, everMapped>>, lock' = None,
           \A x \in Session : ViewOf[x] = ViewOf[s] => held[x] = 0
    PROVE  Ids'
<1> USE NextTyped
<1>1. PICK y : Becomes(s, y) /\ IsFresh(y)
  BY OpenIs
<1>2. disk.head.next > 0
  BY DEF TypeOK, Files, Header, Counter
<1>3. ASSUME NEW w \in View, NEW t \in Tid, view'[w].body[t] # {}
      PROVE  t \in everMapped \/ t < view'[w].head.next
  <2>1. CASE w = ViewOf[s]
    <3>1. y.body[t] # {}
      BY <1>1, <1>3, <2>1 DEF Becomes
    <3>2. disk.shard[t] # {}
      <4>1. y.body[t] \in {disk.shard[t], {}}
        BY <1>1, Zenon DEF IsFresh
      <4> QED
        BY <3>1, <4>1
    <3>3. t \in everMapped
      BY <3>2 DEF Ids, IdsOnDisk
    <3> QED
      BY <3>3
  <2>2. CASE w # ViewOf[s]
    BY <1>1, <1>3, <2>2 DEF Becomes, Ids, IdsInViews
  <2> QED
    BY <2>1, <2>2
<1>4. ASSUME NEW x \in Session PROVE held[x] < view'[ViewOf[x]].head.next
  BY <1>1, <1>2 DEF Becomes, IsFresh, Ids, IdsInViews
<1> QED
  BY <1>3, <1>4 DEF Ids, IdsOnDisk, IdsInViews, IdsInCommit

LEMMA IdsStep ==
    ASSUME TypeOK, Control, Ids, Next
    PROVE  Ids'
<1> USE NextTyped
<1>1. ASSUME NEW s \in Session, WorkStep(s) PROVE Ids'
  BY <1>1, WorksIs, IdsAtWork
<1>2. ASSUME NEW s \in Session, MergeSave(s) PROVE Ids'
  <2> DEFINE v == ViewOf[s]
  <2>1. v \in View /\ view[v] \in Memory
    BY ViewTyped
  <2>2. /\ UNCHANGED <<disk, view, held, everMapped>> /\ lock = None /\ lock' = s
        /\ commit' = Merge(view[v]) /\ pc'[s] = "merged"
    BY <1>2 DEF MergeSave, At, TypeOK, history
  <2>3. Merges(view[v], commit')
    BY <2>1, <2>2, MergeIs
  <2>4. /\ disk.head.next <= commit'.head.next /\ view[v].head.next <= commit'.head.next
        /\ commit' \in Merged
    BY <2>3 DEF Merges
  <2>5. ASSUME NEW t \in Tid
        PROVE  /\ PartOf[t] \in view[v].dirty => commit'.body[t] = view[v].body[t]
               /\ PartOf[t] \notin view[v].dirty => commit'.body[t] = disk.shard[t]
               /\ t \in commit'.head.map => view[v].body[t] # {} \/ t \in disk.head.map
    BY <2>3 DEF Merges
  <2>6. \A t \in Tid : commit'.body[t] # {} =>
            (PartOf[t] \in view[v].dirty /\ view[v].body[t] # {}) \/ t \in everMapped
    BY <2>5 DEF Ids, IdsOnDisk
  <2>7. \A t \in Tid : PartOf[t] \in view[v].dirty /\ view[v].body[t] # {} => t \in commit'.head.map
    BY <2>3 DEF Merges
  <2>8. commit'.head.next \in Nat /\ commit'.head.map \subseteq Tid
    BY <2>4 DEF Merged, Header, Counter
  <2>9. \A t \in commit'.head.map : t < commit'.head.next
    <3>1. SUFFICES ASSUME NEW t \in commit'.head.map PROVE t < commit'.head.next
      OBVIOUS
    <3>2. t \in Tid /\ (t < view[v].head.next \/ t < disk.head.next)
      BY <2>1, <2>5, <2>8 DEF Ids, IdsOnDisk, IdsInViews
    <3> QED
      BY <2>1, <2>4, <2>8, <3>2
  <2>10. IdsInCommit'
    BY <2>2, <2>4, <2>6, <2>7, <2>9 DEF IdsInCommit
  <2> QED
    BY <2>2, <2>10 DEF Ids, IdsOnDisk, IdsInViews
<1>3. ASSUME NEW s \in Session, CommitHeader(s) PROVE Ids'
  <2>1. lock = s /\ lock # None /\ commit \in Merged
    BY <1>3, Holder DEF CommitHeader, At
  <2>2. /\ UNCHANGED <<view, held, lock, commit>>
        /\ disk'.head = commit.head /\ disk'.shard = disk.shard
        /\ everMapped' = everMapped \cup commit.head.map
    BY <1>3 DEF CommitHeader, TypeOK, Files
  <2>3. commit.head.next \in Nat
    BY <2>1 DEF Merged, Header, Counter
  <2>4. IdsInCommit
    BY DEF Ids
  <2>5. \A t \in everMapped' : t < commit.head.next
    BY <2>1, <2>2, <2>3, <2>4 DEF Ids, IdsInCommit, IdsOnDisk
  <2>6. IdsOnDisk'
    BY <2>2, <2>5 DEF Ids, IdsOnDisk
  <2>7. IdsInViews'
    BY <2>2 DEF Ids, IdsInViews
  <2>8. IdsInCommit'
    BY <2>1, <2>2, <2>3, <2>4 DEF IdsInCommit
  <2> QED
    BY <2>6, <2>7, <2>8 DEF Ids
<1>4. ASSUME NEW s \in Session, CommitShard(s) PROVE Ids'
  <2>1. lock = s /\ lock # None /\ commit \in Merged
    BY <1>4, Holder DEF CommitShard
  <2>2. /\ UNCHANGED <<view, held, lock, pc, everMapped>> /\ disk'.head = disk.head
        /\ \A t \in Tid : disk'.shard[t] \in {disk.shard[t], commit.body[t]}
        /\ commit'.head = commit.head /\ commit'.body = commit.body
    BY <1>4, <2>1 DEF CommitShard, TypeOK, Files, Merged, history
  <2>3. \A t \in Tid : commit.body[t] # {} => t \in everMapped
    BY <1>4, <2>1 DEF CommitShard, Ids, IdsInCommit
  <2>4. IdsOnDisk'
    BY <2>2, <2>3 DEF Ids, IdsOnDisk
  <2> QED
    BY <2>2, <2>4 DEF Ids, IdsInViews, IdsInCommit
<1>5. ASSUME NEW s \in Session, CommitFeedback(s) PROVE Ids'
  <2>1. lock = s /\ lock # None /\ commit \in Merged
    BY <1>5, Holder DEF CommitFeedback
  <2>2. /\ UNCHANGED <<view, held, lock, pc, everMapped>> /\ disk'.head = disk.head
        /\ disk'.shard = disk.shard
        /\ commit'.head = commit.head /\ commit'.body = commit.body
    BY <1>5, <2>1 DEF CommitFeedback, TypeOK, Files, Merged, history
  <2> QED
    BY <2>2 DEF Ids, IdsOnDisk, IdsInViews, IdsInCommit
<1>6. ASSUME NEW s \in Session, FinishSave(s) PROVE Ids'
  <2> DEFINE v == ViewOf[s]
  <2>1. PICK y : Becomes(s, y) /\ y = [view[v] EXCEPT !.dirty = {}, !.fdirty = {}]
    BY <1>6, FinishSaveIs
  <2>2. y.head = view[v].head /\ y.body = view[v].body
    BY <2>1, ViewTyped DEF Memory
  <2>3. \A w \in View : view'[w].head = view[w].head /\ view'[w].body = view[w].body
    BY <2>1, <2>2 DEF Becomes
  <2>4. UNCHANGED <<disk, held, everMapped>> /\ lock' = None
    BY <1>6 DEF FinishSave, Committed, history
  <2> QED
    BY <2>3, <2>4 DEF Ids, IdsOnDisk, IdsInViews, IdsInCommit
<1>7. ASSUME NEW s \in Session, Return(s) PROVE Ids'
  <2>1. UNCHANGED <<disk, view, held, lock, commit, everMapped>>
    BY <1>7 DEF Return, history
  <2>2. pc'[lock] = "headed" => pc[lock] = "headed"
    BY <1>7 DEF Return, At, TypeOK
  <2> QED
    BY <2>1, <2>2 DEF Ids, IdsOnDisk, IdsInViews, IdsInCommit
<1>8. ASSUME NEW s \in Session, SaveFails(s) PROVE Ids'
  <2>1. UNCHANGED <<disk, view, held, everMapped>> /\ (lock' = None \/ UNCHANGED <<lock, commit>>)
    BY <1>8 DEF SaveFails, history
  <2>2. pc'[lock] = "headed" => pc[lock] = "headed"
    BY <1>8 DEF SaveFails, TypeOK
  <2> QED
    BY <2>1, <2>2 DEF Ids, IdsOnDisk, IdsInViews, IdsInCommit
<1>9. ASSUME NEW s \in Session, Open(s) PROVE Ids'
  <2>1. UNCHANGED <<disk, held, everMapped, lock>> /\ lock = None /\ Opened(ViewOf[s]) /\ ViewOf[s] \notin live
    BY <1>9 DEF Open, history
  <2>2. \A x \in Session : ViewOf[x] = ViewOf[s] => held[x] = 0
    BY <2>1, SessionAssumption DEF Control, ControlOf, TypeOK
  <2> QED
    BY <1>9, <2>1, <2>2, IdsWhenOpened
<1>10. ASSUME NEW s \in Session, OpenAndRepair(s) PROVE Ids'
  <2>1. /\ UNCHANGED <<disk, view, held, everMapped>> /\ lock' = s /\ pc'[s] = "merged"
        /\ commit'.head.map = disk.head.map \ Orphans /\ commit'.head.next = disk.head.next
        /\ \A t \in Tid : commit'.body[t] \in {disk.shard[t], {}}
    BY <1>10 DEF OpenAndRepair, At, TypeOK, Repaired, history
  <2>2. IdsInCommit'
    BY <2>1 DEF Ids, IdsOnDisk, IdsInCommit
  <2> QED
    BY <2>1, <2>2 DEF Ids, IdsOnDisk, IdsInViews
<1>11. ASSUME NEW s \in Session, FinishOpen(s) PROVE Ids'
  <2>1. UNCHANGED <<disk, held, everMapped>> /\ lock' = None /\ lock = s
    BY <1>11 DEF FinishOpen, Committed, history
  <2>2. \A x \in Session : ViewOf[x] = ViewOf[s] => held[x] = 0
    <3>1. pc[s] = "headed" /\ ViewOf[s] \notin live
      BY <1>11, <2>1 DEF FinishOpen, Control, ControlOf
    <3> QED
      BY <2>1, <3>1, SessionAssumption DEF Control, ControlOf, TypeOK
  <2> QED
    BY <1>11, <2>1, <2>2, IdsWhenOpened
<1>12. ASSUME NEW v \in View, Crash(v) PROVE Ids'
  <2>1. /\ UNCHANGED <<disk, everMapped>> /\ view' = [view EXCEPT ![v] = EmptyView]
        /\ \A x \in Session : held'[x] = IF ViewOf[x] = v THEN 0 ELSE held[x]
        /\ \A x \in Session : pc'[x] \in {"down", pc[x]}
        /\ lock' = None \/ UNCHANGED <<lock, commit>>
    BY <1>12 DEF Crash, history
  <2>2. EmptyView.head.next = 1 /\ \A t \in Tid : EmptyView.body[t] = {}
    BY DEF EmptyView, NoBodies
  <2>3. \A w \in View : view'[w] = IF w = v THEN EmptyView ELSE view[w]
    BY <2>1 DEF TypeOK
  <2>4. IdsInViews'
    BY <2>1, <2>2, <2>3 DEF Ids, IdsInViews
  <2>5. IdsInCommit'
    BY <2>1 DEF Ids, IdsInCommit, TypeOK
  <2> QED
    BY <2>1, <2>4, <2>5 DEF Ids, IdsOnDisk
<1> QED
  BY <1>1, <1>2, <1>3, <1>4, <1>5, <1>6, <1>7, <1>8, <1>9, <1>10, <1>11, <1>12
     DEF Next, WorkStep

LEMMA IdsInit == Init => Ids
<1> SUFFICES ASSUME Init PROVE Ids
  OBVIOUS
<1>1. \A v \in View : view[v].head.next = 1 /\ \A t \in Tid : view[v].body[t] = {}
  BY DEF Init, EmptyView, NoBodies
<1>2. \A s \in Session : held[s] = 0 /\ ViewOf[s] \in View
  BY SessionAssumption DEF Init
<1>3. disk.head.map = {} /\ everMapped = {} /\ lock = None /\ \A t \in Tid : disk.shard[t] = {}
  BY DEF Init, NoBodies
<1> QED
  BY <1>1, <1>2, <1>3 DEF Ids, IdsOnDisk, IdsInViews, IdsInCommit

\* The steps that reserve nothing give no session an id.
LEMMA HeldStep ==
    ASSUME TypeOK, Control, Next
    PROVE  \/ \E s \in Session : WorkStep(s)
           \/ \A s \in Session : held'[s] \in {0, held[s]}
<1>1. ASSUME NEW s \in Session,
             \/ MergeSave(s) \/ CommitHeader(s) \/ CommitShard(s) \/ CommitFeedback(s)
             \/ FinishSave(s) \/ Return(s) \/ SaveFails(s) \/ Open(s) \/ OpenAndRepair(s)
             \/ FinishOpen(s)
      PROVE  held' = held
  BY <1>1 DEF MergeSave, CommitHeader, CommitShard, CommitFeedback, FinishSave, Return,
              SaveFails, Open, OpenAndRepair, FinishOpen
<1>2. ASSUME NEW v \in View, Crash(v) PROVE \A s \in Session : held'[s] \in {0, held[s]}
  BY <1>2 DEF Crash
<1> QED
  BY <1>1, <1>2 DEF Next, WorkStep

\* No session is given an id that a committed header ever named, not even the id of a
\* template that was removed since, whoever else works on the store meanwhile.
THEOREM IdsAreNew == Spec => IdNeverReissued
<1>1. TypeOK /\ Control /\ Ids /\ [Next]_vars => Ids'
  <2>1. Ids /\ UNCHANGED vars => Ids'
    BY DEF vars, history, Ids, IdsOnDisk, IdsInViews, IdsInCommit
  <2> QED
    BY <2>1, IdsStep
<1>2. TypeOK /\ Control /\ Ids /\ [Next]_vars =>
        [\A s \in Session : held'[s] # held[s] => held'[s] \notin everMapped]_vars
  <2> SUFFICES ASSUME TypeOK, Control, Ids, Next, NEW x \in Session, held'[x] # held[x]
               PROVE  held'[x] \notin everMapped
    OBVIOUS
  <2>1. /\ 0 \notin everMapped /\ everMapped \subseteq Nat /\ disk.head.next \in Nat
        /\ \A t \in everMapped : t < disk.head.next
    BY NextTyped DEF TypeOK, Ids, IdsOnDisk, Tid
  <2>2. ASSUME NEW s \in Session, WorkStep(s) PROVE held'[x] \notin everMapped
    <3>1. PICK y \in Memory, at \in {"idle", "reserved", "counted"}, id \in 0 .. MaxId :
            Works(s, y, at, id)
      BY <2>2, WorksIs
    <3>2. held'[x] = id /\ (id = 0 \/ id >= disk.head.next)
      BY <3>1 DEF Works, TypeOK
    <3> QED
      BY <2>1, <3>2
  <2> QED
    BY <2>1, <2>2, HeldStep
<1> QED
  BY <1>1, <1>2, IdsInit, Typed, PTL DEF Spec, IdNeverReissued

LEMMA ReplacedStep ==
    ASSUME TypeOK, Control, Replaced, Next
    PROVE  Replaced'
<1>1. ASSUME NEW s \in Session, WorkStep(s) PROVE Replaced'
  <2>1. PICK y \in Memory, at \in {"idle", "reserved", "counted"}, id \in 0 .. MaxId :
          Works(s, y, at, id)
    BY <1>1, WorksIs
  <2>2. (lock # s /\ pc'[lock] = pc[lock]) \/ lock = None
    BY <2>1 DEF Works, Control, ControlOf, TypeOK
  <2> QED
    BY <2>1, <2>2 DEF Works, Replaced
<1>2. ASSUME NEW s \in Session, MergeSave(s) PROVE Replaced'
  <2>1. Merges(view[ViewOf[s]], commit')
    BY <1>2, ViewTyped, MergeIs DEF MergeSave
  <2>2. lock' = s /\ pc'[s] = "merged" /\ disk' = disk
    BY <1>2 DEF MergeSave, At, TypeOK
  <2> QED
    BY <2>1, <2>2 DEF Merges, Replaced
<1>3. ASSUME NEW s \in Session, CommitHeader(s) PROVE Replaced'
  <2>1. lock = s /\ lock # None
    BY <1>3, Holder DEF CommitHeader, At
  <2>2. UNCHANGED <<lock, commit>> /\ disk'.head = commit.head /\ disk'.shard = disk.shard
    BY <1>3 DEF CommitHeader, TypeOK, Files
  <2> QED
    BY <2>1, <2>2 DEF Replaced
<1>4. ASSUME NEW s \in Session, CommitShard(s) PROVE Replaced'
  <2>1. lock = s /\ lock # None /\ commit \in Merged
    BY <1>4, Holder DEF CommitShard
  <2> DEFINE p == Min(commit.parts)
  <2>2. /\ UNCHANGED <<lock, pc>> /\ disk'.head = disk.head
        /\ \A t \in Tid : disk'.shard[t] = IF PartOf[t] = p THEN commit.body[t] ELSE disk.shard[t]
        /\ commit'.head = commit.head /\ commit'.body = commit.body
        /\ commit'.opening = commit.opening /\ commit'.parts = commit.parts \ {p}
    BY <1>4, <2>1 DEF CommitShard, TypeOK, Files, Bodies, Merged
  <2> HIDE DEF p
  <2> QED
    BY <2>1, <2>2 DEF Replaced
<1>5. ASSUME NEW s \in Session, CommitFeedback(s) PROVE Replaced'
  <2>1. lock = s /\ lock # None /\ commit \in Merged
    BY <1>5, Holder DEF CommitFeedback
  <2>2. /\ UNCHANGED <<lock, pc>> /\ disk'.head = disk.head /\ disk'.shard = disk.shard
        /\ commit'.head = commit.head /\ commit'.body = commit.body
        /\ commit'.opening = commit.opening /\ commit'.parts = commit.parts
    BY <1>5, <2>1 DEF CommitFeedback, TypeOK, Files, Merged
  <2> QED
    BY <2>2 DEF Replaced
<1>6. ASSUME NEW s \in Session, FinishSave(s) \/ FinishOpen(s) PROVE Replaced'
  BY <1>6 DEF FinishSave, FinishOpen, Committed, Replaced
<1>7. ASSUME NEW s \in Session, Return(s) PROVE Replaced'
  <2>1. UNCHANGED <<disk, lock, commit>> /\ (pc'[lock] = "headed" => pc[lock] = "headed")
    BY <1>7 DEF Return, At, TypeOK
  <2> QED
    BY <2>1 DEF Replaced
<1>8. ASSUME NEW s \in Session, SaveFails(s) PROVE Replaced'
  <2>1. /\ disk' = disk /\ (lock' = None \/ UNCHANGED <<lock, commit>>)
        /\ pc'[lock] = "headed" => pc[lock] = "headed"
    BY <1>8 DEF SaveFails, TypeOK
  <2> QED
    BY <2>1 DEF Replaced
<1>9. ASSUME NEW s \in Session, Open(s) PROVE Replaced'
  BY <1>9 DEF Open, Replaced
<1>10. ASSUME NEW s \in Session, OpenAndRepair(s) PROVE Replaced'
  <2>1. /\ disk' = disk /\ lock' = s /\ pc'[s] = "merged"
        /\ commit'.head.map = disk.head.map \ Orphans
        /\ commit'.parts = {PartOf[t] : t \in Strays}
        /\ \A t \in Tid : commit'.body[t] = IF t \in Strays THEN {} ELSE disk.shard[t]
    BY <1>10 DEF OpenAndRepair, At, TypeOK, Repaired
  <2>2. \A t \in Tid : PartOf[t] \notin commit'.parts => disk'.shard[t] = commit'.body[t]
    BY <2>1
  <2>3. \A t \in Tid : commit'.body[t] # {} <=> t \in commit'.head.map
    BY <2>1 DEF Orphans, Strays
  <2> QED
    BY <2>1, <2>2, <2>3 DEF Replaced
<1>11. ASSUME NEW v \in View, Crash(v) PROVE Replaced'
  <2>1. /\ disk' = disk /\ (lock' = None \/ UNCHANGED <<lock, commit>>)
        /\ \A x \in Session : pc'[x] \in {"down", pc[x]}
    BY <1>11 DEF Crash
  <2> QED
    BY <2>1 DEF Replaced, TypeOK
<1> QED
  BY <1>1, <1>2, <1>3, <1>4, <1>5, <1>6, <1>7, <1>8, <1>9, <1>10, <1>11 DEF Next, WorkStep

\* A view that has been opened finds the header and the template shards agreeing:
\* either they do and nothing is repaired, or its repair has been written before.
THEOREM OpensRepaired == Spec => RepairedWhenOpened
<1>1. Init => Replaced
  BY DEF Init, Replaced
<1>2. TypeOK /\ Control /\ Replaced /\ [Next]_vars => Replaced'
  <2>1. Replaced /\ UNCHANGED vars => Replaced'
    BY DEF vars, Replaced
  <2> QED
    BY <2>1, ReplacedStep
<1>3. TypeOK /\ Control /\ Replaced /\ [Next]_vars =>
        [\A v \in live' \ live : \A t \in Tid :
            t \in view'[v].head.map <=> disk'.shard[t] # {}]_vars
  <2> SUFFICES ASSUME TypeOK, Control, Replaced, Next, NEW v \in live' \ live, NEW t \in Tid
               PROVE  t \in view'[v].head.map <=> disk'.shard[t] # {}
    OBVIOUS
  <2>1. ASSUME NEW s \in Session, Open(s) \/ FinishOpen(s)
        PROVE  t \in view'[v].head.map <=> disk'.shard[t] # {}
    <3>1. PICK y : Becomes(s, y) /\ IsFresh(y)
      BY <2>1, OpenIs
    <3>2. v = ViewOf[s] /\ disk' = disk
      BY <2>1 DEF Open, FinishOpen, Opened
    <3>3. view'[v].head.map = disk.head.map \ Orphans
      BY <3>1, <3>2 DEF Becomes, IsFresh
    <3>4. t \in disk.head.map \ Orphans <=> disk.shard[t] # {}
      <4>1. CASE Open(s)
        BY <4>1 DEF Open, NeedsRepair, Orphans, Strays
      <4>2. CASE FinishOpen(s)
        <5>1. /\ lock = s /\ pc[s] = "headed" /\ commit.opening /\ commit.parts = {}
          BY <4>2 DEF FinishOpen, Committed
        <5>2. lock # None
          BY <5>1, Holder
        <5>3. disk.head = commit.head /\ disk.shard[t] = commit.body[t]
              /\ (commit.body[t] # {} <=> t \in commit.head.map)
          BY <5>1, <5>2 DEF Replaced
        <5> QED
          BY <5>3 DEF Orphans
      <4> QED
        BY <2>1, <4>1, <4>2
    <3> QED
      BY <3>2, <3>3, <3>4
  <2>2. ASSUME NEW s \in Session,
               \/ WorkStep(s) \/ MergeSave(s) \/ CommitHeader(s) \/ CommitShard(s)
               \/ CommitFeedback(s) \/ FinishSave(s) \/ Return(s) \/ SaveFails(s)
               \/ OpenAndRepair(s)
        PROVE  FALSE
    BY <2>2 DEF WorkStep, Reserve, PutNew, Improve, RemoveTemplate, RecordFeedback,
                ForgetFeedback, CountRows, MergeSave, CommitHeader, CommitShard,
                CommitFeedback, FinishSave, Return, SaveFails, OpenAndRepair
  <2>3. ASSUME NEW w \in View, Crash(w) PROVE FALSE
    BY <2>3 DEF Crash
  <2> QED
    BY <2>1, <2>2, <2>3 DEF Next, WorkStep
<1> QED
  BY <1>1, <1>2, <1>3, Typed, PTL DEF Spec, RepairedWhenOpened

LEMMA MarksIn ==
    ASSUME NEW H, NEW f, NEW g, NEW D, DOMAIN f = D, DOMAIN g = D,
           NEW h, h \in [D -> SUBSET Mark], \A x \in D : h[x] \in {f[x], g[x]},
           Marks(f) \subseteq H, Marks(g) \subseteq H
    PROVE  Marks(h) \subseteq H
BY DEF Marks

LEMMA AccountedStep ==
    ASSUME TypeOK, Control, Accounted, Next
    PROVE  Accounted'
<1>1. ASSUME NEW s \in Session, WorkStep(s) PROVE Accounted'
  <2>1. PICK y \in Memory, at \in {"idle", "reserved", "counted"}, id \in 0 .. MaxId :
          Works(s, y, at, id)
    BY <1>1, WorksIs
  <2>2. (lock # s /\ pc'[lock] = pc[lock]) \/ lock = None
    BY <2>1 DEF Works, Control, ControlOf, TypeOK
  <2> QED
    BY <2>1, <2>2 DEF Works, Accounted, HeaderFirst, CacheHoldsFeedback
<1>2. ASSUME NEW s \in Session, MergeSave(s) \/ OpenAndRepair(s) PROVE Accounted'
  <2>1. /\ UNCHANGED <<use, disk, headed>> /\ lock' = s /\ pc'[s] = "merged"
    BY <1>2 DEF MergeSave, OpenAndRepair, At, TypeOK, history
  <2> QED
    BY <2>1 DEF Accounted, HeaderFirst, CacheHoldsFeedback
<1>3. ASSUME NEW s \in Session, CommitHeader(s) PROVE Accounted'
  <2>1. /\ UNCHANGED <<use, lock, commit>>
        /\ disk'.shard = disk.shard /\ disk'.fshard = disk.fshard
        /\ headed' = headed \cup Marks(commit.body) \cup Marks(commit.rows)
    BY <1>3 DEF CommitHeader, TypeOK, Files
  <2> QED
    BY <2>1 DEF Accounted, HeaderFirst, CacheHoldsFeedback
<1>4. ASSUME NEW s \in Session, CommitShard(s) PROVE Accounted'
  <2>1. lock = s /\ lock # None /\ commit \in Merged /\ pc[lock] = "headed"
    BY <1>4, Holder DEF CommitShard
  <2>2. /\ UNCHANGED <<use, lock, pc, headed>> /\ disk'.fshard = disk.fshard
        /\ disk.shard \in Bodies /\ commit.body \in Bodies /\ disk'.shard \in Bodies
        /\ \A t \in Tid : disk'.shard[t] \in {disk.shard[t], commit.body[t]}
        /\ commit'.body = commit.body /\ commit'.rows = commit.rows
    BY <1>4, <2>1 DEF CommitShard, TypeOK, Files, Bodies, Merged, history
  <2>3. ASSUME CacheHoldsFeedback PROVE Marks(disk'.shard) \subseteq headed
    <3>1. Marks(disk.shard) \subseteq headed /\ Marks(commit.body) \subseteq headed
      BY <2>1, <2>3 DEF Accounted, HeaderFirst
    <3> QED
      BY <2>2, <3>1, MarksIn DEF Bodies
  <2> QED
    BY <2>1, <2>2, <2>3 DEF Accounted, HeaderFirst, CacheHoldsFeedback
<1>5. ASSUME NEW s \in Session, CommitFeedback(s) PROVE Accounted'
  <2>1. lock = s /\ lock # None /\ commit \in Merged /\ pc[lock] = "headed"
    BY <1>5, Holder DEF CommitFeedback
  <2>2. /\ UNCHANGED <<use, lock, pc, headed>> /\ disk'.shard = disk.shard
        /\ disk.fshard \in Rows /\ commit.rows \in Rows /\ disk'.fshard \in Rows
        /\ \A q \in Question : disk'.fshard[q] \in {disk.fshard[q], commit.rows[q]}
        /\ commit'.body = commit.body /\ commit'.rows = commit.rows
    BY <1>5, <2>1 DEF CommitFeedback, TypeOK, Files, Rows, Merged, history
  <2>3. ASSUME CacheHoldsFeedback PROVE Marks(disk'.fshard) \subseteq headed
    <3>1. Marks(disk.fshard) \subseteq headed /\ Marks(commit.rows) \subseteq headed
      BY <2>1, <2>3 DEF Accounted, HeaderFirst
    <3> QED
      BY <2>2, <3>1, MarksIn DEF Rows
  <2> QED
    BY <2>1, <2>2, <2>3 DEF Accounted, HeaderFirst, CacheHoldsFeedback
<1>6. ASSUME NEW s \in Session,
             \/ FinishSave(s) \/ Return(s) \/ SaveFails(s) \/ Open(s) \/ FinishOpen(s)
      PROVE  Accounted'
  <2>1. /\ UNCHANGED <<use, disk, headed>> /\ (lock' = None \/ UNCHANGED <<lock, commit>>)
    BY <1>6 DEF FinishSave, Return, SaveFails, Open, FinishOpen, Committed, history
  <2>2. lock' = None \/ (pc'[lock] = "headed" => pc[lock] = "headed")
    BY <1>6 DEF FinishSave, Return, SaveFails, Open, Opened, FinishOpen, Committed, At, TypeOK
  <2> QED
    BY <2>1, <2>2 DEF Accounted, HeaderFirst, CacheHoldsFeedback
<1>7. ASSUME NEW v \in View, Crash(v) PROVE Accounted'
  <2>1. /\ UNCHANGED <<use, disk, headed>> /\ (lock' = None \/ UNCHANGED <<lock, commit>>)
        /\ \A x \in Session : pc'[x] \in {"down", pc[x]}
    BY <1>7 DEF Crash, history
  <2> QED
    BY <2>1 DEF Accounted, HeaderFirst, CacheHoldsFeedback, TypeOK
<1> QED
  BY <1>1, <1>2, <1>3, <1>4, <1>5, <1>6, <1>7 DEF Next, WorkStep

\* As long as no dirty feedback is evicted, what the shard files hold has been accounted
\* for by a header that was committed before: the header goes first, and a save that
\* dies half way leaves no change in a shard that no header knows of.
THEOREM HeadersFirst == Spec => []HeaderFirst
<1>1. Init => Accounted
  <2> SUFFICES ASSUME Init PROVE Accounted
    OBVIOUS
  <2>1. Marks(disk.shard) = {} /\ Marks(disk.fshard) = {} /\ lock = None
    BY DEF Init, NoBodies, NoRows, Marks
  <2> QED
    BY <2>1 DEF Accounted, HeaderFirst
<1>2. TypeOK /\ Control /\ Accounted /\ [Next]_vars => Accounted'
  <2>1. Accounted /\ UNCHANGED vars => Accounted'
    BY DEF vars, history, Accounted, HeaderFirst, CacheHoldsFeedback
  <2> QED
    BY <2>1, AccountedStep
<1>3. Accounted => HeaderFirst
  BY DEF Accounted, HeaderFirst
<1> QED
  BY <1>1, <1>2, <1>3, Typed, PTL DEF Spec
-----------------------------------------------------------------------------
(***************************************************************************)
(* A store that one session uses.                                          *)
(***************************************************************************)

LEMMA UseStays ==
    ASSUME Next
    PROVE  use' = use
<1>1. ASSUME NEW s \in Session, WorkStep(s) PROVE use' = use
  BY <1>1 DEF WorkStep, Reserve, PutNew, Improve, RemoveTemplate, RecordFeedback,
              ForgetFeedback, CountRows
<1>2. ASSUME NEW s \in Session,
             \/ MergeSave(s) \/ CommitHeader(s) \/ CommitShard(s) \/ CommitFeedback(s)
             \/ FinishSave(s) \/ Return(s) \/ SaveFails(s) \/ Open(s) \/ OpenAndRepair(s)
             \/ FinishOpen(s)
      PROVE  use' = use
  BY <1>2 DEF MergeSave, CommitHeader, CommitShard, CommitFeedback, FinishSave, Return,
              SaveFails, Open, OpenAndRepair, FinishOpen
<1>3. ASSUME NEW v \in View, Crash(v) PROVE use' = use
  BY <1>3 DEF Crash
<1> QED
  BY <1>1, <1>2, <1>3 DEF Next, WorkStep

\* The only session holds the lock if anybody does.
LEMMA Only ==
    ASSUME TypeOK, Control, Alone, NEW s \in Session, pc[s] # "down" \/ s \in use.sessions
    PROVE  /\ use.sessions = {s}
           /\ lock # None => lock = s
           /\ pc[s] \notin {"merged", "headed"} => lock = None
<1>1. s \in use.sessions
  BY DEF Control, ControlOf
<1>2. use.sessions = {s}
  BY <1>1 DEF Alone
<1>3. lock # None => lock \in use.sessions
  BY DEF TypeOK, Control, ControlOf
<1> QED
  BY <1>2, <1>3 DEF Control, ControlOf

LEMMA CrashOnly ==
    ASSUME TypeOK, Control, Alone, NEW v \in View, Crash(v)
    PROVE  \E s \in Session : /\ use.sessions = {s} /\ ViewOf[s] = v
                              /\ pc'[s] = "down" /\ lock' = None
<1>1. PICK s \in Session : s \in use.sessions /\ ViewOf[s] = v
  BY UseTyped DEF Crash, SessionsOf, TypeOK
<1>2. use.sessions = {s} /\ (lock # None => lock = s)
  BY <1>1, Only
<1>3. lock' = None
  BY <1>1, <1>2 DEF Crash, SessionsOf
<1> QED
  BY <1>1, <1>2, <1>3 DEF Crash

LEMMA SingleStep ==
    ASSUME TypeOK, Control, Ids, Single, Next
    PROVE  Single'
<1> SUFFICES ASSUME Alone, NEW x \in use.sessions PROVE OneSession(x)'
  BY UseStays DEF Single, Alone
<1>1. x \in Session
  BY UseTyped DEF TypeOK
<1>2. \A s \in Session : pc[s] # "down" \/ s \in use.sessions => s = x
  BY <1>1, Only
<1>3. ASSUME NEW s \in Session, Reserve(s) PROVE OneSession(x)'
  <2>1. s = x /\ pc'[x] = "reserved"
    BY <1>2, <1>3 DEF Reserve, At, TypeOK
  <2> DEFINE v == ViewOf[x]
             id == NextId(view[v])
  <2>2. v \in View /\ view[v] \in Memory
    BY <1>1, ViewTyped
  <2>3. held'[x] = id /\ view'[v].body = view[v].body /\ everMapped' = everMapped
    BY <1>3, <2>1, <2>2 DEF Reserve, TypeOK, Memory, history
  <2>4. id \in Counter /\ view[v].head.next <= id /\ disk.head.next <= id
    BY <2>2, NextIdIs
  <2>5. id \in Tid
    BY <1>1, <1>3, <2>1, <2>4, UseTyped DEF Reserve, Tid, Counter, TypeOK
  <2> HIDE DEF id
  <2>6. id \notin everMapped
    BY <2>4, <2>5, NextTyped DEF Ids, IdsOnDisk
  <2>7. view[v].body[id] = {}
    BY <2>2, <2>4, <2>5, <2>6, NextTyped DEF Ids, IdsInViews
  <2> QED
    BY <2>1, <2>3, <2>6, <2>7 DEF OneSession
<1>4. ASSUME NEW s \in Session, WorkStep(s), ~ Reserve(s) PROVE OneSession(x)'
  <2>1. pc[s] \in {"idle", "reserved"} /\ pc'[s] \in {"idle", "counted"}
    BY <1>4 DEF WorkStep, PutNew, Improve, RemoveTemplate, RecordFeedback, ForgetFeedback,
                CountRows, Idle, At, TypeOK
  <2>2. s = x
    BY <1>2, <2>1
  <2> QED
    BY <2>1, <2>2 DEF OneSession
<1>5. ASSUME NEW s \in Session,
             \/ MergeSave(s) \/ CommitHeader(s) \/ CommitShard(s) \/ CommitFeedback(s)
             \/ Return(s) \/ SaveFails(s) \/ Open(s) \/ OpenAndRepair(s) \/ FinishOpen(s)
      PROVE  OneSession(x)'
  <2>1. s = x
    <3>1. pc[s] # "down" \/ s \in use.sessions
      BY <1>5 DEF MergeSave, CommitHeader, CommitShard, CommitFeedback, Return, SaveFails,
                  Open, OpenAndRepair, FinishOpen, SessionsOf, At
    <3> QED
      BY <1>2, <3>1
  <2>2. pc'[s] \in {"idle", "down", "merged", "headed"}
    <3>1. ASSUME Open(s) \/ FinishOpen(s) PROVE pc'[s] = "idle"
      BY <2>1, <3>1 DEF Open, FinishOpen, Opened, SessionsOf
    <3> QED
      BY <1>5, <3>1 DEF MergeSave, CommitHeader, CommitShard, CommitFeedback, Return, SaveFails,
                  OpenAndRepair, At, TypeOK
  <2> QED
    BY <2>1, <2>2 DEF OneSession
<1>6. ASSUME NEW s \in Session, FinishSave(s) PROVE OneSession(x)'
  <2>1. s = x /\ pc'[s] = "saved"
    BY <1>2, <1>6 DEF FinishSave, At, TypeOK
  <2>2. PICK y : Becomes(s, y) /\ y = [view[ViewOf[s]] EXCEPT !.dirty = {}, !.fdirty = {}]
    BY <1>6, FinishSaveIs
  <2>3. view'[ViewOf[x]].dirty = {} /\ view'[ViewOf[x]].fdirty = {}
    BY <2>1, <2>2, ViewTyped DEF Becomes, Memory
  <2> QED
    BY <2>1, <2>3 DEF OneSession
<1>7. ASSUME NEW v \in View, Crash(v) PROVE OneSession(x)'
  BY <1>1, <1>7, CrashOnly DEF OneSession
<1> QED
  BY <1>3, <1>4, <1>5, <1>6, <1>7 DEF Next, WorkStep

\* The marks that are owed or durable change only where a session owes or withdraws
\* some, where a save returns and where a process dies.
LEMMA GhostStep ==
    ASSUME TypeOK, Next
    PROVE  \/ \E s \in Session : Owe(s, Fresh)
           \/ \E s \in Session : \E ms \in SUBSET Placed : Withdraw(s, ms)
           \/ \E s \in Session : /\ durable' = durable \cup keep[s] /\ used' = used
                                 /\ keep' = [keep EXCEPT ![s] = {}]
                                 /\ drop' = [drop EXCEPT ![s] = {}]
           \/ \E v \in View : /\ durable' = durable /\ used' = used
                              /\ keep' = [s \in Session |-> IF ViewOf[s] = v THEN {} ELSE keep[s]]
                              /\ drop' = [s \in Session |-> IF ViewOf[s] = v THEN {} ELSE drop[s]]
           \/ UNCHANGED <<used, keep, drop, durable>>
<1>1. ASSUME NEW s \in Session,
             \/ Reserve(s) \/ CountRows(s)
             \/ MergeSave(s) \/ CommitHeader(s) \/ CommitShard(s) \/ CommitFeedback(s)
             \/ FinishSave(s) \/ SaveFails(s) \/ Open(s) \/ OpenAndRepair(s) \/ FinishOpen(s)
      PROVE  UNCHANGED <<used, keep, drop, durable>>
  BY <1>1 DEF Reserve, CountRows, MergeSave, CommitHeader, CommitShard, CommitFeedback,
              FinishSave, SaveFails, Open, OpenAndRepair, FinishOpen, ghosts
<1>2. ASSUME NEW s \in Session,
             PutNew(s) \/ (\E t \in Tid : Improve(s, t)) \/ (\E q \in Question : RecordFeedback(s, q))
      PROVE  Owe(s, Fresh)
  BY <1>2 DEF PutNew, Improve, RecordFeedback
<1>3. ASSUME NEW s \in Session, NEW t \in Tid, RemoveTemplate(s, t)
      PROVE  \E ms \in SUBSET Placed : Withdraw(s, ms)
  <2>1. PICK there : there = Holding(view[ViewOf[s]], t)
    OBVIOUS
  <2>2. PICK y : Becomes(s, y) /\ Changes(view[ViewOf[s]], there, y, t, {})
    BY <1>3, <2>1, RemoveTemplateIs
  <2>3. there.body[t] \subseteq Placed
    <3>1. there.body[t] \subseteq Mark
      BY <2>2 DEF Changes, Loads, Memory, Bodies
    <3>2. \A m \in there.body[t] : m \in view[ViewOf[s]].body[t] \/ m \in disk.shard[t]
      BY <2>2 DEF Changes, Loads
    <3>3. \A m \in there.body[t] : About(m, t)
      BY <3>2, ViewTyped DEF About
    <3> QED
      BY <3>1, <3>3 DEF Placed
  <2> QED
    BY <1>3, <2>1, <2>3, RemoveTemplateIs
<1>4. ASSUME NEW s \in Session, NEW q \in Question, ForgetFeedback(s, q)
      PROVE  \E ms \in SUBSET Placed : Withdraw(s, ms)
  <2>1. PICK there : there = HoldingFeedback(Seen(s), q)
    OBVIOUS
  <2>2. PICK y : Becomes(s, y) /\ ChangesFeedback(Seen(s), there, y, q, {})
    BY <1>4, <2>1, ForgetFeedbackIs
  <2>3. there.vw.rows[q] \subseteq Placed
    <3>1. there.vw.rows[q] \subseteq Mark
      BY <2>2 DEF ChangesFeedback, Reads, Load, Memory, Rows
    <3>2. \A m \in there.vw.rows[q] : m \in view[ViewOf[s]].rows[q] \/ m \in disk.fshard[q]
      BY <2>2, SeenTyped DEF ChangesFeedback, Reads
    <3>3. \A m \in there.vw.rows[q] : AboutFeedback(m, q)
      BY <3>2, ViewTyped DEF AboutFeedback
    <3> QED
      BY <3>1, <3>3 DEF Placed
  <2> QED
    BY <1>4, <2>1, <2>3, ForgetFeedbackIs
<1>5. ASSUME NEW s \in Session, Return(s)
      PROVE  /\ durable' = durable \cup keep[s] /\ used' = used
             /\ keep' = [keep EXCEPT ![s] = {}] /\ drop' = [drop EXCEPT ![s] = {}]
  BY <1>5 DEF Return
<1>6. ASSUME NEW v \in View, Crash(v)
      PROVE  /\ durable' = durable /\ used' = used
             /\ keep' = [s \in Session |-> IF ViewOf[s] = v THEN {} ELSE keep[s]]
             /\ drop' = [s \in Session |-> IF ViewOf[s] = v THEN {} ELSE drop[s]]
  BY <1>6 DEF Crash
<1> QED
  BY <1>1, <1>2, <1>3, <1>4, <1>5, <1>6 DEF Next

LEMMA HandedOutStep ==
    ASSUME TypeOK, HandedOut, Next
    PROVE  HandedOut'
<1> USE UseTyped DEF TypeOK
<1>1. used \in Nat
  OBVIOUS
<1>2. ASSUME NEW s \in Session, Owe(s, Fresh) PROVE HandedOut'
  <2>1. /\ used' = used + 1 /\ 1 .. used \subseteq 1 .. used' /\ used + 1 \in 1 .. used'
    BY <1>1, <1>2 DEF Owe, Fresh
  <2> QED
    BY <1>2, <2>1 DEF Owe, Fresh, HandedOut
<1>3. ASSUME NEW s \in Session, NEW ms \in SUBSET Placed, Withdraw(s, ms) PROVE HandedOut'
  BY <1>3 DEF Withdraw, HandedOut
<1>4. ASSUME NEW s \in Session, durable' = durable \cup keep[s], used' = used,
             keep' = [keep EXCEPT ![s] = {}]
      PROVE  HandedOut'
  BY <1>4 DEF HandedOut
<1>5. ASSUME NEW v \in View, durable' = durable, used' = used,
             keep' = [s \in Session |-> IF ViewOf[s] = v THEN {} ELSE keep[s]]
      PROVE  HandedOut'
  BY <1>5 DEF HandedOut
<1>6. ASSUME UNCHANGED <<used, keep, drop, durable>> PROVE HandedOut'
  BY <1>6 DEF HandedOut
<1> QED
  BY <1>2, <1>3, <1>4, <1>5, <1>6, GhostStep

\* A mark that is in the view or in the file is in what has been loaded.
LEMMA FoundTemplate ==
    ASSUME NEW vw, NEW there, Loads(vw, there), Orderly(vw), NEW t \in Tid, NEW m,
           PartOf[t] \in ToSet(vw.cache) => m \in vw.body[t],
           PartOf[t] \notin vw.dirty => m \in disk.shard[t]
    PROVE  PartOf[t] \in ToSet(there.cache) => m \in there.body[t]
<1>1. CASE PartOf[t] \in vw.dirty
  BY <1>1 DEF Loads, Orderly
<1>2. CASE PartOf[t] \notin vw.dirty
  BY <1>2 DEF Loads
<1> QED
  BY <1>1, <1>2

LEMMA FoundFeedback ==
    ASSUME CacheHoldsFeedback, NEW x, NEW there, Reads(x, there), Orderly(x.vw),
           NEW q \in Question, NEW m,
           FPartOf[q] \in ToSet(x.vw.fcache) => m \in x.vw.rows[q],
           FPartOf[q] \notin x.vw.fdirty => m \in x.files[q]
    PROVE  FPartOf[q] \in ToSet(there.vw.fcache) => m \in there.vw.rows[q]
BY DEF Reads, Retains, Orderly

\* The files stay, nothing becomes durable and nobody saves.
StayFiles ==
    /\ lock = None /\ lock' = None /\ durable' \subseteq durable
    /\ disk'.head = disk.head /\ disk'.shard = disk.shard /\ disk'.fshard = disk.fshard

LEMMA SafeTemplateStays ==
    ASSUME TypeOK, NEW s \in Session, NEW y, Becomes(s, y), StayFiles, NEW m, NEW t \in Tid,
           SafeTemplate(s, m, t), view[ViewOf[s]].dirty \subseteq y.dirty,
           PartOf[t] \in ToSet(y.cache) => m \in y.body[t]
    PROVE  SafeTemplate(s, m, t)'
<1>1. view'[ViewOf[s]] = y
  BY DEF Becomes
<1> QED
  BY <1>1 DEF SafeTemplate, StayFiles

LEMMA SafeFeedbackStays ==
    ASSUME TypeOK, NEW s \in Session, NEW y, Becomes(s, y), StayFiles, NEW m, NEW q \in Question,
           SafeFeedback(s, m, q), view[ViewOf[s]].fdirty \subseteq y.fdirty,
           FPartOf[q] \in ToSet(y.fcache) => m \in y.rows[q]
    PROVE  SafeFeedback(s, m, q)'
<1>1. view'[ViewOf[s]] = y
  BY DEF Becomes
<1> QED
  BY <1>1 DEF SafeFeedback, StayFiles

\* A change of template t loses no mark but those it replaces, and the same for a
\* change of question q.
LEMMA SafeInChange ==
    ASSUME TypeOK, NEW s \in Session, NEW there, NEW y, NEW t \in Tid, NEW marks,
           Becomes(s, y), Changes(view[ViewOf[s]], there, y, t, marks), StayFiles,
           NEW m, IsSafe(s, m), m \in there.body[t] => m \in marks
    PROVE  IsSafe(s, m)'
<1> DEFINE vw == view[ViewOf[s]]
<1>1. /\ Loads(vw, there) /\ Orderly(vw)
      /\ vw.dirty \subseteq y.dirty /\ vw.fdirty \subseteq y.fdirty
      /\ y.cache = there.cache /\ y.fcache = vw.fcache /\ y.rows = vw.rows
      /\ y.body[t] = marks /\ \A u \in Tid : u # t => y.body[u] = there.body[u]
  BY ViewTyped DEF Changes
<1>2. ASSUME NEW u \in Tid, SafeTemplate(s, m, u) PROVE IsSafe(s, m)'
  <2>1. PartOf[u] \in ToSet(there.cache) => m \in there.body[u]
    <3>1. /\ PartOf[u] \in ToSet(vw.cache) => m \in vw.body[u]
          /\ PartOf[u] \notin vw.dirty => m \in disk.shard[u]
      BY <1>2 DEF SafeTemplate
    <3> HIDE DEF vw
    <3> QED
      BY <1>1, <3>1, FoundTemplate
  <2>2. PartOf[u] \in ToSet(y.cache) => m \in y.body[u]
    BY <1>1, <2>1
  <2>3. SafeTemplate(s, m, u)'
    BY <1>1, <1>2, <2>2, SafeTemplateStays
  <2> QED
    BY <2>3 DEF IsSafe
<1>3. ASSUME NEW q \in Question, SafeFeedback(s, m, q) PROVE IsSafe(s, m)'
  <2>1. FPartOf[q] \in ToSet(y.fcache) => m \in y.rows[q]
    BY <1>1, <1>3 DEF SafeFeedback
  <2>2. SafeFeedback(s, m, q)'
    BY <1>1, <1>3, <2>1, SafeFeedbackStays
  <2> QED
    BY <2>2 DEF IsSafe
<1> QED
  BY <1>2, <1>3 DEF IsSafe

LEMMA SafeInFeedbackChange ==
    ASSUME TypeOK, CacheHoldsFeedback,
           NEW s \in Session, NEW there, NEW y, NEW q \in Question, NEW marks,
           Becomes(s, y), ChangesFeedback(Seen(s), there, y, q, marks), StayFiles,
           NEW m, IsSafe(s, m), m \in there.vw.rows[q] => m \in marks
    PROVE  IsSafe(s, m)'
<1> DEFINE vw == view[ViewOf[s]]
<1>1. Seen(s).vw = vw /\ Seen(s).files = disk.fshard /\ Orderly(vw)
  BY SeenTyped
<1>2. /\ Reads(Seen(s), there)
      /\ vw.dirty \subseteq y.dirty /\ y.cache = vw.cache /\ y.body = vw.body
      /\ vw.fdirty \subseteq y.fdirty /\ y.fcache = there.vw.fcache
      /\ y.rows[q] = marks /\ \A r \in Question : r # q => y.rows[r] = there.vw.rows[r]
  BY <1>1 DEF ChangesFeedback, Reads, Retains
<1>3. ASSUME NEW u \in Tid, SafeTemplate(s, m, u) PROVE IsSafe(s, m)'
  <2>1. PartOf[u] \in ToSet(y.cache) => m \in y.body[u]
    BY <1>2, <1>3 DEF SafeTemplate
  <2>2. SafeTemplate(s, m, u)'
    BY <1>2, <1>3, <2>1, SafeTemplateStays
  <2> QED
    BY <2>2 DEF IsSafe
<1>4. ASSUME NEW r \in Question, SafeFeedback(s, m, r) PROVE IsSafe(s, m)'
  <2>1. FPartOf[r] \in ToSet(there.vw.fcache) => m \in there.vw.rows[r]
    <3>1. /\ FPartOf[r] \in ToSet(Seen(s).vw.fcache) => m \in Seen(s).vw.rows[r]
          /\ FPartOf[r] \notin Seen(s).vw.fdirty => m \in Seen(s).files[r]
          /\ Orderly(Seen(s).vw)
      BY <1>1, <1>4 DEF SafeFeedback
    <3> QED
      BY <1>2, <3>1, FoundFeedback
  <2>2. FPartOf[r] \in ToSet(y.fcache) => m \in y.rows[r]
    BY <1>2, <2>1
  <2>3. SafeFeedback(s, m, r)'
    BY <1>2, <1>4, <2>2, SafeFeedbackStays
  <2> QED
    BY <2>3 DEF IsSafe
<1> QED
  BY <1>3, <1>4 DEF IsSafe

\* Reading loses nothing.
LEMMA SafeInCount ==
    ASSUME TypeOK, CacheHoldsFeedback, NEW s \in Session, NEW z, NEW y,
           Becomes(s, y), Reads(Seen(s), z), Loads(z.vw, y), StayFiles, NEW m, IsSafe(s, m)
    PROVE  IsSafe(s, m)'
<1> DEFINE vw == view[ViewOf[s]]
<1>1. Seen(s).vw = vw /\ Seen(s).files = disk.fshard /\ Orderly(vw)
  BY SeenTyped
<1>2. /\ Orderly(z.vw) /\ z.vw.cache = vw.cache /\ z.vw.body = vw.body /\ z.vw.dirty = vw.dirty
      /\ z.vw.fdirty = vw.fdirty
      /\ y.dirty = vw.dirty /\ y.fdirty = vw.fdirty /\ y.fcache = z.vw.fcache /\ y.rows = z.vw.rows
  BY <1>1 DEF Reads, Retains, Loads
<1>3. ASSUME NEW u \in Tid, SafeTemplate(s, m, u) PROVE IsSafe(s, m)'
  <2>1. /\ PartOf[u] \in ToSet(z.vw.cache) => m \in z.vw.body[u]
        /\ PartOf[u] \notin z.vw.dirty => m \in disk.shard[u]
    BY <1>2, <1>3 DEF SafeTemplate
  <2>2. PartOf[u] \in ToSet(y.cache) => m \in y.body[u]
    BY <1>2, <2>1, FoundTemplate
  <2>3. SafeTemplate(s, m, u)'
    BY <1>2, <1>3, <2>2, SafeTemplateStays
  <2> QED
    BY <2>3 DEF IsSafe
<1>4. ASSUME NEW r \in Question, SafeFeedback(s, m, r) PROVE IsSafe(s, m)'
  <2>1. /\ FPartOf[r] \in ToSet(Seen(s).vw.fcache) => m \in Seen(s).vw.rows[r]
        /\ FPartOf[r] \notin Seen(s).vw.fdirty => m \in Seen(s).files[r]
        /\ Orderly(Seen(s).vw)
    BY <1>1, <1>4 DEF SafeFeedback
  <2>2. FPartOf[r] \in ToSet(y.fcache) => m \in y.rows[r]
    BY <1>2, <2>1, FoundFeedback
  <2>3. SafeFeedback(s, m, r)'
    BY <1>2, <1>4, <2>2, SafeFeedbackStays
  <2> QED
    BY <2>3 DEF IsSafe
<1> QED
  BY <1>3, <1>4 DEF IsSafe

\* A mark that has just been made is safe in the view that made it.
LEMMA SafeWhenMade ==
    ASSUME TypeOK, HandedOut, NEW s \in Session, NEW y, Becomes(s, y), StayFiles, used < use.marks,
           NEW m, m = Fresh,
           \/ \E t \in Tid : m \in y.body[t] /\ PartOf[t] \in y.dirty
           \/ \E q \in Question : m \in y.rows[q] /\ FPartOf[q] \in y.fdirty
    PROVE  IsSafe(s, m)'
<1>1. view'[ViewOf[s]] = y /\ lock' = None
  BY DEF Becomes, StayFiles
<1>2. m \notin durable'
  <2>1. m = used + 1 /\ used \in Nat
    BY FreshTyped
  <2>2. m \notin 1 .. used
    BY <2>1
  <2> QED
    BY <2>2 DEF HandedOut, StayFiles
<1>3. ASSUME NEW t \in Tid, m \in y.body[t], PartOf[t] \in y.dirty PROVE IsSafe(s, m)'
  <2>1. SafeTemplate(s, m, t)'
    BY <1>1, <1>2, <1>3 DEF SafeTemplate
  <2> QED
    BY <2>1 DEF IsSafe
<1>4. ASSUME NEW q \in Question, m \in y.rows[q], FPartOf[q] \in y.fdirty PROVE IsSafe(s, m)'
  <2>1. SafeFeedback(s, m, q)'
    BY <1>1, <1>2, <1>4 DEF SafeFeedback
  <2> QED
    BY <2>1 DEF IsSafe
<1> QED
  BY <1>3, <1>4

LEMMA SafeAtWork ==
    ASSUME TypeOK, Control, Ids, Single, HandedOut, Safe, Alone, CacheHoldsFeedback,
           NEW s \in Session, WorkStep(s), NEW m \in keep'[s] \cup durable'
    PROVE  IsSafe(s, m)'
<1> DEFINE v == ViewOf[s]
<1>1. /\ pc[s] \in {"idle", "reserved"} /\ UNCHANGED <<lock, live>>
      /\ disk'.head = disk.head /\ disk'.shard = disk.shard /\ disk'.fshard = disk.fshard
  BY WorksIs DEF Works
<1>2. use.sessions = {s} /\ lock = None
  BY <1>1, Only
<1>3. \A k \in keep[s] \cup durable : IsSafe(s, k)
  BY <1>2 DEF Safe
<1>4. ASSUME NEW x \in Session, Owe(x, Fresh)
      PROVE  /\ StayFiles /\ used < use.marks
             /\ x = s => m = Fresh \/ IsSafe(s, m)
  BY <1>1, <1>2, <1>3, <1>4 DEF Owe, StayFiles, TypeOK
<1>5. ASSUME NEW ms, Withdraw(s, ms) PROVE StayFiles /\ IsSafe(s, m) /\ m \notin ms
  BY <1>1, <1>2, <1>3, <1>5 DEF Withdraw, StayFiles
<1>6. CASE Reserve(s)
  <2>1. StayFiles /\ IsSafe(s, m)
    BY <1>1, <1>2, <1>3, <1>6 DEF Reserve, StayFiles, ghosts
  <2> DEFINE h == [view[v].head EXCEPT !.next = NextId(view[v]) + 1]
             y == [view[v] EXCEPT !.head = h]
  <2>2. view'[v] = y /\ v \in View /\ view[v] \in Memory
    BY <1>6, ViewTyped DEF Reserve, TypeOK, Memory
  <2> HIDE DEF h
  <2>3. /\ view'[v].cache = view[v].cache /\ view'[v].body = view[v].body
        /\ view'[v].dirty = view[v].dirty /\ view'[v].fdirty = view[v].fdirty
        /\ view'[v].fcache = view[v].fcache /\ view'[v].rows = view[v].rows
    BY <2>2 DEF Memory
  <2> HIDE DEF y, v
  <2> QED
    BY <2>1, <2>3 DEF IsSafe, SafeTemplate, SafeFeedback, StayFiles, v
<1>7. CASE PutNew(s)
  <2> DEFINE there == Loaded(view[v], PartOf[held[s]])
  <2>1. held[s] \in Tid
    BY <1>7, PutNewIs
  <2>2. PICK y : Becomes(s, y) /\ Changes(view[v], there, y, held[s], {Fresh})
    BY <1>7, PutNewIs
  <2>3. StayFiles /\ used < use.marks /\ (m = Fresh \/ IsSafe(s, m))
    BY <1>4, <1>7 DEF PutNew
  <2>4. there.body[held[s]] = {}
    <3>1. held[s] \notin everMapped /\ view[v].body[held[s]] = {}
      BY <1>2, <1>7 DEF PutNew, At, Single, OneSession
    <3>2. disk.shard[held[s]] = {}
      BY <2>1, <3>1 DEF Ids, IdsOnDisk
    <3> HIDE DEF there
    <3> QED
      BY <2>1, <2>2, <3>1, <3>2 DEF Changes, Loads
  <2> HIDE DEF there
  <2>5. CASE m = Fresh
    <3>1. \E t \in Tid : m \in y.body[t] /\ PartOf[t] \in y.dirty
      BY <2>1, <2>2, <2>5 DEF Changes
    <3> QED
      BY <2>2, <2>3, <2>5, <3>1, SafeWhenMade
  <2>6. CASE IsSafe(s, m)
    BY <2>1, <2>2, <2>3, <2>4, <2>6, SafeInChange
  <2> QED
    BY <2>3, <2>5, <2>6
<1>8. ASSUME NEW t \in Tid, Improve(s, t) PROVE IsSafe(s, m)'
  <2>1. PICK there : there = Loaded(view[v], PartOf[t])
    OBVIOUS
  <2>2. PICK y : Becomes(s, y) /\ Changes(view[v], there, y, t, there.body[t] \cup {Fresh})
    BY <1>8, <2>1, ImproveIs
  <2>3. StayFiles /\ used < use.marks /\ (m = Fresh \/ IsSafe(s, m))
    BY <1>4, <1>8 DEF Improve
  <2>4. CASE m = Fresh
    <3>1. m \in y.body[t] /\ PartOf[t] \in y.dirty
      BY <2>2, <2>4 DEF Changes
    <3> QED
      BY <2>2, <2>3, <2>4, <3>1, SafeWhenMade
  <2>5. CASE IsSafe(s, m)
    BY <2>2, <2>3, <2>5, SafeInChange
  <2> QED
    BY <2>3, <2>4, <2>5
<1>9. ASSUME NEW t \in Tid, RemoveTemplate(s, t) PROVE IsSafe(s, m)'
  <2>1. PICK there : there = Holding(view[v], t)
    OBVIOUS
  <2>2. PICK y : Becomes(s, y) /\ Changes(view[v], there, y, t, {})
    BY <1>9, <2>1, RemoveTemplateIs
  <2>3. StayFiles /\ IsSafe(s, m) /\ m \notin there.body[t]
    BY <1>5, <1>9, <2>1, RemoveTemplateIs
  <2> QED
    BY <2>2, <2>3, SafeInChange
<1>10. ASSUME NEW q \in Question, RecordFeedback(s, q) PROVE IsSafe(s, m)'
  <2>1. PICK there : there = FeedbackLoaded(Seen(s), FPartOf[q])
    OBVIOUS
  <2>2. PICK y : Becomes(s, y) /\ ChangesFeedback(Seen(s), there, y, q, there.vw.rows[q] \cup {Fresh})
    BY <1>10, <2>1, RecordFeedbackIs
  <2>3. StayFiles /\ used < use.marks /\ (m = Fresh \/ IsSafe(s, m))
    BY <1>4, <1>10 DEF RecordFeedback
  <2>4. CASE m = Fresh
    <3>1. m \in y.rows[q] /\ FPartOf[q] \in y.fdirty
      BY <2>2, <2>4 DEF ChangesFeedback
    <3> QED
      BY <2>2, <2>3, <2>4, <3>1, SafeWhenMade
  <2>5. CASE IsSafe(s, m)
    BY <2>2, <2>3, <2>5, SafeInFeedbackChange
  <2> QED
    BY <2>3, <2>4, <2>5
<1>11. ASSUME NEW q \in Question, ForgetFeedback(s, q) PROVE IsSafe(s, m)'
  <2>1. PICK there : there = HoldingFeedback(Seen(s), q)
    OBVIOUS
  <2>2. PICK y : Becomes(s, y) /\ ChangesFeedback(Seen(s), there, y, q, {})
    BY <1>11, <2>1, ForgetFeedbackIs
  <2>3. StayFiles /\ IsSafe(s, m) /\ m \notin there.vw.rows[q]
    BY <1>5, <1>11, <2>1, ForgetFeedbackIs
  <2> QED
    BY <2>2, <2>3, SafeInFeedbackChange
<1>12. CASE CountRows(s)
  <2>1. StayFiles /\ IsSafe(s, m)
    BY <1>1, <1>2, <1>3, <1>12 DEF CountRows, StayFiles, ghosts
  <2>2. PICK z, y : Reads(Seen(s), z) /\ Loads(z.vw, y) /\ Becomes(s, y) /\ Flushes(z.files)
    BY <1>12, CountRowsIs
  <2> QED
    BY <2>1, <2>2, SafeInCount
<1> QED
  BY <1>6, <1>7, <1>8, <1>9, <1>10, <1>11, <1>12 DEF WorkStep

\* A merge writes every mark that is safe.
LEMMA SafeInMerge ==
    ASSUME TypeOK, NEW s \in Session, NEW k, NEW m, Merges(view[ViewOf[s]], m)
    PROVE  /\ \A t \in Tid : SafeTemplate(s, k, t) => k \in m.body[t] /\ t \in m.head.map
           /\ \A q \in Question : SafeFeedback(s, k, q) => k \in m.rows[q] /\ q \in m.head.index
<1> DEFINE vw == view[ViewOf[s]]
<1>1. vw.dirty \subseteq ToSet(vw.cache) /\ vw.fdirty \subseteq ToSet(vw.fcache)
  BY ViewTyped DEF Orderly
<1>2. ASSUME NEW t \in Tid, SafeTemplate(s, k, t) PROVE k \in m.body[t] /\ t \in m.head.map
  <2>1. /\ PartOf[t] \in ToSet(vw.cache) => k \in vw.body[t]
        /\ PartOf[t] \notin vw.dirty => k \in disk.shard[t] /\ t \in disk.head.map
    BY <1>2 DEF SafeTemplate
  <2> HIDE DEF vw
  <2>2. /\ PartOf[t] \in vw.dirty => m.body[t] = vw.body[t]
        /\ PartOf[t] \notin vw.dirty => m.body[t] = disk.shard[t]
        /\ PartOf[t] \in vw.dirty /\ vw.body[t] # {} => t \in m.head.map
        /\ t \in disk.head.map /\ PartOf[t] \notin vw.dirty => t \in m.head.map
    BY DEF Merges, vw
  <2> QED
    BY <1>1, <2>1, <2>2
<1>3. ASSUME NEW q \in Question, SafeFeedback(s, k, q) PROVE k \in m.rows[q] /\ q \in m.head.index
  <2>1. /\ FPartOf[q] \in ToSet(vw.fcache) => k \in vw.rows[q]
        /\ FPartOf[q] \notin vw.fdirty => k \in disk.fshard[q] /\ q \in disk.head.index
    BY <1>3 DEF SafeFeedback
  <2> HIDE DEF vw
  <2>2. /\ disk.head.index \subseteq m.head.index
        /\ FPartOf[q] \in vw.fdirty /\ vw.rows[q] # {} =>
            m.rows[q] = vw.rows[q] /\ q \in m.head.index
        /\ FPartOf[q] \notin vw.fdirty => m.rows[q] = disk.fshard[q]
    BY DEF Merges, vw
  <2> QED
    BY <1>1, <2>1, <2>2
<1> QED
  BY <1>2, <1>3

LEMMA SafeStep ==
    ASSUME TypeOK, Control, Ids, Replaced, Single, HandedOut, Safe, Next
    PROVE  Safe'
<1> SUFFICES ASSUME Alone, CacheHoldsFeedback, NEW x \in use.sessions
             PROVE  RowsReplaced' /\ \A m \in keep'[x] \cup durable' : IsSafe(x, m)'
  <2>1. use' = use
    BY UseStays
  <2>2. (\E s \in Session : use'.sessions = {s}) => Alone
    BY <2>1 DEF Alone
  <2> QED
    BY <2>1, <2>2 DEF Safe, Alone, CacheHoldsFeedback
<1> DEFINE Done == RowsReplaced' /\ \A m \in keep'[x] \cup durable' : IsSafe(x, m)'
           v == ViewOf[x]
<1>1. x \in Session /\ v \in View
  BY UseTyped, SessionAssumption DEF TypeOK
<1>2. \A s \in Session : pc[s] # "down" \/ s \in use.sessions => s = x
  BY <1>1, Only
<1>3. lock # None => lock = x
  BY <1>1, Only
<1>4. RowsReplaced /\ \A m \in keep[x] \cup durable : IsSafe(x, m)
  BY DEF Safe
<1> HIDE DEF v
<1>5. ASSUME NEW s \in Session, WorkStep(s) PROVE Done
  <2>1. /\ pc[s] \in {"idle", "reserved"} /\ lock' = lock
    BY <1>5, WorksIs DEF Works
  <2>2. s = x /\ lock = None
    BY <1>1, <1>2, <2>1, Only
  <2> QED
    BY <1>5, <2>1, <2>2, SafeAtWork DEF RowsReplaced
<1>6. ASSUME NEW s \in Session, MergeSave(s) PROVE Done
  <2>1. s = x /\ lock' = s /\ UNCHANGED <<disk, view, keep, durable>>
    BY <1>2, <1>6 DEF MergeSave, At, ghosts
  <2>2. Merges(view[v], commit')
    BY <1>6, <2>1, ViewTyped, MergeIs DEF MergeSave, v
  <2>3. RowsReplaced'
    BY <2>1, <2>2 DEF Merges, RowsReplaced
  <2>4. ASSUME NEW m \in keep'[x] \cup durable' PROVE IsSafe(x, m)'
    <3>1. IsSafe(x, m)
      BY <1>4, <2>1
    <3>2. ASSUME NEW t \in Tid, SafeTemplate(x, m, t) PROVE IsSafe(x, m)'
      <4>1. m \in commit'.body[t] /\ t \in commit'.head.map
        BY <1>1, <2>2, <3>2, SafeInMerge DEF v
      <4>2. SafeTemplate(x, m, t)'
        BY <2>1, <3>2, <4>1 DEF SafeTemplate
      <4> QED
        BY <4>2 DEF IsSafe
    <3>3. ASSUME NEW q \in Question, SafeFeedback(x, m, q) PROVE IsSafe(x, m)'
      <4>1. m \in commit'.rows[q] /\ q \in commit'.head.index
        BY <1>1, <2>2, <3>3, SafeInMerge DEF v
      <4>2. SafeFeedback(x, m, q)'
        BY <2>1, <3>3, <4>1 DEF SafeFeedback
      <4> QED
        BY <4>2 DEF IsSafe
    <3> QED
      BY <3>1, <3>2, <3>3 DEF IsSafe
  <2> QED
    BY <2>3, <2>4
<1>7. ASSUME NEW s \in Session, CommitHeader(s) \/ CommitShard(s) \/ CommitFeedback(s) PROVE Done
  <2>1. s = x /\ lock = x /\ lock # None /\ commit \in Merged /\ disk \in Files
    BY <1>2, <1>7, Holder DEF CommitHeader, CommitShard, CommitFeedback, At, TypeOK
  <2>2. /\ UNCHANGED <<view, lock, keep, durable>>
        /\ commit'.head = commit.head /\ commit'.body = commit.body /\ commit'.rows = commit.rows
        /\ disk'.head \in {disk.head, commit.head}
        /\ \A t \in Tid : disk'.shard[t] \in {disk.shard[t], commit.body[t]}
        /\ \A q \in Question : disk'.fshard[q] \in {disk.fshard[q], commit.rows[q]}
    <3>1. CASE CommitHeader(s)
      BY <2>1, <3>1 DEF CommitHeader, Files, ghosts
    <3>2. CASE CommitShard(s)
      BY <2>1, <3>2 DEF CommitShard, Files, Merged, Bodies, ghosts
    <3>3. CASE CommitFeedback(s)
      BY <2>1, <3>3 DEF CommitFeedback, Files, Merged, Rows, ghosts
    <3> QED
      BY <1>7, <3>1, <3>2, <3>3
  <2>3. RowsReplaced'
    <3>1. CASE CommitHeader(s)
      BY <1>4, <2>1, <3>1 DEF CommitHeader, Files, RowsReplaced
    <3>2. CASE CommitShard(s)
      BY <1>4, <2>1, <3>2 DEF CommitShard, Files, Merged, RowsReplaced
    <3>3. CASE CommitFeedback(s)
      <4> DEFINE p == Min(commit.fparts)
      <4>1. /\ \A q \in Question :
                disk'.fshard[q] = IF FPartOf[q] = p THEN commit.rows[q] ELSE disk.fshard[q]
            /\ commit'.rows = commit.rows /\ commit'.fparts = commit.fparts \ {p}
        BY <2>1, <3>3 DEF CommitFeedback, Files, Merged, Rows
      <4> HIDE DEF p
      <4> QED
        BY <1>4, <2>1, <4>1 DEF RowsReplaced
    <3> QED
      BY <1>7, <3>1, <3>2, <3>3
  <2>4. ASSUME NEW m \in keep'[x] \cup durable' PROVE IsSafe(x, m)'
    <3>1. IsSafe(x, m)
      BY <1>4, <2>2
    <3>2. ASSUME NEW t \in Tid, SafeTemplate(x, m, t) PROVE IsSafe(x, m)'
      <4>1. SafeTemplate(x, m, t)'
        BY <2>1, <2>2, <3>2 DEF SafeTemplate
      <4> QED
        BY <4>1 DEF IsSafe
    <3>3. ASSUME NEW q \in Question, SafeFeedback(x, m, q) PROVE IsSafe(x, m)'
      <4>1. SafeFeedback(x, m, q)'
        BY <2>1, <2>2, <3>3 DEF SafeFeedback
      <4> QED
        BY <4>1 DEF IsSafe
    <3> QED
      BY <3>1, <3>2, <3>3 DEF IsSafe
  <2> QED
    BY <2>3, <2>4
<1>8. ASSUME NEW s \in Session, FinishSave(s) PROVE Done
  <2>1. /\ s = x /\ lock = x /\ lock # None /\ pc[x] = "headed" /\ lock' = None
        /\ commit.parts = {} /\ commit.fparts = {} /\ UNCHANGED <<disk, keep, durable>>
    BY <1>2, <1>8, Holder DEF FinishSave, Committed, At, ghosts
  <2>2. PICK y : Becomes(x, y) /\ y = [view[v] EXCEPT !.dirty = {}, !.fdirty = {}]
    BY <1>1, <1>8, <2>1, FinishSaveIs DEF v
  <2>3. /\ y.cache = view[v].cache /\ y.body = view[v].body
        /\ y.fcache = view[v].fcache /\ y.rows = view[v].rows
    BY <1>1, <2>2, ViewTyped DEF Memory, v
  <2>4. /\ disk.head = commit.head /\ \A t \in Tid : disk.shard[t] = commit.body[t]
        /\ \A q \in Question : disk.fshard[q] = commit.rows[q]
    BY <1>4, <2>1 DEF Replaced, RowsReplaced
  <2>5. view'[v] = y
    BY <2>2 DEF Becomes, v
  <2>6. ASSUME NEW m \in keep'[x] \cup durable' PROVE IsSafe(x, m)'
    <3>1. IsSafe(x, m)
      BY <1>4, <2>1
    <3>2. ASSUME NEW t \in Tid, SafeTemplate(x, m, t) PROVE IsSafe(x, m)'
      <4>1. SafeTemplate(x, m, t)'
        BY <2>1, <2>3, <2>4, <2>5, <3>2 DEF SafeTemplate, v
      <4> QED
        BY <4>1 DEF IsSafe
    <3>3. ASSUME NEW q \in Question, SafeFeedback(x, m, q) PROVE IsSafe(x, m)'
      <4>1. SafeFeedback(x, m, q)'
        BY <2>1, <2>3, <2>4, <2>5, <3>3 DEF SafeFeedback, v
      <4> QED
        BY <4>1 DEF IsSafe
    <3> QED
      BY <3>1, <3>2, <3>3 DEF IsSafe
  <2> QED
    BY <2>1, <2>6 DEF RowsReplaced
<1>9. ASSUME NEW s \in Session, Return(s) PROVE Done
  <2>1. /\ s = x /\ pc[x] = "saved" /\ UNCHANGED <<disk, view, lock, commit>>
        /\ durable' = durable \cup keep[x] /\ keep'[x] = {}
    BY <1>2, <1>9 DEF Return, At, TypeOK
  <2>2. view[v].dirty = {} /\ view[v].fdirty = {}
    BY <2>1 DEF Single, OneSession, v
  <2>3. ASSUME NEW m \in keep'[x] \cup durable' PROVE IsSafe(x, m)'
    <3>1. IsSafe(x, m)
      BY <1>4, <2>1
    <3>2. ASSUME NEW t \in Tid, SafeTemplate(x, m, t) PROVE IsSafe(x, m)'
      <4>1. SafeTemplate(x, m, t)'
        BY <2>1, <2>2, <3>2 DEF SafeTemplate, v
      <4> QED
        BY <4>1 DEF IsSafe
    <3>3. ASSUME NEW q \in Question, SafeFeedback(x, m, q) PROVE IsSafe(x, m)'
      <4>1. SafeFeedback(x, m, q)'
        BY <2>1, <2>2, <3>3 DEF SafeFeedback, v
      <4> QED
        BY <4>1 DEF IsSafe
    <3> QED
      BY <3>1, <3>2, <3>3 DEF IsSafe
  <2> QED
    BY <1>4, <2>1, <2>3 DEF RowsReplaced
<1>10. ASSUME NEW s \in Session, SaveFails(s) PROVE Done
  <2>1. UNCHANGED <<disk, view, keep, durable>> /\ (lock' = None \/ UNCHANGED <<lock, commit>>)
    BY <1>10 DEF SaveFails, ghosts
  <2> QED
    BY <1>4, <2>1 DEF IsSafe, SafeTemplate, SafeFeedback, RowsReplaced
<1>11. ASSUME NEW s \in Session, Open(s) \/ FinishOpen(s) PROVE Done
  <2>1. s = x /\ v \notin live
    <3>1. CASE Open(s)
      BY <1>2, <3>1 DEF Open, SessionsOf, v
    <3>2. CASE FinishOpen(s)
      BY <1>2, <3>2 DEF FinishOpen, Committed, Control, ControlOf, v
    <3> QED
      BY <1>11, <3>1, <3>2
  <2>2. lock' = None /\ UNCHANGED <<disk, keep, durable>>
    BY <1>11 DEF Open, FinishOpen, Committed, ghosts
  <2>3. view[v].dirty = {} /\ view[v].fdirty = {}
    BY <1>1, <2>1 DEF Control, EmptyView
  <2>4. PICK y : Becomes(x, y) /\ IsFresh(y)
    BY <1>1, <1>11, <2>1, OpenIs
  <2>5. view'[v] = y
    BY <2>4 DEF Becomes, v
  <2>6. ASSUME NEW m \in keep'[x] \cup durable' PROVE IsSafe(x, m)'
    <3>1. IsSafe(x, m)
      BY <1>4, <2>2
    <3>2. ASSUME NEW t \in Tid, SafeTemplate(x, m, t) PROVE IsSafe(x, m)'
      <4>1. m \in disk.shard[t] /\ t \in disk.head.map
        BY <2>3, <3>2 DEF SafeTemplate, v
      <4>2. PartOf[t] \in ToSet(y.cache) => m \in y.body[t]
        BY <2>4, <4>1 DEF IsFresh
      <4>3. SafeTemplate(x, m, t)'
        BY <2>2, <2>5, <4>1, <4>2 DEF SafeTemplate, v
      <4> QED
        BY <4>3 DEF IsSafe
    <3>3. ASSUME NEW q \in Question, SafeFeedback(x, m, q) PROVE IsSafe(x, m)'
      <4>1. m \in disk.fshard[q] /\ q \in disk.head.index
        BY <2>3, <3>3 DEF SafeFeedback, v
      <4>2. FPartOf[q] \in ToSet(y.fcache) => m \in y.rows[q]
        BY <2>4, <4>1 DEF IsFresh
      <4>3. SafeFeedback(x, m, q)'
        BY <2>2, <2>5, <4>1, <4>2 DEF SafeFeedback, v
      <4> QED
        BY <4>3 DEF IsSafe
    <3> QED
      BY <3>1, <3>2, <3>3 DEF IsSafe
  <2> QED
    BY <2>2, <2>6 DEF RowsReplaced
<1>12. ASSUME NEW s \in Session, OpenAndRepair(s) PROVE Done
  <2>1. s = x /\ v \notin live /\ UNCHANGED <<disk, view, keep, durable>>
    BY <1>2, <1>12 DEF OpenAndRepair, SessionsOf, ghosts, v
  <2>2. view[v].dirty = {} /\ view[v].fdirty = {}
    BY <1>1, <2>1 DEF Control, EmptyView
  <2>3. /\ commit'.head.map = disk.head.map \ Orphans /\ commit'.head.index = disk.head.index
        /\ \A t \in Tid : commit'.body[t] = IF t \in Strays THEN {} ELSE disk.shard[t]
        /\ commit'.rows = disk.fshard
    BY <1>12 DEF OpenAndRepair, Repaired
  <2>4. ASSUME NEW m \in keep'[x] \cup durable' PROVE IsSafe(x, m)'
    <3>1. IsSafe(x, m)
      BY <1>4, <2>1
    <3>2. ASSUME NEW t \in Tid, SafeTemplate(x, m, t) PROVE IsSafe(x, m)'
      <4>1. m \in disk.shard[t] /\ t \in disk.head.map
        BY <2>2, <3>2 DEF SafeTemplate, v
      <4>2. m \in commit'.body[t] /\ t \in commit'.head.map
        BY <2>3, <4>1 DEF Orphans, Strays
      <4>3. SafeTemplate(x, m, t)'
        BY <2>1, <3>2, <4>1, <4>2 DEF SafeTemplate
      <4> QED
        BY <4>3 DEF IsSafe
    <3>3. ASSUME NEW q \in Question, SafeFeedback(x, m, q) PROVE IsSafe(x, m)'
      <4>1. m \in disk.fshard[q] /\ q \in disk.head.index
        BY <2>2, <3>3 DEF SafeFeedback, v
      <4>2. SafeFeedback(x, m, q)'
        BY <2>1, <2>3, <3>3, <4>1 DEF SafeFeedback
      <4> QED
        BY <4>2 DEF IsSafe
    <3> QED
      BY <3>1, <3>2, <3>3 DEF IsSafe
  <2> QED
    BY <2>1, <2>3, <2>4 DEF RowsReplaced
<1>13. ASSUME NEW w \in View, Crash(w) PROVE Done
  <2>1. w = v /\ lock' = None
    BY <1>1, <1>13, CrashOnly DEF v
  <2>2. /\ UNCHANGED <<disk, durable>> /\ keep'[x] = {} /\ view'[v] = EmptyView
    BY <1>1, <1>13, <2>1 DEF Crash, TypeOK, v
  <2>3. EmptyView.cache = << >> /\ EmptyView.fcache = << >> /\ ToSet(<< >>) = {}
    BY DEF EmptyView, ToSet
  <2>4. ASSUME NEW m \in keep'[x] \cup durable' PROVE IsSafe(x, m)'
    <3>1. IsSafe(x, m) /\ m \in durable
      BY <1>4, <2>2
    <3>2. ASSUME NEW t \in Tid, SafeTemplate(x, m, t) PROVE IsSafe(x, m)'
      <4>1. SafeTemplate(x, m, t)'
        BY <2>1, <2>2, <2>3, <3>1, <3>2 DEF SafeTemplate, v
      <4> QED
        BY <4>1 DEF IsSafe
    <3>3. ASSUME NEW q \in Question, SafeFeedback(x, m, q) PROVE IsSafe(x, m)'
      <4>1. SafeFeedback(x, m, q)'
        BY <2>1, <2>2, <2>3, <3>1, <3>3 DEF SafeFeedback, v
      <4> QED
        BY <4>1 DEF IsSafe
    <3> QED
      BY <3>1, <3>2, <3>3 DEF IsSafe
  <2> QED
    BY <2>1, <2>4 DEF RowsReplaced
<1> QED
  BY <1>5, <1>6, <1>7, <1>8, <1>9, <1>10, <1>11, <1>12, <1>13 DEF Next, WorkStep

LEMMA SafeInv == Spec => [](Ids /\ Replaced /\ Single /\ HandedOut /\ Safe)
<1>1. Init => Ids /\ Replaced /\ Single /\ HandedOut /\ Safe
  <2> SUFFICES ASSUME Init PROVE Ids /\ Replaced /\ Single /\ HandedOut /\ Safe
    OBVIOUS
  <2>1. /\ lock = None /\ durable = {} /\ \A s \in Session : keep[s] = {} /\ pc[s] = "down"
    BY DEF Init
  <2>2. \A s \in use.sessions : s \in Session
    BY UseTyped DEF Init
  <2>3. Replaced /\ HandedOut /\ RowsReplaced
    BY <2>1 DEF Replaced, HandedOut, RowsReplaced
  <2>4. Single /\ Safe
    BY <2>1, <2>2, <2>3 DEF Single, OneSession, Safe
  <2> QED
    BY <2>3, <2>4, IdsInit
<1>2. /\ TypeOK /\ Control /\ Ids /\ Replaced /\ Single /\ HandedOut /\ Safe
      /\ [Next]_vars
      => (Ids /\ Replaced /\ Single /\ HandedOut /\ Safe)'
  <2>1. ASSUME Ids, Replaced, Single, HandedOut, Safe, UNCHANGED vars
        PROVE  (Ids /\ Replaced /\ Single /\ HandedOut /\ Safe)'
    <3>1. Ids' /\ Replaced' /\ HandedOut'
      BY <2>1 DEF vars, ghosts, history, Ids, IdsOnDisk, IdsInViews, IdsInCommit, Replaced, HandedOut
    <3>2. Single'
      BY <2>1 DEF vars, history, Single, Alone, OneSession
    <3>3. \A s, m : IsSafe(s, m)' <=> IsSafe(s, m)
      BY <2>1 DEF vars, ghosts, IsSafe, SafeTemplate, SafeFeedback
    <3>4. Safe'
      BY <2>1, <3>3 DEF vars, ghosts, Safe, Alone, CacheHoldsFeedback, RowsReplaced
    <3> QED
      BY <3>1, <3>2, <3>4
  <2> QED
    BY <2>1, IdsStep, ReplacedStep, SingleStep, HandedOutStep, SafeStep
<1> QED
  BY <1>1, <1>2, Typed, PTL DEF Spec

LEMMA Reachable ==
    ASSUME NEW m,
           \/ \E t \in disk.head.map : m \in disk.shard[t]
           \/ \E q \in disk.head.index : m \in disk.fshard[q]
    PROVE  m \in OnDisk
<1> DEFINE A == UNION {disk.shard[t] : t \in disk.head.map}
           B == UNION {disk.fshard[q] : q \in disk.head.index}
<1>1. OnDisk = A \cup B
  BY DEF OnDisk
<1>2. m \in A \/ m \in B
  OBVIOUS
<1> HIDE DEF A, B
<1> QED
  BY <1>1, <1>2

\* When save_template_store returns to the only session of a store whose feedback fits
\* in memory, everything that session changed and did not withdraw is in the files and
\* reachable from the header.
THEOREM Saving == Spec => []SavedIsDurable
<1>1. TypeOK /\ Control /\ Single /\ Safe => SavedIsDurable
  <2> SUFFICES ASSUME TypeOK, Control, Single, Safe, Alone, CacheHoldsFeedback,
                      NEW s \in Session, pc[s] = "saved", NEW m \in keep[s]
               PROVE  m \in OnDisk
    BY DEF SavedIsDurable
  <2>1. s \in use.sessions
    BY DEF Control, ControlOf
  <2>2. IsSafe(s, m) /\ view[ViewOf[s]].dirty = {} /\ view[ViewOf[s]].fdirty = {}
    BY <2>1 DEF Single, OneSession, Safe
  <2>3. \/ \E t \in disk.head.map : m \in disk.shard[t]
        \/ \E q \in disk.head.index : m \in disk.fshard[q]
    <3>1. ASSUME NEW t \in Tid, SafeTemplate(s, m, t)
          PROVE  m \in disk.shard[t] /\ t \in disk.head.map
      BY <2>2, <3>1 DEF SafeTemplate
    <3>2. ASSUME NEW q \in Question, SafeFeedback(s, m, q)
          PROVE  m \in disk.fshard[q] /\ q \in disk.head.index
      BY <2>2, <3>2 DEF SafeFeedback
    <3> QED
      BY <2>2, <3>1, <3>2 DEF IsSafe
  <2> QED
    BY <2>3, Reachable
<1> QED
  BY <1>1, SafeInv, Typed, PTL

\* What a returned save covered stays in the files, reachable from the header, until
\* the session withdraws it: no later save, repair or crash between two replacements
\* of files takes it away.
THEOREM Durability == Spec => []StaysDurable
<1>1. TypeOK /\ Safe => StaysDurable
  <2> SUFFICES ASSUME TypeOK, Safe, Alone, CacheHoldsFeedback, NEW m \in durable
               PROVE  m \in OnDisk
    BY DEF StaysDurable
  <2>1. PICK s \in Session : use.sessions = {s}
    BY DEF Alone
  <2>2. IsSafe(s, m)
    BY <2>1 DEF Safe
  <2>3. \/ \E t \in disk.head.map : m \in disk.shard[t]
        \/ \E q \in disk.head.index : m \in disk.fshard[q]
    <3>1. ASSUME NEW t \in Tid, SafeTemplate(s, m, t)
          PROVE  m \in disk.shard[t] /\ t \in disk.head.map
      BY <2>2, <3>1 DEF SafeTemplate
    <3>2. ASSUME NEW q \in Question, SafeFeedback(s, m, q)
          PROVE  m \in disk.fshard[q] /\ q \in disk.head.index
      BY <2>2, <3>2 DEF SafeFeedback
    <3> QED
      BY <2>2, <3>1, <3>2 DEF IsSafe
  <2> QED
    BY <2>3, Reachable
<1> QED
  BY <1>1, SafeInv, Typed, PTL
-----------------------------------------------------------------------------
(***************************************************************************)
(* Where marks are, and where those that were withdrawn are not.           *)
(***************************************************************************)

\* Marks stay with their template or question; only the newest mark may come to one
\* of new, or of asked.
Spreads(new, asked) ==
    /\ \A m \in Mark : \A t \in Tid : About(m, t)' => About(m, t) \/ (m = Fresh /\ t \in new)
    /\ \A m \in Mark : \A q \in Question :
        AboutFeedback(m, q)' => AboutFeedback(m, q) \/ (m = Fresh /\ q \in asked)

\* Bodies and rows that are found in a step are those of before.
LEMMA SpreadsIs ==
    ASSUME NEW new, NEW asked,
           \A m \in Mark : \A t \in Tid :
            /\ m \in disk'.shard[t] => About(m, t)
            /\ \A v \in View : m \in view'[v].body[t] => About(m, t) \/ (m = Fresh /\ t \in new)
            /\ lock' # None /\ m \in commit'.body[t] => About(m, t),
           \A m \in Mark : \A q \in Question :
            /\ m \in disk'.fshard[q] => AboutFeedback(m, q)
            /\ \A v \in View :
                m \in view'[v].rows[q] => AboutFeedback(m, q) \/ (m = Fresh /\ q \in asked)
            /\ lock' # None /\ m \in commit'.rows[q] => AboutFeedback(m, q)
    PROVE  Spreads(new, asked)
BY DEF Spreads, About, AboutFeedback

LEMMA SpreadsInChange ==
    ASSUME TypeOK, NEW s \in Session, NEW there, NEW y, NEW t \in Tid, NEW marks, NEW new,
           Becomes(s, y), Changes(view[ViewOf[s]], there, y, t, marks),
           \/ marks \subseteq there.body[t]
           \/ t \in new /\ marks \subseteq there.body[t] \cup {Fresh},
           UNCHANGED <<disk, lock, commit>>
    PROVE  Spreads(new, {})
<1> DEFINE v == ViewOf[s]
<1>1. /\ \A u \in Tid : there.body[u] \subseteq view[v].body[u] \cup disk.shard[u]
      /\ \A u \in Tid : y.body[u] = IF u = t THEN marks ELSE there.body[u]
      /\ y.rows = view[v].rows
  BY DEF Changes, Loads
<1>2. v \in View /\ \A w \in View : view'[w] = IF w = v THEN y ELSE view[w]
  BY ViewTyped DEF Becomes
<1> HIDE DEF v
<1>3. ASSUME NEW m \in Mark, NEW u \in Tid
      PROVE  /\ m \in disk'.shard[u] => About(m, u)
             /\ \A w \in View : m \in view'[w].body[u] => About(m, u) \/ (m = Fresh /\ u \in new)
             /\ lock' # None /\ m \in commit'.body[u] => About(m, u)
  <2>1. m \in y.body[u] => m \in there.body[u] \/ (m = Fresh /\ u \in new)
    BY <1>1
  <2>2. m \in there.body[u] => m \in view[v].body[u] \/ m \in disk.shard[u]
    BY <1>1
  <2> QED
    BY <1>2, <2>1, <2>2 DEF About
<1>4. ASSUME NEW m \in Mark, NEW q \in Question
      PROVE  /\ m \in disk'.fshard[q] => AboutFeedback(m, q)
             /\ \A w \in View :
                    m \in view'[w].rows[q] => AboutFeedback(m, q) \/ (m = Fresh /\ q \in {})
             /\ lock' # None /\ m \in commit'.rows[q] => AboutFeedback(m, q)
  BY <1>1, <1>2 DEF AboutFeedback
<1> QED
  BY <1>3, <1>4, SpreadsIs

LEMMA SpreadsInFeedbackChange ==
    ASSUME TypeOK, NEW s \in Session, NEW there, NEW y, NEW q \in Question, NEW marks, NEW asked,
           Becomes(s, y), ChangesFeedback(Seen(s), there, y, q, marks), Flushes(there.files),
           \/ marks \subseteq there.vw.rows[q]
           \/ q \in asked /\ marks \subseteq there.vw.rows[q] \cup {Fresh},
           UNCHANGED <<lock, commit>>
    PROVE  Spreads({}, asked)
<1> DEFINE v == ViewOf[s]
<1>1. /\ \A r \in Question :
            there.files[r] \cup there.vw.rows[r] \subseteq view[v].rows[r] \cup disk.fshard[r]
      /\ \A r \in Question : y.rows[r] = IF r = q THEN marks ELSE there.vw.rows[r]
      /\ y.body = view[v].body
  BY SeenTyped DEF ChangesFeedback, Reads
<1>2. v \in View /\ \A w \in View : view'[w] = IF w = v THEN y ELSE view[w]
  BY ViewTyped DEF Becomes
<1>3. disk'.fshard = there.files /\ disk'.shard = disk.shard
  BY DEF Flushes
<1> HIDE DEF v
<1>4. ASSUME NEW m \in Mark, NEW t \in Tid
      PROVE  /\ m \in disk'.shard[t] => About(m, t)
             /\ \A w \in View : m \in view'[w].body[t] => About(m, t) \/ (m = Fresh /\ t \in {})
             /\ lock' # None /\ m \in commit'.body[t] => About(m, t)
  BY <1>1, <1>2, <1>3 DEF About
<1>5. ASSUME NEW m \in Mark, NEW r \in Question
      PROVE  /\ m \in disk'.fshard[r] => AboutFeedback(m, r)
             /\ \A w \in View :
                    m \in view'[w].rows[r] => AboutFeedback(m, r) \/ (m = Fresh /\ r \in asked)
             /\ lock' # None /\ m \in commit'.rows[r] => AboutFeedback(m, r)
  <2>1. m \in y.rows[r] => m \in there.vw.rows[r] \/ (m = Fresh /\ r \in asked)
    BY <1>1
  <2>2. m \in there.vw.rows[r] \/ m \in there.files[r] =>
            m \in view[v].rows[r] \/ m \in disk.fshard[r]
    BY <1>1
  <2> QED
    BY <1>2, <1>3, <2>1, <2>2 DEF AboutFeedback
<1> QED
  BY <1>4, <1>5, SpreadsIs

\* A mark comes to a template or a question only when it is handed out.
Comes ==
    \/ used' = used /\ Spreads({}, {})
    \/ used' = used + 1 /\ used < use.marks /\ \E t \in Tid : Spreads({t}, {})
    \/ used' = used + 1 /\ used < use.marks /\ \E q \in Question : Spreads({}, {q})

\* Bodies and rows in memory that were in memory or in the files.
LEMMA SpreadsInView ==
    ASSUME TypeOK, NEW s \in Session, NEW y, Becomes(s, y),
           \A t \in Tid : y.body[t] \subseteq view[ViewOf[s]].body[t] \cup disk.shard[t],
           \A q \in Question : y.rows[q] \subseteq view[ViewOf[s]].rows[q] \cup disk.fshard[q],
           disk'.shard = disk.shard,
           \A q \in Question : disk'.fshard[q] \subseteq view[ViewOf[s]].rows[q] \cup disk.fshard[q],
           lock' = None \/ UNCHANGED <<lock, commit>>
    PROVE  Spreads({}, {})
<1> DEFINE v == ViewOf[s]
<1>1. v \in View /\ \A w \in View : view'[w] = IF w = v THEN y ELSE view[w]
  BY ViewTyped DEF Becomes
<1> HIDE DEF v
<1>2. ASSUME NEW m \in Mark, NEW t \in Tid
      PROVE  /\ m \in disk'.shard[t] => About(m, t)
             /\ \A w \in View : m \in view'[w].body[t] => About(m, t) \/ (m = Fresh /\ t \in {})
             /\ lock' # None /\ m \in commit'.body[t] => About(m, t)
  <2>1. m \in y.body[t] => m \in view[v].body[t] \/ m \in disk.shard[t]
    BY DEF v
  <2> QED
    BY <1>1, <2>1 DEF About
<1>3. ASSUME NEW m \in Mark, NEW q \in Question
      PROVE  /\ m \in disk'.fshard[q] => AboutFeedback(m, q)
             /\ \A w \in View :
                    m \in view'[w].rows[q] => AboutFeedback(m, q) \/ (m = Fresh /\ q \in {})
             /\ lock' # None /\ m \in commit'.rows[q] => AboutFeedback(m, q)
  <2>1. m \in y.rows[q] \/ m \in disk'.fshard[q] => m \in view[v].rows[q] \/ m \in disk.fshard[q]
    BY DEF v
  <2> QED
    BY <1>1, <2>1 DEF AboutFeedback
<1> QED
  BY <1>2, <1>3, SpreadsIs

\* Bodies and rows in the files and in a save under way that were in one of them or
\* in memory.
LEMMA SpreadsInFiles ==
    ASSUME TypeOK,
           \A w \in View : view'[w] \in {view[w], EmptyView},
           \A t \in Tid : disk'.shard[t] = disk.shard[t] \/ (lock # None /\ disk'.shard[t] = commit.body[t]),
           \A q \in Question :
            disk'.fshard[q] = disk.fshard[q] \/ (lock # None /\ disk'.fshard[q] = commit.rows[q]),
           lock' # None =>
            /\ \A t \in Tid : \/ lock # None /\ commit'.body[t] = commit.body[t]
                              \/ \E w \in View : commit'.body[t] = view[w].body[t]
                              \/ commit'.body[t] \in {disk.shard[t], {}}
            /\ \A q \in Question : \/ lock # None /\ commit'.rows[q] = commit.rows[q]
                                   \/ \E w \in View : commit'.rows[q] = view[w].rows[q]
                                   \/ commit'.rows[q] = disk.fshard[q]
    PROVE  Spreads({}, {})
<1>1. \A t \in Tid : EmptyView.body[t] = {}
  BY DEF EmptyView, NoBodies
<1>2. ASSUME NEW m \in Mark, NEW t \in Tid
      PROVE  /\ m \in disk'.shard[t] => About(m, t)
             /\ \A w \in View : m \in view'[w].body[t] => About(m, t) \/ (m = Fresh /\ t \in {})
             /\ lock' # None /\ m \in commit'.body[t] => About(m, t)
  <2>1. m \in disk'.shard[t] => About(m, t)
    BY DEF About
  <2>2. ASSUME NEW w \in View, m \in view'[w].body[t] PROVE About(m, t)
    <3>1. view'[w] = view[w]
      BY <1>1, <2>2
    <3> QED
      BY <2>2, <3>1 DEF About
  <2>3. ASSUME lock' # None, m \in commit'.body[t] PROVE About(m, t)
    BY <2>3 DEF About
  <2> QED
    BY <2>1, <2>2, <2>3
<1>3. ASSUME NEW m \in Mark, NEW q \in Question
      PROVE  /\ m \in disk'.fshard[q] => AboutFeedback(m, q)
             /\ \A w \in View :
                    m \in view'[w].rows[q] => AboutFeedback(m, q) \/ (m = Fresh /\ q \in {})
             /\ lock' # None /\ m \in commit'.rows[q] => AboutFeedback(m, q)
  <2>1. m \in disk'.fshard[q] => AboutFeedback(m, q)
    BY DEF AboutFeedback
  <2>2. ASSUME NEW w \in View, m \in view'[w].rows[q] PROVE AboutFeedback(m, q)
    <3>1. EmptyView.rows[q] = {}
      BY DEF EmptyView, NoRows
    <3>2. view'[w] = view[w]
      BY <2>2, <3>1
    <3> QED
      BY <2>2, <3>2 DEF AboutFeedback
  <2>3. ASSUME lock' # None, m \in commit'.rows[q] PROVE AboutFeedback(m, q)
    BY <2>3 DEF AboutFeedback
  <2> QED
    BY <2>1, <2>2, <2>3
<1> QED
  BY <1>2, <1>3, SpreadsIs

LEMMA ComesStep ==
    ASSUME TypeOK, Control, Next
    PROVE  Comes
<1>1. disk \in Files /\ \A s \in Session : ViewOf[s] \in View
  BY SessionAssumption DEF TypeOK
<1>2. ASSUME NEW s \in Session, Reserve(s) PROVE Comes
  <2>1. /\ UNCHANGED <<disk, lock, commit, used>>
        /\ \A w \in View : view'[w].body = view[w].body /\ view'[w].rows = view[w].rows
    BY <1>1, <1>2 DEF Reserve, ghosts, TypeOK, Memory
  <2>2. Spreads({}, {})
    <3>1. \A m \in Mark : \A t \in Tid : About(m, t)' => About(m, t)
      BY <2>1 DEF About
    <3>2. \A m \in Mark : \A q \in Question : AboutFeedback(m, q)' => AboutFeedback(m, q)
      BY <2>1 DEF AboutFeedback
    <3> QED
      BY <3>1, <3>2 DEF Spreads
  <2> QED
    BY <2>1, <2>2 DEF Comes
<1>3. ASSUME NEW s \in Session, PutNew(s) PROVE Comes
  <2>1. /\ UNCHANGED <<disk, lock, commit>> /\ used < use.marks /\ used' = used + 1
        /\ held[s] \in Tid
    BY <1>3, PutNewIs DEF PutNew, Owe, Fresh
  <2>2. PICK y : /\ Becomes(s, y)
                 /\ Changes(view[ViewOf[s]], Loaded(view[ViewOf[s]], PartOf[held[s]]), y,
                           held[s], {Fresh})
    BY <1>3, PutNewIs
  <2>3. Spreads({held[s]}, {})
    BY <2>1, <2>2, SpreadsInChange
  <2> QED
    BY <2>1, <2>3 DEF Comes
<1>4. ASSUME NEW s \in Session, NEW t \in Tid, Improve(s, t) PROVE Comes
  <2>1. UNCHANGED <<disk, lock, commit>> /\ used < use.marks /\ used' = used + 1
    BY <1>4 DEF Improve, Owe, Fresh
  <2>2. PICK there : there = Loaded(view[ViewOf[s]], PartOf[t])
    OBVIOUS
  <2>3. PICK y : /\ Becomes(s, y)
                 /\ Changes(view[ViewOf[s]], there, y, t, there.body[t] \cup {Fresh})
    BY <1>4, <2>2, ImproveIs
  <2>4. Spreads({t}, {})
    BY <2>1, <2>3, SpreadsInChange
  <2> QED
    BY <2>1, <2>4 DEF Comes
<1>5. ASSUME NEW s \in Session, NEW t \in Tid, RemoveTemplate(s, t) PROVE Comes
  <2>1. UNCHANGED <<disk, lock, commit>> /\ used' = used
    BY <1>5 DEF RemoveTemplate, Withdraw
  <2>2. PICK there : there = Holding(view[ViewOf[s]], t)
    OBVIOUS
  <2>3. PICK y : Becomes(s, y) /\ Changes(view[ViewOf[s]], there, y, t, {})
    BY <1>5, <2>2, RemoveTemplateIs
  <2>4. Spreads({}, {})
    BY <2>1, <2>3, SpreadsInChange
  <2> QED
    BY <2>1, <2>4 DEF Comes
<1>6. ASSUME NEW s \in Session, NEW q \in Question, RecordFeedback(s, q) PROVE Comes
  <2>1. UNCHANGED <<lock, commit>> /\ used < use.marks /\ used' = used + 1
    BY <1>6 DEF RecordFeedback, Owe, Fresh
  <2>2. PICK there : there = FeedbackLoaded(Seen(s), FPartOf[q])
    OBVIOUS
  <2>3. Flushes(there.files)
    BY <1>6, <2>2, RecordFeedbackIs
  <2>4. PICK y : /\ Becomes(s, y)
                 /\ ChangesFeedback(Seen(s), there, y, q, there.vw.rows[q] \cup {Fresh})
    BY <1>6, <2>2, RecordFeedbackIs
  <2>5. Spreads({}, {q})
    BY <2>1, <2>3, <2>4, SpreadsInFeedbackChange
  <2> QED
    BY <2>1, <2>5 DEF Comes
<1>7. ASSUME NEW s \in Session, NEW q \in Question, ForgetFeedback(s, q) PROVE Comes
  <2>1. UNCHANGED <<lock, commit>> /\ used' = used
    BY <1>7 DEF ForgetFeedback, Withdraw
  <2>2. PICK there : there = HoldingFeedback(Seen(s), q)
    OBVIOUS
  <2>3. Flushes(there.files)
    BY <1>7, <2>2, ForgetFeedbackIs
  <2>4. PICK y : Becomes(s, y) /\ ChangesFeedback(Seen(s), there, y, q, {})
    BY <1>7, <2>2, ForgetFeedbackIs
  <2>5. Spreads({}, {})
    BY <2>1, <2>3, <2>4, SpreadsInFeedbackChange
  <2> QED
    BY <2>1, <2>5 DEF Comes
<1>8. ASSUME NEW s \in Session, CountRows(s) PROVE Comes
  <2>1. UNCHANGED <<lock, commit, used>>
    BY <1>8 DEF CountRows, ghosts
  <2>2. PICK z, y : /\ Reads(Seen(s), z) /\ Loads(z.vw, y)
                    /\ Becomes(s, y) /\ Flushes(z.files)
    BY <1>8, CountRowsIs
  <2>3. /\ z.vw.body = view[ViewOf[s]].body /\ y.rows = z.vw.rows
        /\ \A q \in Question :
            z.files[q] \cup z.vw.rows[q] \subseteq disk.fshard[q] \cup view[ViewOf[s]].rows[q]
        /\ \A t \in Tid : y.body[t] \in {z.vw.body[t], disk.shard[t], {}}
    BY <2>2, SeenTyped DEF Reads, Loads
  <2>4. Spreads({}, {})
    BY <2>1, <2>2, <2>3, SpreadsInView DEF Flushes
  <2> QED
    BY <2>1, <2>4 DEF Comes
<1>9. ASSUME NEW s \in Session, FinishSave(s) PROVE Comes
  <2>1. UNCHANGED <<disk, used>> /\ lock' = None
    BY <1>9 DEF FinishSave, Committed, ghosts
  <2>2. PICK y : Becomes(s, y) /\ y = [view[ViewOf[s]] EXCEPT !.dirty = {}, !.fdirty = {}]
    BY <1>9, FinishSaveIs
  <2>3. y.body = view[ViewOf[s]].body /\ y.rows = view[ViewOf[s]].rows
    BY <2>2, ViewTyped DEF Memory
  <2>4. Spreads({}, {})
    BY <2>1, <2>2, <2>3, SpreadsInView
  <2> QED
    BY <2>1, <2>4 DEF Comes
<1>10. ASSUME NEW s \in Session, Open(s) \/ FinishOpen(s) PROVE Comes
  <2>1. UNCHANGED <<disk, used>> /\ lock' = None
    BY <1>10 DEF Open, FinishOpen, Committed, ghosts
  <2>2. PICK y : Becomes(s, y) /\ IsFresh(y)
    BY <1>10, OpenIs
  <2>3. /\ \A t \in Tid : y.body[t] \subseteq disk.shard[t]
        /\ \A q \in Question : y.rows[q] \subseteq disk.fshard[q]
    BY <2>2 DEF IsFresh
  <2>4. Spreads({}, {})
    BY <2>1, <2>2, <2>3, SpreadsInView
  <2> QED
    BY <2>1, <2>4 DEF Comes
<1>11. ASSUME NEW s \in Session, MergeSave(s) PROVE Comes
  <2>1. UNCHANGED <<disk, view, used>>
    BY <1>11 DEF MergeSave, ghosts
  <2>2. Merges(view[ViewOf[s]], commit')
    BY <1>11, ViewTyped, MergeIs DEF MergeSave
  <2>3. /\ \A t \in Tid : commit'.body[t] \in {view[ViewOf[s]].body[t], disk.shard[t]}
        /\ \A q \in Question : commit'.rows[q] \in {view[ViewOf[s]].rows[q], disk.fshard[q]}
    BY <2>2 DEF Merges
  <2>4. Spreads({}, {})
    BY <1>1, <2>1, <2>3, SpreadsInFiles
  <2> QED
    BY <2>1, <2>4 DEF Comes
<1>12. ASSUME NEW s \in Session, CommitHeader(s) \/ CommitShard(s) \/ CommitFeedback(s)
       PROVE  Comes
  <2>1. lock # None /\ commit \in Merged /\ UNCHANGED <<view, lock, used>>
    BY <1>12, Holder DEF CommitHeader, CommitShard, CommitFeedback, At, ghosts
  <2>2. /\ commit'.body = commit.body /\ commit'.rows = commit.rows
        /\ \A t \in Tid : disk'.shard[t] \in {disk.shard[t], commit.body[t]}
        /\ \A q \in Question : disk'.fshard[q] \in {disk.fshard[q], commit.rows[q]}
    <3>1. CASE CommitHeader(s)
      BY <1>1, <2>1, <3>1 DEF CommitHeader, Files
    <3>2. CASE CommitShard(s)
      BY <1>1, <2>1, <3>2 DEF CommitShard, Files, Merged, Bodies
    <3>3. CASE CommitFeedback(s)
      BY <1>1, <2>1, <3>3 DEF CommitFeedback, Files, Merged, Rows
    <3> QED
      BY <1>12, <3>1, <3>2, <3>3
  <2>3. Spreads({}, {})
    BY <2>1, <2>2, SpreadsInFiles
  <2> QED
    BY <2>1, <2>3 DEF Comes
<1>13. ASSUME NEW s \in Session, Return(s) \/ SaveFails(s) PROVE Comes
  <2>1. UNCHANGED <<disk, view, used>> /\ (lock' = None \/ UNCHANGED <<lock, commit>>)
    BY <1>13 DEF Return, SaveFails, ghosts
  <2>2. Spreads({}, {})
    BY <2>1, SpreadsInFiles
  <2> QED
    BY <2>1, <2>2 DEF Comes
<1>14. ASSUME NEW s \in Session, OpenAndRepair(s) PROVE Comes
  <2>1. UNCHANGED <<disk, view, used>>
    BY <1>14 DEF OpenAndRepair, ghosts
  <2>2. /\ \A t \in Tid : commit'.body[t] = IF t \in Strays THEN {} ELSE disk.shard[t]
        /\ commit'.rows = disk.fshard
    BY <1>14 DEF OpenAndRepair
  <2>3. Spreads({}, {})
    BY <2>1, <2>2, SpreadsInFiles
  <2> QED
    BY <2>1, <2>3 DEF Comes
<1>15. ASSUME NEW v \in View, Crash(v) PROVE Comes
  <2>1. UNCHANGED <<disk, used>> /\ (lock' = None \/ UNCHANGED <<lock, commit>>)
    BY <1>15 DEF Crash
  <2>2. \A w \in View : view'[w] \in {view[w], EmptyView}
    BY <1>15 DEF Crash, TypeOK
  <2>3. Spreads({}, {})
    BY <2>1, <2>2, SpreadsInFiles
  <2> QED
    BY <2>1, <2>3 DEF Comes
<1> QED
  BY <1>2, <1>3, <1>4, <1>5, <1>6, <1>7, <1>8, <1>9, <1>10, <1>11, <1>12, <1>13, <1>14, <1>15
  DEF Next

\* A mark stays with the one template or question it was handed out for.
LEMMA OnePlaceStep ==
    ASSUME TypeOK, Control, OnePlace, Next
    PROVE  OnePlace'
<1>1. used \in Nat /\ \A m \in Mark : m \in Nat
  BY UseTyped DEF TypeOK, Mark
<1>2. \A m \in Mark : m = Fresh => /\ \A t \in Tid : ~ About(m, t)
                                   /\ \A q \in Question : ~ AboutFeedback(m, q)
  BY <1>1 DEF OnePlace, Fresh
<1> DEFINE Where == /\ \A m \in Mark : \A t \in Tid : About(m, t)' =>
                        /\ m <= used'
                        /\ \A u \in Tid : About(m, u)' => u = t
                        /\ \A q \in Question : ~ AboutFeedback(m, q)'
                    /\ \A m \in Mark : \A q \in Question : AboutFeedback(m, q)' => m <= used'
<1>3. ASSUME NEW new, NEW asked, Spreads(new, asked),
             \/ new = {} /\ asked = {} /\ used' = used
             \/ \E t \in Tid : new = {t} /\ asked = {} /\ used' = used + 1
             \/ \E q \in Question : new = {} /\ asked = {q} /\ used' = used + 1
      PROVE  Where
  <2>1. used' \in Nat /\ used' >= used /\ (new # {} \/ asked # {} => used' = used + 1)
    BY <1>1, <1>3
  <2>2. ASSUME NEW m \in Mark, NEW t \in Tid, About(m, t)'
        PROVE  /\ m <= used'
               /\ \A u \in Tid : About(m, u)' => u = t
               /\ \A q \in Question : ~ AboutFeedback(m, q)'
    <3>1. CASE m = Fresh
      <4>1. t \in new
        BY <1>2, <2>2, <1>3, <3>1 DEF Spreads
      <4>2. asked = {} /\ \A u \in new : u = t
        BY <1>3, <4>1
      <4>3. m <= used'
        BY <1>1, <2>1, <3>1, <4>1 DEF Fresh
      <4>4. ASSUME NEW u \in Tid, About(m, u)' PROVE u = t
        BY <1>2, <1>3, <3>1, <4>2, <4>4 DEF Spreads
      <4>5. ASSUME NEW q \in Question, AboutFeedback(m, q)' PROVE FALSE
        BY <1>2, <1>3, <3>1, <4>2, <4>5 DEF Spreads
      <4> QED
        BY <4>3, <4>4, <4>5
    <3>2. CASE m # Fresh
      <4>1. About(m, t)
        BY <1>3, <2>2, <3>2 DEF Spreads
      <4>2. m <= used'
        BY <1>1, <2>1, <4>1 DEF OnePlace
      <4>3. ASSUME NEW u \in Tid, About(m, u)' PROVE u = t
        <5>1. About(m, u)
          BY <1>3, <3>2, <4>3 DEF Spreads
        <5> QED
          BY <4>1, <5>1 DEF OnePlace
      <4>4. ASSUME NEW q \in Question, AboutFeedback(m, q)' PROVE FALSE
        <5>1. AboutFeedback(m, q)
          BY <1>3, <3>2, <4>4 DEF Spreads
        <5> QED
          BY <4>1, <5>1 DEF OnePlace
      <4> QED
        BY <4>2, <4>3, <4>4
    <3> QED
      BY <3>1, <3>2
  <2>3. ASSUME NEW m \in Mark, NEW q \in Question, AboutFeedback(m, q)' PROVE m <= used'
    <3>1. CASE m = Fresh
      <4>1. asked # {}
        BY <1>2, <1>3, <2>3, <3>1 DEF Spreads
      <4> QED
        BY <1>1, <2>1, <3>1, <4>1 DEF Fresh
    <3>2. CASE m # Fresh
      <4>1. AboutFeedback(m, q)
        BY <1>3, <2>3, <3>2 DEF Spreads
      <4>2. m <= used
        BY <4>1 DEF OnePlace
      <4> QED
        BY <1>1, <2>1, <4>2
    <3> QED
      BY <3>1, <3>2
  <2> QED
    BY <2>2, <2>3
<1>4. Where
  <2> HIDE DEF Where
  <2>1. Comes
    BY ComesStep
  <2> QED
    BY <1>3, <2>1 DEF Comes
<1>5. used <= used'
  BY <1>1, ComesStep DEF Comes
<1>6. ASSUME NEW s \in Session PROVE drop'[s] \subseteq {m \in Mark : m <= used'}
  <2>1. drop \in [Session -> SUBSET Mark] /\ drop[s] \subseteq {m \in Mark : m <= used}
    BY DEF OnePlace, TypeOK
  <2>2. {m \in Mark : m <= used} \subseteq {m \in Mark : m <= used'}
    <3>1. used' \in Nat
      BY <1>1, ComesStep DEF Comes
    <3> QED
      BY <1>1, <1>5, <3>1
  <2>3. Placed \subseteq {m \in Mark : m <= used}
    BY DEF Placed, OnePlace
  <2>4. drop'[s] \subseteq drop[s] \cup Placed
    <3>1. ASSUME NEW x \in Session, Owe(x, Fresh) PROVE drop'[s] = drop[s]
      BY <3>1 DEF Owe
    <3>2. ASSUME NEW x \in Session, NEW ms \in SUBSET Placed, Withdraw(x, ms)
          PROVE  drop'[s] \subseteq drop[s] \cup Placed
      BY <2>1, <3>2 DEF Withdraw
    <3>3. ASSUME NEW x \in Session, drop' = [drop EXCEPT ![x] = {}] PROVE drop'[s] \subseteq drop[s]
      BY <2>1, <3>3
    <3>4. ASSUME NEW v \in View, drop' = [x \in Session |-> IF ViewOf[x] = v THEN {} ELSE drop[x]]
          PROVE  drop'[s] \subseteq drop[s]
      BY <3>4
    <3> QED
      BY <3>1, <3>2, <3>3, <3>4, GhostStep
  <2> QED
    BY <2>1, <2>2, <2>3, <2>4
<1> QED
  BY <1>4, <1>6 DEF OnePlace

\* A mark that is in no row, and was handed out, comes to none.
LEMMA StaysAway ==
    ASSUME TypeOK, Control, Next, NEW m \in Mark, m <= used, NEW q \in Question,
           ~ AboutFeedback(m, q)
    PROVE  ~ AboutFeedback(m, q)'
<1>1. m # Fresh
  BY UseTyped DEF TypeOK, Mark, Fresh
<1> QED
  BY <1>1, ComesStep DEF Comes, Spreads

LEMMA GoneInView ==
    ASSUME TypeOK, NEW s \in Session, NEW y, Becomes(s, y), NEW m, NEW t \in Tid,
           GoneFrom(s, m, t), m \notin y.body[t], lock' = None, disk'.shard = disk.shard,
           PartOf[t] \in y.dirty \/ PartOf[t] \notin view[ViewOf[s]].dirty \/ m \notin disk.shard[t]
    PROVE  GoneFrom(s, m, t)'
BY DEF GoneFrom, Becomes

LEMMA GoneInChange ==
    ASSUME TypeOK, NEW s \in Session, NEW there, NEW y, NEW t \in Tid, NEW marks, Becomes(s, y),
           Changes(view[ViewOf[s]], there, y, t, marks), NEW m, m # Fresh,
           marks \subseteq there.body[t] \cup {Fresh}, lock' = None, disk'.shard = disk.shard,
           NEW u \in Tid, GoneFrom(s, m, u)
    PROVE  GoneFrom(s, m, u)'
<1> DEFINE vw == view[ViewOf[s]]
<1>1. m \notin there.body[u]
  <2>1. CASE PartOf[u] \in vw.dirty
    BY <2>1 DEF GoneFrom, Changes, Loads
  <2>2. CASE PartOf[u] \notin vw.dirty
    <3>1. there.body[u] \in {vw.body[u], disk.shard[u], {}}
      BY DEF Changes, Loads
    <3> QED
      BY <2>2, <3>1 DEF GoneFrom
  <2> QED
    BY <2>1, <2>2
<1>2. m \notin y.body[u] /\ (PartOf[u] \in vw.dirty => PartOf[u] \in y.dirty)
  BY <1>1 DEF Changes
<1> QED
  BY <1>2, GoneInView

\* What a session removes is gone at once.
LEMMA GoneWhenRemoved ==
    ASSUME TypeOK, OnePlace, NEW s \in Session, NEW there, NEW y, NEW t \in Tid, Becomes(s, y),
           Changes(view[ViewOf[s]], there, y, t, {}), NEW m \in there.body[t],
           lock' = None, disk'.shard = disk.shard, NEW u \in Tid
    PROVE  /\ m \in Mark /\ About(m, t)
           /\ GoneFrom(s, m, u)'
<1> DEFINE vw == view[ViewOf[s]]
<1>1. m \in Mark
  BY DEF Changes, Loads, Memory, Bodies
<1>2. m \in vw.body[t] \/ m \in disk.shard[t]
  BY DEF Changes, Loads
<1>3. About(m, t)
  BY <1>2, ViewTyped DEF About
<1>4. ASSUME u # t PROVE m \notin there.body[u] /\ m \notin disk.shard[u]
  <2>1. ~ About(m, u)
    BY <1>1, <1>3, <1>4 DEF OnePlace
  <2>2. m \notin vw.body[u] /\ m \notin disk.shard[u]
    BY <2>1, ViewTyped DEF About
  <2> QED
    BY <2>2 DEF Changes, Loads
<1>5. m \notin y.body[u]
  BY <1>4 DEF Changes
<1>6. PartOf[u] \in y.dirty \/ m \notin disk.shard[u]
  BY <1>4 DEF Changes
<1>7. GoneFrom(s, m, u)'
  BY <1>5, <1>6 DEF GoneFrom, Becomes
<1> QED
  BY <1>1, <1>3, <1>7

LEMMA GoneStep ==
    ASSUME TypeOK, Control, Replaced, OnePlace, Gone, Next
    PROVE  Gone'
<1> SUFFICES ASSUME Alone, ~ May("forget"), NEW x \in use.sessions, NEW m \in drop'[x]
             PROVE  IsGone(x, m)'
  <2>1. use' = use
    BY UseStays
  <2>2. (\E s \in Session : use'.sessions = {s}) => Alone
    BY <2>1 DEF Alone
  <2> QED
    BY <2>1, <2>2 DEF Gone, Alone, May
<1> DEFINE v == ViewOf[x]
           Clean == \A t \in Tid : GoneFrom(x, m, t)'
<1>1. x \in Session /\ v \in View
  BY UseTyped, SessionAssumption DEF TypeOK
<1>2. \A s \in Session : pc[s] # "down" \/ s \in use.sessions => s = x
  BY <1>1, Only
<1>3. lock # None => lock = x
  BY <1>1, Only
<1>4. ASSUME m \in drop[x]
      PROVE  m \in Mark /\ m <= used /\ m # Fresh /\ IsGone(x, m)
  <2>1. m \in Mark /\ m <= used /\ IsGone(x, m)
    BY <1>1, <1>4 DEF OnePlace, Gone
  <2> QED
    BY <2>1, UseTyped DEF TypeOK, Mark, Fresh
<1>5. ASSUME m \in drop[x], Clean PROVE IsGone(x, m)'
  BY <1>4, <1>5, StaysAway DEF IsGone
<1> HIDE DEF v, Clean
<1>6. ASSUME NEW s \in Session, WorkStep(s)
      PROVE  s = x /\ lock = None /\ lock' = None /\ disk'.shard = disk.shard
  <2>1. pc[s] \in {"idle", "reserved"} /\ lock' = lock /\ disk'.shard = disk.shard
    BY <1>6, WorksIs DEF Works
  <2> QED
    BY <1>1, <1>2, <2>1, Only
<1>7. ASSUME NEW s \in Session, Reserve(s) PROVE IsGone(x, m)'
  <2>1. s = x /\ lock' = None /\ disk' = disk /\ drop' = drop
    BY <1>6, <1>7 DEF WorkStep, Reserve, ghosts
  <2>2. view'[v].body = view[v].body /\ view'[v].dirty = view[v].dirty
    BY <1>1, <1>7, <2>1 DEF Reserve, TypeOK, Memory, v
  <2>3. Clean
    BY <1>4, <2>1, <2>2 DEF Clean, IsGone, GoneFrom, v
  <2> QED
    BY <1>5, <2>1, <2>3
<1>8. ASSUME NEW s \in Session, NEW there, NEW y, NEW t \in Tid, NEW marks, WorkStep(s),
             Becomes(s, y), Changes(view[ViewOf[s]], there, y, t, marks),
             marks \subseteq there.body[t] \cup {Fresh}, drop' = drop
      PROVE  IsGone(x, m)'
  <2>1. s = x /\ lock' = None /\ disk'.shard = disk.shard
    BY <1>6, <1>8
  <2>2. \A u \in Tid : GoneFrom(x, m, u)'
    BY <1>4, <1>8, <2>1, GoneInChange DEF IsGone
  <2> QED
    BY <1>5, <1>8, <2>2 DEF Clean
<1>9. ASSUME NEW s \in Session, PutNew(s) PROVE IsGone(x, m)'
  <2>1. WorkStep(s) /\ drop' = drop /\ held[s] \in Tid
    BY <1>9, PutNewIs DEF WorkStep, PutNew, Owe
  <2>2. PICK y : /\ Becomes(s, y)
                 /\ Changes(view[ViewOf[s]], Loaded(view[ViewOf[s]], PartOf[held[s]]), y,
                           held[s], {Fresh})
    BY <1>9, PutNewIs
  <2> QED
    BY <1>8, <2>1, <2>2
<1>10. ASSUME NEW s \in Session, NEW t \in Tid, Improve(s, t) PROVE IsGone(x, m)'
  <2>1. WorkStep(s) /\ drop' = drop
    BY <1>10 DEF WorkStep, Improve, Owe
  <2>2. PICK there : there = Loaded(view[ViewOf[s]], PartOf[t])
    OBVIOUS
  <2>3. PICK y : /\ Becomes(s, y)
                 /\ Changes(view[ViewOf[s]], there, y, t, there.body[t] \cup {Fresh})
    BY <1>10, <2>2, ImproveIs
  <2> QED
    BY <1>8, <2>1, <2>3
<1>11. ASSUME NEW s \in Session, NEW t \in Tid, RemoveTemplate(s, t) PROVE IsGone(x, m)'
  <2>1. s = x /\ lock' = None /\ disk'.shard = disk.shard
    BY <1>6, <1>11 DEF WorkStep
  <2>2. PICK there : there = Holding(view[ViewOf[s]], t)
    OBVIOUS
  <2>3. PICK y : Becomes(s, y) /\ Changes(view[ViewOf[s]], there, y, t, {})
    BY <1>11, <2>2, RemoveTemplateIs
  <2>4. drop'[x] = drop[x] \cup there.body[t] /\ used' = used
    BY <1>1, <1>11, <2>1, <2>2, RemoveTemplateIs DEF Withdraw, TypeOK
  <2>5. CASE m \in drop[x]
    <3>1. m # Fresh /\ \A u \in Tid : GoneFrom(s, m, u)
      BY <1>4, <2>1, <2>5 DEF IsGone
    <3>2. PICK none : none = {}
      OBVIOUS
    <3>3. /\ Changes(view[ViewOf[s]], there, y, t, none)
          /\ none \subseteq there.body[t] \cup {Fresh}
      BY <2>3, <3>2
    <3>4. \A u \in Tid : GoneFrom(s, m, u)'
      BY <2>1, <2>3, <3>1, <3>2, <3>3, GoneInChange
    <3> QED
      BY <1>5, <2>1, <2>5, <3>4 DEF Clean
  <2>6. CASE m \in there.body[t]
    <3>1. m \in Mark /\ About(m, t) /\ \A u \in Tid : GoneFrom(x, m, u)'
      BY <2>1, <2>3, <2>6, GoneWhenRemoved
    <3>2. m <= used /\ \A q \in Question : ~ AboutFeedback(m, q)
      BY <3>1 DEF OnePlace
    <3>3. \A q \in Question : ~ AboutFeedback(m, q)'
      BY <3>1, <3>2, StaysAway
    <3> QED
      BY <3>1, <3>3 DEF IsGone
  <2> QED
    BY <2>4, <2>5, <2>6
<1>12. ASSUME NEW s \in Session, NEW q \in Question, RecordFeedback(s, q) PROVE IsGone(x, m)'
  <2>1. s = x /\ lock' = None /\ disk'.shard = disk.shard /\ drop' = drop
    BY <1>6, <1>12 DEF WorkStep, RecordFeedback, Owe
  <2>2. PICK there : there = FeedbackLoaded(Seen(s), FPartOf[q])
    OBVIOUS
  <2>3. PICK y : /\ Becomes(s, y)
                 /\ ChangesFeedback(Seen(s), there, y, q, there.vw.rows[q] \cup {Fresh})
    BY <1>12, <2>2, RecordFeedbackIs
  <2>4. y.body = view[v].body /\ y.dirty = view[v].dirty
    BY <2>1, <2>3, SeenTyped DEF ChangesFeedback, v
  <2>5. Clean
    BY <1>1, <1>4, <2>1, <2>3, <2>4 DEF Clean, IsGone, GoneFrom, Becomes, v
  <2> QED
    BY <1>5, <2>1, <2>5
<1>13. ASSUME NEW s \in Session, CountRows(s) PROVE IsGone(x, m)'
  <2>1. s = x /\ lock' = None /\ disk'.shard = disk.shard /\ drop' = drop
    BY <1>6, <1>13 DEF WorkStep, CountRows, ghosts
  <2>2. PICK z, y : /\ Reads(Seen(s), z) /\ Loads(z.vw, y)
                    /\ Becomes(s, y) /\ Flushes(z.files)
    BY <1>13, CountRowsIs
  <2>3. /\ z.vw.body = view[v].body /\ z.vw.dirty = view[v].dirty
        /\ y.dirty = z.vw.dirty
        /\ \A t \in Tid : /\ y.body[t] \in {z.vw.body[t], disk.shard[t], {}}
                          /\ PartOf[t] \in z.vw.dirty => y.body[t] = z.vw.body[t]
    BY <2>1, <2>2, SeenTyped DEF Reads, Loads, v
  <2>4. ASSUME NEW t \in Tid, GoneFrom(x, m, t) PROVE GoneFrom(x, m, t)'
    <3>1. m \notin y.body[t]
      BY <2>3, <2>4 DEF GoneFrom, v
    <3> QED
      BY <2>1, <2>2, <2>3, <2>4, <3>1, GoneInView DEF v
  <2> QED
    BY <1>4, <1>5, <2>1, <2>4 DEF Clean, IsGone
<1>14. ASSUME NEW s \in Session, MergeSave(s) PROVE IsGone(x, m)'
  <2>1. s = x /\ UNCHANGED <<disk, view, drop>>
    BY <1>2, <1>14 DEF MergeSave, At, ghosts
  <2>2. Merges(view[v], commit')
    BY <1>14, <2>1, ViewTyped, MergeIs DEF MergeSave, v
  <2>3. Clean
    BY <1>4, <2>1, <2>2 DEF Clean, IsGone, GoneFrom, Merges, v
  <2> QED
    BY <1>5, <2>1, <2>3
<1>15. ASSUME NEW s \in Session, CommitHeader(s) \/ CommitShard(s) \/ CommitFeedback(s)
       PROVE  IsGone(x, m)'
  <2>1. lock # None /\ commit \in Merged /\ disk \in Files /\ UNCHANGED <<view, lock, drop>>
    BY <1>15, Holder DEF CommitHeader, CommitShard, CommitFeedback, At, ghosts, TypeOK
  <2>2. /\ commit'.body = commit.body
        /\ \A t \in Tid : disk'.shard[t] \in {disk.shard[t], commit.body[t]}
    <3>1. CASE CommitHeader(s)
      BY <2>1, <3>1 DEF CommitHeader, Files
    <3>2. CASE CommitShard(s)
      BY <2>1, <3>2 DEF CommitShard, Files, Merged, Bodies
    <3>3. CASE CommitFeedback(s)
      BY <2>1, <3>3 DEF CommitFeedback, Files, Merged
    <3> QED
      BY <1>15, <3>1, <3>2, <3>3
  <2>3. Clean
    BY <1>4, <2>1, <2>2 DEF Clean, IsGone, GoneFrom
  <2> QED
    BY <1>5, <2>1, <2>3
<1>16. ASSUME NEW s \in Session, FinishSave(s) PROVE IsGone(x, m)'
  <2>1. /\ s = x /\ lock # None /\ pc[x] = "headed" /\ lock' = None
        /\ commit.parts = {} /\ UNCHANGED <<disk, drop>>
    BY <1>2, <1>16, Holder DEF FinishSave, Committed, At, ghosts
  <2>2. PICK y : Becomes(x, y) /\ y = [view[v] EXCEPT !.dirty = {}, !.fdirty = {}]
    BY <1>1, <1>16, <2>1, FinishSaveIs DEF v
  <2>3. y.body = view[v].body
    BY <1>1, <2>2, ViewTyped DEF Memory, v
  <2>4. \A t \in Tid : disk.shard[t] = commit.body[t]
    BY <2>1 DEF Replaced
  <2>5. view'[v] = y
    BY <2>2 DEF Becomes, v
  <2>6. Clean
    BY <1>4, <2>1, <2>3, <2>4, <2>5 DEF Clean, IsGone, GoneFrom, v
  <2> QED
    BY <1>5, <2>1, <2>6
<1>17. ASSUME NEW s \in Session, Return(s) PROVE FALSE
  <2>1. s = x /\ drop'[x] = {}
    BY <1>2, <1>17 DEF Return, At, TypeOK
  <2> QED
    BY <2>1
<1>18. ASSUME NEW s \in Session, SaveFails(s) PROVE IsGone(x, m)'
  <2>1. UNCHANGED <<disk, view, drop>> /\ (lock' = None \/ UNCHANGED <<lock, commit>>)
    BY <1>18 DEF SaveFails, ghosts
  <2>2. Clean
    BY <1>4, <2>1 DEF Clean, IsGone, GoneFrom
  <2> QED
    BY <1>5, <2>1, <2>2
<1>19. ASSUME view[v].dirty = {}, m \in drop[x] PROVE \A t \in Tid : m \notin disk.shard[t]
  BY <1>4, <1>19 DEF IsGone, GoneFrom, v
<1>20. ASSUME NEW s \in Session, Open(s) \/ FinishOpen(s) PROVE IsGone(x, m)'
  <2>1. s = x /\ v \notin live
    <3>1. CASE Open(s)
      BY <1>2, <3>1 DEF Open, SessionsOf, v
    <3>2. CASE FinishOpen(s)
      BY <1>2, <3>2 DEF FinishOpen, Committed, Control, ControlOf, v
    <3> QED
      BY <1>20, <3>1, <3>2
  <2>2. lock' = None /\ UNCHANGED <<disk, drop>>
    BY <1>20 DEF Open, FinishOpen, Committed, ghosts
  <2>3. view[v].dirty = {}
    BY <1>1, <2>1 DEF Control, EmptyView
  <2>4. PICK y : Becomes(x, y) /\ IsFresh(y)
    BY <1>1, <1>20, <2>1, OpenIs
  <2>5. view'[v] = y /\ \A t \in Tid : y.body[t] \subseteq disk.shard[t]
    BY <2>4 DEF Becomes, IsFresh, v
  <2>6. \A t \in Tid : m \notin disk.shard[t]
    BY <1>19, <2>2, <2>3
  <2>7. Clean
    BY <2>2, <2>5, <2>6 DEF Clean, GoneFrom, v
  <2> QED
    BY <1>5, <2>2, <2>7
<1>21. ASSUME NEW s \in Session, OpenAndRepair(s) PROVE IsGone(x, m)'
  <2>1. s = x /\ v \notin live /\ UNCHANGED <<disk, view, drop>>
    BY <1>2, <1>21 DEF OpenAndRepair, SessionsOf, ghosts, v
  <2>2. view[v].dirty = {}
    BY <1>1, <2>1 DEF Control, EmptyView
  <2>3. \A t \in Tid : commit'.body[t] = IF t \in Strays THEN {} ELSE disk.shard[t]
    BY <1>21 DEF OpenAndRepair
  <2>4. \A t \in Tid : m \notin disk.shard[t]
    BY <1>19, <2>1, <2>2
  <2>5. Clean
    BY <1>4, <2>1, <2>3, <2>4 DEF Clean, IsGone, GoneFrom
  <2> QED
    BY <1>5, <2>1, <2>5
<1>22. ASSUME NEW w \in View, Crash(w) PROVE FALSE
  <2>1. w = v
    BY <1>1, <1>22, CrashOnly DEF v
  <2>2. drop'[x] = {}
    BY <1>1, <1>22, <2>1 DEF Crash, v
  <2> QED
    BY <2>2
<1>23. ASSUME NEW s \in Session, NEW q \in Question, ForgetFeedback(s, q) PROVE FALSE
  BY <1>23 DEF ForgetFeedback
<1> QED
  BY <1>7, <1>9, <1>10, <1>11, <1>12, <1>13, <1>14, <1>15, <1>16, <1>17, <1>18, <1>20, <1>21,
     <1>22, <1>23
  DEF Next

\* What a reader of the files reaches from the header is in one of them.
LEMMA InFiles ==
    ASSUME TypeOK, NEW m \in OnDisk
    PROVE  \/ \E t \in Tid : m \in disk.shard[t]
           \/ \E q \in Question : m \in disk.fshard[q]
<1>1. disk.head.map \subseteq Tid /\ disk.head.index \subseteq Question
  BY DEF TypeOK, Files, Header
<1> DEFINE A == UNION {disk.shard[t] : t \in disk.head.map}
           B == UNION {disk.fshard[q] : q \in disk.head.index}
<1>2. m \in A \/ m \in B
  BY DEF OnDisk
<1>3. m \in A => \E t \in Tid : m \in disk.shard[t]
  BY <1>1
<1>4. m \in B => \E q \in Question : m \in disk.fshard[q]
  BY <1>1
<1> QED
  BY <1>2, <1>3, <1>4

\* When a save returns to the only session of a store, no template that it removed is
\* reachable from the header: the merge takes the body of a removed template out of
\* its partition instead of only adding what the session has.
THEOREM Removal == Spec => []RemovedIsGone
<1>1. Init => OnePlace /\ Gone
  <2> SUFFICES ASSUME Init PROVE OnePlace /\ Gone
    OBVIOUS
  <2>1. /\ lock = None /\ \A s \in Session : drop[s] = {}
        /\ \A t \in Tid : disk.shard[t] = {} /\ \A v \in View : view[v].body[t] = {}
    BY DEF Init, EmptyView, NoBodies
  <2>2. \A q \in Question : disk.fshard[q] = {} /\ \A v \in View : view[v].rows[q] = {}
    BY DEF Init, EmptyView, NoRows
  <2>3. \A s \in use.sessions : s \in Session
    BY UseTyped DEF Init
  <2>4. \A m \in Mark : /\ \A t \in Tid : ~ About(m, t)
                        /\ \A q \in Question : ~ AboutFeedback(m, q)
    BY <2>1, <2>2 DEF About, AboutFeedback
  <2> QED
    BY <2>1, <2>3, <2>4 DEF OnePlace, Gone
<1>2. /\ TypeOK /\ Control /\ Replaced /\ OnePlace /\ Gone
      /\ [Next]_vars
      => (OnePlace /\ Gone)'
  <2>1. ASSUME OnePlace, Gone, UNCHANGED vars PROVE OnePlace' /\ Gone'
    <3>1. \A m : /\ \A t : About(m, t)' <=> About(m, t)
                 /\ \A q : AboutFeedback(m, q)' <=> AboutFeedback(m, q)
      BY <2>1 DEF vars, About, AboutFeedback
    <3>2. \A s, m : IsGone(s, m)' <=> IsGone(s, m)
      BY <2>1, <3>1 DEF vars, IsGone, GoneFrom
    <3>3. OnePlace'
      BY <2>1, <3>1 DEF vars, ghosts, OnePlace
    <3>4. Gone'
      BY <2>1, <3>2 DEF vars, ghosts, Gone, Alone, May
    <3> QED
      BY <3>3, <3>4
  <2> QED
    BY <2>1, OnePlaceStep, GoneStep
<1>3. TypeOK /\ Control /\ Single /\ Gone => RemovedIsGone
  <2> SUFFICES ASSUME TypeOK, Control, Single, Gone, Alone, ~ May("forget"),
                      NEW s \in Session, pc[s] = "saved", NEW m \in drop[s], m \in OnDisk
               PROVE  FALSE
    BY DEF RemovedIsGone
  <2>1. s \in use.sessions
    BY DEF Control, ControlOf
  <2>2. IsGone(s, m) /\ view[ViewOf[s]].dirty = {}
    BY <2>1 DEF Single, OneSession, Gone
  <2>3. /\ \A t \in Tid : m \notin disk.shard[t]
        /\ \A q \in Question : m \notin disk.fshard[q]
    BY <2>2 DEF IsGone, GoneFrom, AboutFeedback
  <2> QED
    BY <2>3, InFiles
<1> QED
  BY <1>1, <1>2, <1>3, SafeInv, Typed, PTL DEF Spec
=============================================================================
