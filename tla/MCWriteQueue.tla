---------------------------- MODULE MCWriteQueue ----------------------------
(* Instances of WriteQueue: the owner learns into "master", the consumer    *)
(* into "team"; the limits let two short lines into one drain.              *)
EXTENDS WriteQueue, TLC

CONSTANTS m1, m2, m3, c1, c2, ov, big, owner, consumer

Kind == m1 :> "feedback" @@ m2 :> "verdict" @@ m3 :> "feedback"
     @@ c1 :> "feedback" @@ c2 :> "verdict" @@ ov :> "override" @@ big :> "verdict"
In == m1 :> "master" @@ m2 :> "master" @@ m3 :> "master" @@ ov :> "master"
   @@ c1 :> "team" @@ c2 :> "team" @@ big :> "team"
Size == [e \in {m1, m2, m3, c1, c2, ov} |-> 1] @@ big :> 3

MCSpace == {"master", "team"}
MCGraph == {"live", "former"}
MCWriter == {owner, consumer}
MCConsumer == {consumer}
MCHome == owner :> "master" @@ consumer :> "team"
MCLive == [w \in MCWriter |-> "live"]

\* Feedback before a verdict in each partition.
OrderEvent == {m1, m2, c1, c2}
\* One line of every kind, one of them of a former graph, one over the limit.
KindsEvent == {m1, c2, ov, big}

OrderKind == Restrict(Kind, OrderEvent)
OrderIn == Restrict(In, OrderEvent)
OrderSize == Restrict(Size, OrderEvent)
OrderGraph == [e \in OrderEvent |-> "live"]
KindsKind == Restrict(Kind, KindsEvent)
KindsIn == Restrict(In, KindsEvent)
KindsSize == Restrict(Size, KindsEvent)
KindsGraph == [e \in KindsEvent |-> IF e = c2 THEN "former" ELSE "live"]

NoEvent == {}
PoisonM1 == {m1}
=============================================================================
