---------------------------- MODULE MCEngineTree ----------------------------
(***************************************************************************)
(* Instances of EngineTree: three structures of the catalog, one owner and *)
(* one consumer.  The owner alone meets more drift and more faults than    *)
(* the two together.                                                       *)
(***************************************************************************)
EXTENDS EngineTree, TLC

CONSTANTS v0, v1, v2

MCVersion == {v0, v1, v2}
MCMaxDrift == [u \in Use |-> IF u = "alone" THEN 3 ELSE 1]
MCMaxFaults == [u \in Use |-> IF u = "alone" THEN 2 ELSE 1]
MCNoFaults == [u \in Use |-> 0]

Symmetry == Permutations(MCVersion)
=============================================================================
