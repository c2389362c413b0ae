-------------------------- MODULE MCFederationTree --------------------------
(* Small instances of FederationTree: three sources, two declarations. *)
EXTENDS FederationTree

CONSTANTS a, b, c

\* A removal of c takes a logical name with it, or leaves all declarations alone.
Wide == [joins |-> {{a, b}, {b, c}}, logical |-> {{a, b}, {c}}]
Narrow == [joins |-> {{a, b}}, logical |-> {{a, b}}]
Declarations == {Wide, Narrow}
=============================================================================
