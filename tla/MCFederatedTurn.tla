--------------------------- MODULE MCFederatedTurn ---------------------------
(* Three members: a and b share a connection, a and c are joined. *)
EXTENDS FederatedTurn

CONSTANTS a, b, c

MCSlug == [m \in {a, b, c} |-> IF m = c THEN 2 ELSE 1]

\* Each may reduce the other; and a takes no keys of c.
Both == [m \in {a, b, c} |-> IF m = a THEN {c} ELSE IF m = c THEN {a} ELSE {}]
OneWay == [Both EXCEPT ![a] = {}]

\* A wave of its own for each; one wave, in three batches or two; a union.
Plans == {
    [union |-> FALSE, driver |-> Both, waves |-> <<<<c>>, <<a>>>>],
    [union |-> FALSE, driver |-> OneWay, waves |-> <<<<a, b, c>>>>],
    [union |-> FALSE, driver |-> Both, waves |-> <<<<a>>, <<b, c>>>>],
    [union |-> TRUE, driver |-> Both, waves |-> <<<<b, c>>>>]}
=============================================================================
