---------------------------- MODULE MCSessionTurn ----------------------------
(* Instances of SessionTurn: two threads and four ways of using a session.  *)
EXTENDS SessionTurn

CONSTANTS a, b

MCThread == {a, b}
MCStage == {"intent_confirm", "sql_feedback"}

Calls2(x, y, faults) ==
    [may |-> [t \in MCThread |-> IF t = a THEN x ELSE y], faults |-> faults]

OneCaller == Calls2(Methods, {}, {"turn"})
Askers == Calls2({"ask", "step"}, {"ask"}, {})
AskAndCancel == Calls2({"ask"}, {"cancel"}, {"turn"})
Anything == Calls2(Methods, Methods, {"turn"})
AnyFault == Calls2({"ask", "step"}, {"step", "cancel"}, Places)

MCUse == {OneCaller, Askers, AskAndCancel, Anything, AnyFault}
=============================================================================
