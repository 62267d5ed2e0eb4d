---------------------------- MODULE MCRunContext ----------------------------
(* Two runs on one machine, with a worker each, and a tool. *)
EXTENDS RunContext

CONSTANTS m1, m2, w1, w2, tool

MCMain == {m1, m2}
MCWorker == {w1, w2}
MCOwner == [w \in MCWorker |-> IF w = w1 THEN m1 ELSE m2]
MCTool == {tool}
=============================================================================
