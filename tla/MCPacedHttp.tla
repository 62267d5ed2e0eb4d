---------------------------- MODULE MCPacedHttp ----------------------------
(* A reading call (retry 5xx, one retry) next to an order-placing call. *)
EXTENDS PacedHttp

CONSTANTS read, order

MCCall == {read, order}
MCRetries == [c \in MCCall |-> 1]
MCRetryOn5xx == [c \in MCCall |-> c = read]
MCJitter == {0, 1}
MCRetryAfter == {0, 3}
=============================================================================
