-------------------------- MODULE MCResilientHttp --------------------------
(* A reading call (retry 5xx) next to an order-placing call. *)
EXTENDS ResilientHttp

CONSTANTS read, order

MCCall == {read, order}
MCRetries == [c \in MCCall |-> IF c = read THEN 2 ELSE 1]
MCRetryOn5xx == [c \in MCCall |-> c = read]
=============================================================================
