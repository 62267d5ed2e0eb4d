--------------------------- MODULE MCProvisioning ---------------------------
(* Model-checking instance of Provisioning: two attempts of each post. *)
EXTENDS Provisioning

MCBudget == [c \in {"faucet", "transfer", "enroll"} |-> 2]
=============================================================================
