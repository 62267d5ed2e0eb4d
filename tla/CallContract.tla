--------------------------- MODULE CallContract ---------------------------
(***************************************************************************)
(* What a caller of a ResilientClient may rely on, without saying how the  *)
(* client retries: a call is open until it succeeds or fails; it succeeds  *)
(* only if the server carried it out; and the server carries it out at     *)
(* most once, plus once for every attempt whose fate the client could not  *)
(* know (a doubt).  Effects may still arrive after the call has closed.    *)
(***************************************************************************)
EXTENDS Naturals

CONSTANTS Call,
          Budget    \* Budget[c]: attempts the caller pays for at most

VARIABLES phase,    \* phase[c]: "open", "succeeded" or "failed"
          effects,  \* effects[c]: times the server carried the call out
          doubts    \* doubts[c]: attempts that ended without an answer

contractVars == <<phase, effects, doubts>>

ContractInit ==
    /\ phase = [c \in Call |-> "open"]
    /\ effects = [c \in Call |-> 0]
    /\ doubts = [c \in Call |-> 0]

Effect(c) ==
    /\ effects[c] < Budget[c]
    /\ effects[c] <= doubts[c]
    /\ effects' = [effects EXCEPT ![c] = @ + 1]
    /\ UNCHANGED <<phase, doubts>>

Doubt(c) ==
    /\ phase[c] = "open"
    /\ doubts[c] < Budget[c]
    /\ doubts' = [doubts EXCEPT ![c] = @ + 1]
    /\ phase' \in {phase, [phase EXCEPT ![c] = "failed"]}
    /\ UNCHANGED effects

Close(c) ==
    /\ phase[c] = "open"
    /\ \/ effects[c] > 0 /\ phase' = [phase EXCEPT ![c] = "succeeded"]
       \/ phase' = [phase EXCEPT ![c] = "failed"]
    /\ UNCHANGED <<effects, doubts>>

ContractNext == \E c \in Call : Effect(c) \/ Doubt(c) \/ Close(c)

ContractSpec ==
    /\ ContractInit
    /\ [][ContractNext]_contractVars
    /\ \A c \in Call : WF_contractVars(Doubt(c) \/ Close(c))

\* The safety half, which HttpProofs proves.
ContractSafety == ContractInit /\ [][ContractNext]_contractVars
=============================================================================
