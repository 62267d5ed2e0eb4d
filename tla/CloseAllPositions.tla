------------------------- MODULE CloseAllPositions -------------------------
(***************************************************************************)
(* close_all_perp_positions of lib/perp.py: post /perpetual/positions/close*)
(* until the answer no longer says "partial", the answer is not ok, the    *)
(* post raises, or MaxPosts posts were made.  Never raises.  The callers   *)
(* (FlattenPair, MakerCapture) move the program counter.                   *)
(***************************************************************************)
EXTENDS PerpExchange

CONSTANT MaxPosts    \* range(20)

ASSUME CloseAssumption == MaxPosts \in Nat \ {0}

VARIABLES pc,
          posts   \* posts made by the close loop that is running

\* The server (external): a reduce-only market order for each leg of S.
CloseOrders(p, S) ==
    (IF "long" \in S THEN <<NewOrder(p, "long", FALSE, FALSE, pos[p]["long"])>> ELSE <<>>)
    \o (IF "short" \in S THEN <<NewOrder(p, "short", FALSE, FALSE, pos[p]["short"])>> ELSE <<>>)

OpenLegs(p) == {leg \in Leg : pos[p][leg] > 0}

\* It takes on some of the open legs and says "partial" when it left one out.
SubmitCloses(p, partial) ==
    /\ \E S \in SUBSET OpenLegs(p) :
          /\ partial = (S # OpenLegs(p))
          /\ Accept(CloseOrders(p, S))
    /\ UNCHANGED pos

OneMore == posts + 1 < MaxPosts

\* One turn of the loop at `here`; `next` follows the loop.
CloseTurn(p, here, next) ==
    /\ pc = here
    /\ \/ \* answered "partial"
          /\ SubmitCloses(p, TRUE) /\ UNCHANGED repeats
          /\ IF OneMore THEN pc' = here /\ posts' = posts + 1
                        ELSE pc' = next /\ posts' = 0
       \/ \* answered "nothing left", or the answer was lost on its way and the client
          \* gives up
          /\ \E partial \in BOOLEAN : SubmitCloses(p, partial)
          /\ pc' = next /\ posts' = 0
          /\ UNCHANGED repeats
       \/ \* the answer was lost, and the client posts again
          /\ \E partial \in BOOLEAN : SubmitCloses(p, partial)
          /\ Repeats
          /\ UNCHANGED <<pc, posts>>
       \/ \* refused, or never arrived
          /\ UNCHANGED exchange
          /\ pc' = next /\ posts' = 0
=============================================================================
