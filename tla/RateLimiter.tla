---------------------------- MODULE RateLimiter ----------------------------
(***************************************************************************)
(* lib/http.py, class RateLimiter: the limiter one worker process shares   *)
(* between all its HTTP clients (fixtures/clients.py builds one, _limiter).*)
(*                                                                         *)
(* wait() reserves a slot under the lock and then sleeps OUTSIDE the lock  *)
(* until the slot has come, so several callers can hold reservations at    *)
(* once and wake in any order.  Time is the monotonic clock in an          *)
(* arbitrary unit.  A sleep may overshoot: Proceed has no deadline.        *)
(***************************************************************************)
EXTENDS Naturals, Sequences, FiniteSets

CONSTANTS Caller,     \* threads of one process that share the limiter
          Interval,   \* self._interval = 1/rps; 0 when rps is 0
          MaxTime     \* bound: last instant of the model

ASSUME LimiterAssumption ==
    /\ IsFiniteSet(Caller)
    /\ Interval \in Nat
    /\ MaxTime \in Nat

VARIABLES now,        \* time.monotonic()
          next_slot,  \* self._next_slot
          slots,      \* every slot handed out so far, in order of reservation
          ticket,     \* ticket[c]: index in slots of c's reservation, 0 = none
          sent        \* tickets whose holder has left wait()

limiterVars == <<now, next_slot, slots, ticket, sent>>

LimiterInit ==
    /\ now = 0
    /\ next_slot = 0
    /\ slots = <<>>
    /\ ticket = [c \in Caller |-> 0]
    /\ sent = {}

-----------------------------------------------------------------------------
Later(a, b) == IF a > b THEN a ELSE b

(***************************************************************************)
(* slot = max(now, self._next_slot); self._next_slot = slot + interval.    *)
(* With Interval = 0 the slot is the present, as the early return gives.   *)
(***************************************************************************)
Slot == Later(now, next_slot)
NextAfter(slot) == slot + Interval

(***************************************************************************)
(* The critical section of wait().  The model hands out no slot past       *)
(* MaxTime: its holder could not wake within the model.                    *)
(***************************************************************************)
Reserve(c) ==
    /\ ticket[c] = 0
    /\ Slot <= MaxTime
    /\ slots' = Append(slots, Slot)
    /\ next_slot' = NextAfter(Slot)
    /\ ticket' = [ticket EXCEPT ![c] = Len(slots) + 1]
    /\ UNCHANGED <<now, sent>>

\* Mutant: the caller does not sleep.
AwakeAtOnce(c) == TRUE

\* time.sleep(slot - now) is over.
Awake(c) == slots[ticket[c]] <= now

\* wait() returns; the caller may send.
Proceed(c) ==
    /\ ticket[c] # 0
    /\ Awake(c)
    /\ sent' = sent \cup {ticket[c]}
    /\ ticket' = [ticket EXCEPT ![c] = 0]
    /\ UNCHANGED <<now, next_slot, slots>>

Tick ==
    /\ now < MaxTime
    /\ now' = now + 1
    /\ UNCHANGED <<next_slot, slots, ticket, sent>>

LimiterNext ==
    \/ Tick
    \/ \E c \in Caller : Reserve(c) \/ Proceed(c)

LimiterSpec == LimiterInit /\ [][LimiterNext]_limiterVars

-----------------------------------------------------------------------------
LimiterTypeOK ==
    /\ now \in Nat
    /\ next_slot \in Nat
    /\ slots \in Seq(Nat)
    /\ ticket \in [Caller -> 0..Len(slots)]
    /\ sent \subseteq 1..Len(slots)

(***************************************************************************)
(* Two reservations are never closer than one interval, whoever made them  *)
(* and however their critical sections interleaved with the clock and with *)
(* sleeping callers (RateLimiter.wait: the reservation survives the lock). *)
(***************************************************************************)
SlotsSpaced ==
    \A i, j \in 1..Len(slots) : i < j => slots[i] + Interval <= slots[j]

(***************************************************************************)
(* "space calls at most `rps` per second": at every instant, the calls     *)
(* that have left wait() since the process started number at most          *)
(* now / Interval + 1, even if sleepers overshoot and wake out of order.   *)
(***************************************************************************)
PaceBound == Cardinality(sent) * Interval <= now + Interval

\* The inductive strengthening of PaceBound, used by HttpProofs: the
\* t-th reservation lies at least t - 1 intervals after the start, and only
\* slots that have come have been used.
SlotFloor ==
    /\ \A t \in 1..Len(slots) : (t - 1) * Interval <= slots[t]
    /\ Len(slots) * Interval <= next_slot
    /\ \A t \in 1..Len(slots) : slots[t] + Interval <= next_slot
SentAreDue == \A t \in sent : slots[t] <= now

LimiterInv == LimiterTypeOK /\ SlotFloor /\ SentAreDue
=============================================================================
