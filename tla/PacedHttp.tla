----------------------------- MODULE PacedHttp -----------------------------
(***************************************************************************)
(* lib/http.py put together: the retry loops of a process's clients        *)
(* (ResilientHttp) take turns through the one RateLimiter they share, and  *)
(* sleep between attempts for as long as the server asks (Retry-After) or  *)
(* for an exponential backoff with jitter.  RateLimiter's clock is the     *)
(* clock of the whole.                                                     *)
(***************************************************************************)
EXTENDS ResilientHttp, RateLimiter, Integers

CONSTANTS BackoffUnit,  \* 0.5 s
          BackoffCap,   \* 30 s
          Jitter,       \* the values of random.random() * 0.25
          RetryAfter    \* values the header takes; NoHeader, or unreadable, too

NoHeader == -1

ASSUME PaceAssumption ==
    /\ Caller = Call        \* each call runs on a thread of its own
    /\ BackoffUnit \in Nat /\ BackoffCap \in Nat
    /\ Jitter \subseteq Nat /\ RetryAfter \subseteq Nat

VARIABLES wake,      \* wake[c]: when c's sleep between two attempts ends
          notBefore  \* history, notBefore[c]: answer time + Retry-After, 0 if none

sleep == <<wake, notBefore>>
pacedVars == <<vars, limiterVars, sleep>>

PacedInit ==
    /\ Init /\ LimiterInit
    /\ wake = [c \in Call |-> 0]
    /\ notBefore = [c \in Call |-> 0]

-----------------------------------------------------------------------------
\* _backoff(attempt), for a given value of the jitter.
Backoff(n, jitter) ==
    LET grown == BackoffUnit * 2 ^ n
    IN (IF grown < BackoffCap THEN grown ELSE BackoffCap) + jitter

\* Mutants: Retry-After shortens the backoff only; the limiter is passed once
\* per call, not once per attempt.
ShorterPause(c, header) ==
    IF header = NoHeader THEN {Backoff(attempt[c], j) : j \in Jitter}
    ELSE {Later(0, header - Backoff(attempt[c], 0))}
PassLimiterOnce(c) == IF attempt[c] = 0 THEN Proceed(c) ELSE UNCHANGED limiterVars

\* How long to sleep after an answer with this header.
Pause(c, header) ==
    IF header = NoHeader THEN {Backoff(attempt[c], j) : j \in Jitter} ELSE {header}

PassLimiter(c) == Proceed(c)

\* self._limiter.wait() takes c's slot ...
PacedReserve(c) ==
    /\ pc[c] = "limiter"
    /\ Reserve(c)
    /\ UNCHANGED <<vars, sleep>>

\* ... and returns; fn() sends.
PacedSend(c) == PassLimiter(c) /\ Send(c) /\ UNCHANGED sleep

Sleep(c, pause) == wake' = [wake EXCEPT ![c] = now + pause]

\* An answer that is not the last sends the loop to sleep.
PacedReceive(c) ==
    /\ Receive(c)
    /\ IF pc'[c] = "backoff"
       THEN \E header \in RetryAfter \cup {NoHeader} :
              /\ \E pause \in Pause(c, header) : Sleep(c, pause)
              /\ notBefore' = [notBefore EXCEPT ![c] =
                                  IF header = NoHeader THEN 0 ELSE now + header]
       ELSE UNCHANGED sleep
    /\ UNCHANGED limiterVars

PacedNetworkError(c) ==
    /\ NetworkError(c)
    /\ IF pc'[c] = "backoff"
       THEN /\ \E pause \in Pause(c, NoHeader) : Sleep(c, pause)
            /\ notBefore' = [notBefore EXCEPT ![c] = 0]
       ELSE UNCHANGED sleep
    /\ UNCHANGED limiterVars

PacedRetry(c) == wake[c] <= now /\ Retry(c) /\ UNCHANGED <<limiterVars, sleep>>

PacedServe(c) ==
    /\ \E n \in inflight[c] : Serve(c, n)
    /\ UNCHANGED <<limiterVars, sleep>>

PacedTick == Tick /\ UNCHANGED <<vars, sleep>>

PacedNext ==
    \/ PacedTick
    \/ \E c \in Call :
          \/ PacedReserve(c) \/ PacedSend(c) \/ PacedReceive(c)
          \/ PacedNetworkError(c) \/ PacedRetry(c) \/ PacedServe(c)

PacedSpec == PacedInit /\ [][PacedNext]_pacedVars

-----------------------------------------------------------------------------
\* The requests put on the wire so far: call and attempt.
OnWire == UNION {{c} \X Sent(c) : c \in Call}

(***************************************************************************)
(* REQUESTS are paced, not calls: however the loops interleave, the first  *)
(* tries and the retries of all of them together stay within one request   *)
(* per interval (the docstring of lib/http.py: "proactively space calls";  *)
(* wait() stands inside the loop).                                         *)
(***************************************************************************)
RequestsPaced == Cardinality(OnWire) * Interval <= now + Interval

(***************************************************************************)
(* A server that answered with Retry-After is left alone for that long:    *)
(* neither the backoff nor the queue at the limiter shortens the wait.     *)
(***************************************************************************)
RetryAfterHonoured ==
    \A c \in Call : pc[c] = "request" => notBefore[c] <= now

(***************************************************************************)
(* The inductive strengthening, used by HttpProofs: nobody holds a ticket  *)
(* that is used up or that another holds, so that requests and used        *)
(* tickets are as many; a call that sleeps wakes no earlier than the       *)
(* server asked, or was asked nothing.                                     *)
(***************************************************************************)
TicketsApart == \A c \in Call : ticket[c] # 0 =>
    ticket[c] \notin sent /\ \A d \in Call : ticket[d] = ticket[c] => d = c

TicketPerRequest == IsFiniteSet(OnWire) /\ Cardinality(OnWire) = Cardinality(sent)

SleepsLongEnough ==
    /\ DOMAIN wake = Call /\ notBefore \in [Call -> Nat]
    /\ \A c \in Call :
          /\ pc[c] = "backoff" => notBefore[c] \in {0, wake[c]}
          /\ pc[c] \in {"limiter", "request"} => notBefore[c] <= now

PacedInv ==
    /\ LimiterInv /\ IInv
    /\ TicketsApart /\ TicketPerRequest /\ SleepsLongEnough
=============================================================================
