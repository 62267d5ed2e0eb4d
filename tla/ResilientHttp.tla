--------------------------- MODULE ResilientHttp ---------------------------
(***************************************************************************)
(* lib/http.py, class ResilientClient: the retry loop behind every get,    *)
(* post, put and delete, against a server and a network that may lose the  *)
(* request, lose the answer, or carry the request out after the client has *)
(* given up on it.                                                         *)
(*                                                                         *)
(* A call's requests are told apart by the attempt number they carry.      *)
(* Answers are abstracted to what the loop tells apart: "ok" (2xx),        *)
(* "reject" (4xx other than 429), "throttled" (429), "fault" (5xx).  The   *)
(* times slept are left out here; RateLimiter and PacedHttp have the clock.*)
(***************************************************************************)
EXTENDS Naturals, FiniteSets

CONSTANTS Call,         \* logical calls: one invocation of get/post/put/delete
          MaxRetries,   \* ResilientOptions.max_retries of the call's client
          RetryOn5xx    \* ResilientOptions.retry_on_5xx of the call's client

ASSUME HttpAssumption ==
    /\ MaxRetries \in [Call -> Nat]
    /\ RetryOn5xx \in [Call -> BOOLEAN]

VARIABLES pc,        \* pc[c]: where c stands in _send
          attempt,   \* attempt[c]: the loop's counter
          inflight,  \* inflight[c]: attempts sent and not yet decided by the server
          executed,  \* executed[c]: attempts the server carried out
          reply,     \* reply[c]: answer to the awaited attempt
          lost,      \* lost[c]: attempts that ended in an exception
          faulted    \* faulted[c]: attempts answered with a 5xx

vars == <<pc, attempt, inflight, executed, reply, lost, faulted>>

Status == {"ok", "reject", "throttled", "fault"}
NoReply == "none"

Running == {"limiter", "request", "backoff"}
Closed == {"returned", "raised"}

Init ==
    /\ pc = [c \in Call |-> "limiter"]
    /\ attempt = [c \in Call |-> 0]
    /\ inflight = [c \in Call |-> {}]
    /\ executed = [c \in Call |-> {}]
    /\ reply = [c \in Call |-> NoReply]
    /\ lost = [c \in Call |-> {}]
    /\ faulted = [c \in Call |-> {}]

-----------------------------------------------------------------------------
(* The loop.                                                               *)

\* Mutants: the flag is ignored; one retry too many.
RetryableIgnoringFlag(c, status) == status \in {"throttled", "fault"}
SpentOffByOne(c) == attempt[c] > MaxRetries[c]

\* status == 429 or (retry_on_5xx and 500 <= status <= 599)
Retryable(c, status) ==
    \/ status = "throttled"
    \/ RetryOn5xx[c] /\ status = "fault"

\* attempt >= max_retries
Spent(c) == attempt[c] >= MaxRetries[c]

\* limiter.wait() is over and fn() puts the request on the wire.
Send(c) ==
    /\ pc[c] = "limiter"
    /\ pc' = [pc EXCEPT ![c] = "request"]
    /\ inflight' = [inflight EXCEPT ![c] = @ \cup {attempt[c]}]
    /\ UNCHANGED <<attempt, executed, reply, lost, faulted>>

\* fn() returns a response: return it, or sleep and go round again.
Receive(c) ==
    /\ pc[c] = "request"
    /\ reply[c] # NoReply
    /\ pc' = [pc EXCEPT ![c] =
                 IF ~Retryable(c, reply[c]) \/ Spent(c) THEN "returned" ELSE "backoff"]
    /\ faulted' = IF reply[c] = "fault"
                  THEN [faulted EXCEPT ![c] = @ \cup {attempt[c]}]
                  ELSE faulted
    /\ UNCHANGED <<attempt, inflight, executed, reply, lost>>

\* fn() raises (connection, DNS, TLS, or Playwright's own request timeout):
\* re-raise on the last attempt, otherwise sleep and go round again, whatever
\* retry_on_5xx says.  An answer that was under way is never read.
NetworkError(c) ==
    /\ pc[c] = "request"
    /\ pc' = [pc EXCEPT ![c] = IF Spent(c) THEN "raised" ELSE "backoff"]
    /\ lost' = [lost EXCEPT ![c] = @ \cup {attempt[c]}]
    /\ reply' = [reply EXCEPT ![c] = NoReply]
    /\ UNCHANGED <<attempt, inflight, executed, faulted>>

\* Mutants: the counter is not advanced; the response of the attempt before is
\* still at hand.
NextAttemptStuck(c) == attempt[c]
LastReply(c) == reply[c]

NextAttempt(c) == attempt[c] + 1

\* res is assigned anew by every fn().
FreshReply(c) == NoReply

\* The sleep is over; attempt += 1 and back to the limiter.
Retry(c) ==
    /\ pc[c] = "backoff"
    /\ attempt' = [attempt EXCEPT ![c] = NextAttempt(c)]
    /\ pc' = [pc EXCEPT ![c] = "limiter"]
    /\ reply' = [reply EXCEPT ![c] = FreshReply(c)]
    /\ UNCHANGED <<inflight, executed, lost, faulted>>

-----------------------------------------------------------------------------
(* The network and the server.                                             *)

Awaited(c, n) == pc[c] = "request" /\ attempt[c] = n

Answer(c, n, status) ==
    reply' = IF Awaited(c, n) THEN [reply EXCEPT ![c] = status] ELSE reply

\* The server carries the request out; its answer may still be a 5xx.
Execute(c, n) ==
    /\ executed' = [executed EXCEPT ![c] = @ \cup {n}]
    /\ \E status \in {"ok", "fault"} : Answer(c, n, status)

\* The server turns the request down: a 429 is "rejected before processing".
Refuse(c, n) ==
    /\ \E status \in {"reject", "throttled", "fault"} : Answer(c, n, status)
    /\ UNCHANGED executed

\* The network drops the request.
Drop == UNCHANGED <<executed, reply>>

Serve(c, n) ==
    /\ n \in inflight[c]
    /\ inflight' = [inflight EXCEPT ![c] = @ \ {n}]
    /\ Execute(c, n) \/ Refuse(c, n) \/ Drop
    /\ UNCHANGED <<pc, attempt, lost, faulted>>

Client(c) == Send(c) \/ Receive(c) \/ NetworkError(c) \/ Retry(c)

Next == \E c \in Call : Client(c) \/ \E n \in inflight[c] : Serve(c, n)

\* Every sleep ends and every fn() returns or raises; the server owes nothing.
Fairness == \A c \in Call :
    /\ WF_vars(Send(c))
    /\ WF_vars(Receive(c) \/ NetworkError(c))
    /\ WF_vars(Retry(c))

Spec == Init /\ [][Next]_vars /\ Fairness

-----------------------------------------------------------------------------
Unsure(c) == lost[c] \cup faulted[c]

TypeOK ==
    /\ pc \in [Call -> Running \cup Closed]
    /\ attempt \in [Call -> Nat]
    /\ inflight \in [Call -> SUBSET Nat]
    /\ executed \in [Call -> SUBSET Nat]
    /\ reply \in [Call -> Status \cup {NoReply}]
    /\ lost \in [Call -> SUBSET Nat]
    /\ faulted \in [Call -> SUBSET Nat]

(***************************************************************************)
(* A call that has not succeeded gives up only when its retries are spent, *)
(* unless the answer is one its options say not to retry (ResilientClient: *)
(* "retry loop for 429 / 5xx / network errors").                           *)
(***************************************************************************)
GivesUpOnlyWhenSpent == \A c \in Call :
    /\ pc[c] = "raised" => attempt[c] = MaxRetries[c]
    /\ pc[c] = "returned" /\ Retryable(c, reply[c]) => attempt[c] = MaxRetries[c]
    /\ attempt[c] <= MaxRetries[c]

(***************************************************************************)
(* The answer handed to the caller tells the truth about the attempt it    *)
(* answers, although earlier attempts may still be on their way: a         *)
(* returned 2xx was carried out, a returned 4xx/429 was not.               *)
(***************************************************************************)
AnswersTellTruth == \A c \in Call : pc[c] = "returned" =>
    /\ reply[c] = "ok" => attempt[c] \in executed[c]
    /\ reply[c] \in {"reject", "throttled"} => attempt[c] \notin executed[c]

(***************************************************************************)
(* "429 always safe to retry", and an order client (retry_on_5xx = False)  *)
(* never sends again after a 5xx: whatever the interleaving of retries     *)
(* with late deliveries, an execution of an attempt other than the last    *)
(* goes back to an exception, or to a 5xx of a client that retries those.  *)
(***************************************************************************)
RepeatsComeFromDoubt == \A c \in Call : \A n \in executed[c] \ {attempt[c]} :
    IF RetryOn5xx[c] THEN n \in Unsure(c) ELSE n \in lost[c]

(***************************************************************************)
(* The docstring's claim, lib/http.py:7-8: order-placing clients turn      *)
(* 5xx/network retry off "to avoid double execution".                      *)
(***************************************************************************)
OrderNeverRepeats == \A c \in Call :
    ~RetryOn5xx[c] => Cardinality(executed[c]) <= 1

(***************************************************************************)
(* Refinement of CallContract: the retry loop is one call that takes       *)
(* effect at most once plus once per attempt of unknown fate.              *)
(***************************************************************************)
Phase(c) ==
    IF pc[c] \in Running THEN "open"
    ELSE IF pc[c] = "returned" /\ reply[c] = "ok" THEN "succeeded" ELSE "failed"

Contract == INSTANCE CallContract WITH
    Budget <- [c \in Call |-> MaxRetries[c] + 1],
    phase <- [c \in Call |-> Phase(c)],
    effects <- [c \in Call |-> Cardinality(executed[c])],
    doubts <- [c \in Call |-> Cardinality(Unsure(c))]

ImplementsContract == Contract!ContractSpec

(***************************************************************************)
(* The inductive strengthening: requests in flight or carried out are      *)
(* attempts already made, each decided at most once, and an attempt that   *)
(* is over left a trace unless the server refused it.                      *)
(***************************************************************************)
Sent(c) == IF pc[c] = "limiter" THEN 0..(attempt[c] - 1) ELSE 0..attempt[c]

AttemptsConsistent == \A c \in Call :
    /\ attempt[c] <= MaxRetries[c]
    /\ pc[c] = "backoff" => attempt[c] < MaxRetries[c]
    /\ inflight[c] \cup executed[c] \cup Unsure(c) \subseteq Sent(c)
    /\ inflight[c] \cap executed[c] = {}
    /\ pc[c] = "request" => attempt[c] \notin Unsure(c)
    /\ ~RetryOn5xx[c] => \A n \in faulted[c] : n = attempt[c] /\ pc[c] = "returned"

PastAttemptsExplained == \A c \in Call :
    \A n \in inflight[c] \cup executed[c] :
        n # attempt[c] \/ pc[c] = "backoff" => n \in Unsure(c)

AwaitedAnswerTrue == \A c \in Call :
    /\ pc[c] \in {"limiter", "raised"} => reply[c] = NoReply
    /\ pc[c] = "returned" => reply[c] # NoReply
    /\ reply[c] # NoReply => attempt[c] \notin inflight[c]
    /\ reply[c] = "ok" => attempt[c] \in executed[c]
    /\ reply[c] \in {"reject", "throttled"} => attempt[c] \notin executed[c]
    /\ pc[c] = "returned" /\ Retryable(c, reply[c]) => attempt[c] = MaxRetries[c]
    /\ pc[c] = "raised" => attempt[c] = MaxRetries[c]
    /\ pc[c] = "returned" /\ reply[c] = "fault" => attempt[c] \in faulted[c]
    /\ pc[c] = "raised" => attempt[c] \in lost[c]

IInv == TypeOK /\ AttemptsConsistent /\ PastAttemptsExplained /\ AwaitedAnswerTrue
=============================================================================
