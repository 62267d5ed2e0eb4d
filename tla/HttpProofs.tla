----------------------------- MODULE HttpProofs -----------------------------
(***************************************************************************)
(* Proofs about the HTTP client: RateLimiter, ResilientHttp with the       *)
(* contract it implements, and PacedHttp, the two together.  For every set *)
(* of callers, every interval, budget and backoff.                         *)
(***************************************************************************)
EXTENDS PacedHttp, FiniteSetTheorems, TLAPS

-----------------------------------------------------------------------------
(* RateLimiter.                                                            *)

(***************************************************************************)
(* Multiplying by the interval keeps the order: the only nonlinear facts   *)
(* the proofs below need.                                                  *)
(***************************************************************************)
LEMMA TimesMonotone ==
    ASSUME NEW a \in Nat, NEW b \in Nat, NEW i \in Nat, a <= b
    PROVE  a * i <= b * i
<1>1. PICK d \in Nat : b = a + d
  <2>1. b - a \in Nat /\ b = a + (b - a)
    OBVIOUS
  <2>2. QED
    BY <2>1
<1>2. (a + d) * i = a * i + d * i
  OBVIOUS
<1>3. d * i \in Nat /\ a * i \in Nat
  OBVIOUS
<1>4. QED
  BY <1>1, <1>2, <1>3

LEMMA TimesSuccessor ==
    ASSUME NEW a \in Nat, NEW i \in Nat
    PROVE  (a + 1) * i = a * i + i
  OBVIOUS

\* A reservation is never before the clock nor before self._next_slot.
LEMMA SlotBounds ==
    ASSUME now \in Nat, next_slot \in Nat
    PROVE  /\ Slot \in Nat
           /\ next_slot <= Slot
           /\ now <= Slot
  BY DEF Slot, Later

LEMMA LimiterInitInv == LimiterInit => LimiterInv
<1> SUFFICES ASSUME LimiterInit PROVE LimiterInv
  OBVIOUS
<1>1. Len(slots) = 0 /\ slots = <<>> /\ 1..Len(slots) = {}
  BY DEF LimiterInit
<1>2. LimiterTypeOK
  BY <1>1 DEF LimiterInit, LimiterTypeOK
<1>3. 0 * Interval = 0
  BY LimiterAssumption DEF LimiterAssumption
<1>4. SlotFloor /\ SentAreDue
  BY <1>1, <1>3 DEF LimiterInit, SlotFloor, SentAreDue
<1>5. QED
  BY <1>2, <1>4 DEF LimiterInv

LEMMA LimiterStepInv == LimiterInv /\ [LimiterNext]_limiterVars => LimiterInv'
<1> SUFFICES ASSUME LimiterInv, [LimiterNext]_limiterVars
             PROVE  LimiterInv'
  OBVIOUS
<1> USE LimiterAssumption DEF LimiterAssumption, LimiterInv
<1>1. CASE UNCHANGED limiterVars
  BY <1>1 DEF limiterVars, LimiterTypeOK, SlotFloor, SentAreDue
<1>2. CASE Tick
  BY <1>2 DEF Tick, LimiterTypeOK, SlotFloor, SentAreDue
<1>3. ASSUME NEW c \in Caller, Reserve(c)
      PROVE  LimiterInv'
  <2>1. /\ Slot \in Nat
        /\ next_slot <= Slot
        /\ now \in Nat /\ next_slot \in Nat /\ slots \in Seq(Nat) /\ Len(slots) \in Nat
    BY SlotBounds DEF LimiterTypeOK
  <2>2. /\ slots' \in Seq(Nat)
        /\ Len(slots') = Len(slots) + 1
        /\ \A t \in 1..Len(slots) : slots'[t] = slots[t]
        /\ slots'[Len(slots) + 1] = Slot
    BY <1>3, <2>1 DEF Reserve
  <2>3. next_slot' = Slot + Interval /\ now' = now /\ sent' = sent
    BY <1>3 DEF Reserve, NextAfter
  <2>4. LimiterTypeOK'
    BY <1>3, <2>1, <2>2, <2>3 DEF Reserve, LimiterTypeOK
  <2>5. Len(slots) * Interval <= next_slot /\ Len(slots) * Interval \in Nat
    BY <2>1 DEF SlotFloor
  <2>6. Len(slots') * Interval <= next_slot'
    BY <2>1, <2>2, <2>3, <2>5, TimesSuccessor
  <2>7. \A t \in 1..Len(slots') : (t - 1) * Interval <= slots'[t]
    <3> TAKE t \in 1..Len(slots')
    <3>1. CASE t \in 1..Len(slots)
      BY <3>1, <2>2 DEF SlotFloor
    <3>2. CASE t = Len(slots) + 1
      BY <3>2, <2>1, <2>2, <2>5
    <3>3. QED
      BY <3>1, <3>2, <2>1, <2>2
  <2>8. \A t \in 1..Len(slots') : slots'[t] + Interval <= next_slot'
    <3> TAKE t \in 1..Len(slots')
    <3>1. CASE t \in 1..Len(slots)
      <4>1. slots[t] \in Nat /\ slots[t] + Interval <= next_slot
        BY <3>1, <2>1 DEF SlotFloor
      <4>2. slots'[t] = slots[t]
        BY <3>1, <2>2
      <4>3. slots[t] + Interval <= Slot + Interval
        BY <4>1, <2>1
      <4>4. QED
        BY <4>1, <4>2, <4>3, <2>1, <2>3
    <3>2. CASE t = Len(slots) + 1
      BY <3>2, <2>1, <2>2, <2>3
    <3>3. QED
      BY <3>1, <3>2, <2>1, <2>2
  <2>9. SentAreDue'
    BY <2>2, <2>3 DEF SentAreDue, LimiterTypeOK
  <2>10. QED
    BY <2>4, <2>6, <2>7, <2>8, <2>9 DEF SlotFloor
<1>4. ASSUME NEW c \in Caller, Proceed(c)
      PROVE  LimiterInv'
  <2>1. ticket[c] \in 1..Len(slots) /\ slots[ticket[c]] <= now
    BY <1>4 DEF Proceed, Awake, LimiterTypeOK
  <2>2. LimiterTypeOK'
    <3>1. /\ now' = now /\ next_slot' = next_slot /\ slots' = slots
          /\ sent' = sent \cup {ticket[c]}
          /\ ticket' = [ticket EXCEPT ![c] = 0]
      BY <1>4 DEF Proceed
    <3>2. Len(slots) \in Nat
      BY DEF LimiterTypeOK
    <3>3. ticket' \in [Caller -> 0..Len(slots)]
      BY <3>1, <3>2 DEF LimiterTypeOK
    <3>4. sent' \subseteq 1..Len(slots)
      BY <3>1, <2>1 DEF LimiterTypeOK
    <3>5. QED
      BY <3>1, <3>3, <3>4 DEF LimiterTypeOK
  <2>3. SlotFloor' /\ SentAreDue'
    BY <1>4, <2>1 DEF Proceed, SlotFloor, SentAreDue
  <2>4. QED
    BY <2>2, <2>3
<1>5. QED
  BY <1>1, <1>2, <1>3, <1>4 DEF LimiterNext

(***************************************************************************)
(* A set of n ticket numbers holds one that is at least n.                 *)
(***************************************************************************)
LEMMA SomeTicketAtLeastCount ==
    ASSUME NEW n \in Nat, NEW S \in SUBSET (1..n), S # {}
    PROVE  /\ Cardinality(S) \in Nat \ {0}
           /\ \E t \in S : Cardinality(S) <= t
<1>1. IsFiniteSet(1..n)
  BY FS_Interval
<1>2. IsFiniteSet(S) /\ Cardinality(S) \in Nat
  BY <1>1, FS_Subset, FS_CardinalityType
<1>3. Cardinality(S) # 0
  BY <1>2, FS_EmptySet
<1>4. ASSUME \A t \in S : t < Cardinality(S)
      PROVE  FALSE
  <2> DEFINE k == Cardinality(S)
  <2>1. k - 1 \in Nat
    BY <1>2, <1>3
  <2>2. S \subseteq 1..(k - 1)
    BY <1>2, <1>4, <2>1
  <2>3. IsFiniteSet(1..(k - 1)) /\ Cardinality(1..(k - 1)) = k - 1
    BY <2>1, FS_Interval
  <2>4. Cardinality(S) <= Cardinality(1..(k - 1))
    BY <2>2, <2>3, FS_Subset
  <2>5. QED
    BY <1>2, <2>3, <2>4
<1>5. QED
  BY <1>2, <1>3, <1>4

LEMMA InvImpliesPace == LimiterInv => PaceBound
<1> SUFFICES ASSUME LimiterInv PROVE PaceBound
  OBVIOUS
<1> USE LimiterAssumption DEF LimiterAssumption, LimiterInv
<1>1. now \in Nat /\ Len(slots) \in Nat /\ sent \subseteq 1..Len(slots)
  BY DEF LimiterTypeOK
<1>2. CASE sent = {}
  <2>1. Cardinality(sent) = 0
    BY <1>2, FS_EmptySet
  <2>2. 0 * Interval = 0
    OBVIOUS
  <2>3. QED
    BY <1>1, <2>1, <2>2 DEF PaceBound
<1>3. CASE sent # {}
  <2> DEFINE k == Cardinality(sent)
  <2>1. k \in Nat \ {0}
    BY <1>1, <1>3, SomeTicketAtLeastCount
  <2>2. PICK t \in sent : k <= t
    BY <1>1, <1>3, SomeTicketAtLeastCount
  <2>3. t \in 1..Len(slots) /\ slots[t] \in Nat /\ t - 1 \in Nat /\ k - 1 \in Nat
    BY <1>1, <2>1, <2>2 DEF LimiterTypeOK
  <2> HIDE DEF k
  <2>4. (t - 1) * Interval <= slots[t] /\ slots[t] <= now
    BY <2>2, <2>3 DEF SlotFloor, SentAreDue
  <2>5. (k - 1) * Interval <= (t - 1) * Interval
    BY <2>1, <2>2, <2>3, TimesMonotone
  <2>6. (k - 1) * Interval \in Nat /\ (t - 1) * Interval \in Nat
    BY <2>3
  <2>7. k * Interval = (k - 1) * Interval + Interval
    BY <2>1, <2>3, TimesSuccessor
  <2>8. k * Interval <= now + Interval
    BY <1>1, <2>3, <2>4, <2>5, <2>6, <2>7
  <2>9. QED
    BY <2>8 DEF PaceBound, k
<1>4. QED
  BY <1>2, <1>3

(***************************************************************************)
(* Type correctness and the inductive invariant of the limiter.            *)
(***************************************************************************)
THEOREM LimiterInvariant == LimiterSpec => []LimiterInv
<1>1. LimiterInit => LimiterInv
  BY LimiterInitInv
<1>2. LimiterInv /\ [LimiterNext]_limiterVars => LimiterInv'
  BY LimiterStepInv
<1>3. QED
  BY <1>1, <1>2, PTL DEF LimiterSpec

(***************************************************************************)
(* "at most `rps` per second" (RateLimiter's docstring): for any number of *)
(* threads and any interval, the calls that have left wait() never outrun  *)
(* the clock.                                                              *)
(***************************************************************************)
THEOREM LimiterKeepsPace == LimiterSpec => []PaceBound
<1>1. LimiterInv => PaceBound
  BY InvImpliesPace
<1>2. QED
  BY <1>1, LimiterInvariant, PTL

(***************************************************************************)
(* Any two reservations are at least one interval apart.  SlotsSpaced is   *)
(* inductive relative to LimiterInv: a new slot starts at next_slot, which *)
(* lies one interval past every earlier one.                               *)
(***************************************************************************)
THEOREM LimiterSpacesSlots == LimiterSpec => []SlotsSpaced
<1>1. LimiterInit => SlotsSpaced
  BY DEF LimiterInit, SlotsSpaced
<1>2. LimiterInv /\ SlotsSpaced /\ [LimiterNext]_limiterVars => SlotsSpaced'
  <2> SUFFICES ASSUME LimiterInv, SlotsSpaced, [LimiterNext]_limiterVars
               PROVE  SlotsSpaced'
    OBVIOUS
  <2> USE LimiterAssumption DEF LimiterAssumption, LimiterInv
  <2>1. CASE UNCHANGED slots
    BY <2>1 DEF SlotsSpaced
  <2>2. ASSUME NEW c \in Caller, Reserve(c)
        PROVE  SlotsSpaced'
    <3>1. /\ Slot \in Nat /\ next_slot \in Nat /\ next_slot <= Slot
          /\ slots \in Seq(Nat) /\ Len(slots) \in Nat
      BY SlotBounds DEF LimiterTypeOK
    <3>2. /\ Len(slots') = Len(slots) + 1
          /\ \A t \in 1..Len(slots) : slots'[t] = slots[t]
          /\ slots'[Len(slots) + 1] = Slot
      BY <2>2, <3>1 DEF Reserve
    <3>3. SUFFICES ASSUME NEW i \in 1..Len(slots'), NEW j \in 1..Len(slots'), i < j
                   PROVE  slots'[i] + Interval <= slots'[j]
      BY DEF SlotsSpaced
    <3>4. i \in 1..Len(slots) /\ slots[i] \in Nat
      BY <3>1, <3>2, <3>3
    <3>5. CASE j \in 1..Len(slots)
      BY <3>2, <3>3, <3>4, <3>5 DEF SlotsSpaced
    <3>6. CASE j = Len(slots) + 1
      <4>1. slots[i] + Interval <= next_slot
        BY <3>4 DEF SlotFloor
      <4>2. QED
        BY <3>1, <3>2, <3>4, <3>6, <4>1
    <3>7. QED
      BY <3>1, <3>2, <3>5, <3>6
  <2>3. QED
    BY <2>1, <2>2 DEF LimiterNext, Tick, Proceed, limiterVars
<1>3. QED
  BY <1>1, <1>2, LimiterInvariant, PTL DEF LimiterSpec

-----------------------------------------------------------------------------
(* ResilientHttp.                                                          *)

LEMMA InitInv == Init => IInv
<1> SUFFICES ASSUME Init PROVE IInv
  OBVIOUS
<1> USE HttpAssumption DEF HttpAssumption, Init
<1>1. TypeOK
  BY DEF TypeOK, Running, NoReply
<1>2. AttemptsConsistent
  BY DEF AttemptsConsistent, Unsure, Sent
<1>3. PastAttemptsExplained
  BY DEF PastAttemptsExplained
<1>4. AwaitedAnswerTrue
  BY DEF AwaitedAnswerTrue, NoReply
<1>5. QED
  BY <1>1, <1>2, <1>3, <1>4 DEF IInv

(***************************************************************************)
(* Each action of the loop and of the server keeps the invariant.  Only    *)
(* the components of call c change, so it is enough to look at c.          *)
(***************************************************************************)
LEMMA SendInv ==
    ASSUME IInv, NEW c \in Call, Send(c)
    PROVE  IInv'
<1> USE HttpAssumption DEF HttpAssumption, Send
<1>1. TypeOK'
  BY DEF IInv, TypeOK, Running
<1>2. AttemptsConsistent'
  BY DEF IInv, TypeOK, AttemptsConsistent, Unsure, Sent, PastAttemptsExplained
<1>3. PastAttemptsExplained'
  BY DEF IInv, TypeOK, PastAttemptsExplained, AttemptsConsistent, Unsure, Sent
<1>4. AwaitedAnswerTrue'
  BY DEF IInv, TypeOK, AwaitedAnswerTrue, AttemptsConsistent, Sent, NoReply, Retryable, Status
<1>5. QED
  BY <1>1, <1>2, <1>3, <1>4 DEF IInv

LEMMA ReceiveInv ==
    ASSUME IInv, NEW c \in Call, Receive(c)
    PROVE  IInv'
<1> USE HttpAssumption DEF HttpAssumption, Receive, Spent
<1>1. TypeOK'
  BY DEF IInv, TypeOK, Running, Closed
<1>2. AttemptsConsistent'
  <2>1. SUFFICES ASSUME NEW d \in Call PROVE AttemptsConsistent!(d)'
    BY DEF AttemptsConsistent
  <2>2. CASE d = c
    <3>1. /\ pc[c] = "request" /\ reply[c] # NoReply /\ attempt[c] \in Nat /\ MaxRetries[c] \in Nat
          /\ pc'[c] = IF ~Retryable(c, reply[c]) \/ attempt[c] >= MaxRetries[c]
                      THEN "returned" ELSE "backoff"
          /\ faulted'[c] = IF reply[c] = "fault" THEN faulted[c] \cup {attempt[c]} ELSE faulted[c]
          /\ attempt' = attempt /\ inflight' = inflight /\ executed' = executed
          /\ reply' = reply /\ lost' = lost
      BY DEF IInv, TypeOK
    <3>2. (attempt[c] <= MaxRetries[c])'
      BY <3>1 DEF IInv, AttemptsConsistent, Unsure, Sent, Retryable
    <3>3. (pc[c] = "backoff" => attempt[c] < MaxRetries[c])'
      BY <3>1 DEF IInv, AttemptsConsistent, Unsure, Sent, Retryable
    <3>4. (inflight[c] \cup executed[c] \cup Unsure(c) \subseteq Sent(c))'
      BY <3>1 DEF IInv, AttemptsConsistent, Unsure, Sent, Retryable
    <3>5. (inflight[c] \cap executed[c] = {})'
      BY <3>1 DEF IInv, AttemptsConsistent, Unsure, Sent, Retryable
    <3>6. (pc[c] = "request" => attempt[c] \notin Unsure(c))'
      BY <3>1 DEF IInv, AttemptsConsistent, Unsure, Sent, Retryable
    <3>7. (~RetryOn5xx[c] => \A n \in faulted[c] : n = attempt[c] /\ pc[c] = "returned")'
      BY <3>1 DEF IInv, AttemptsConsistent, Unsure, Sent, Retryable
    <3>8. QED
      BY <2>2, <3>2, <3>3, <3>4, <3>5, <3>6, <3>7
  <2>3. CASE d # c
    BY <2>3 DEF IInv, TypeOK, AttemptsConsistent, AwaitedAnswerTrue, Unsure, Sent, Retryable
  <2>4. QED
    BY <2>2, <2>3
<1>3. PastAttemptsExplained'
  BY DEF IInv, TypeOK, PastAttemptsExplained, AttemptsConsistent, AwaitedAnswerTrue, Unsure, Sent, Retryable
<1>4. AwaitedAnswerTrue'
  <2>1. SUFFICES ASSUME NEW d \in Call PROVE AwaitedAnswerTrue!(d)'
    BY DEF AwaitedAnswerTrue
  <2>2. CASE d = c
    <3>1. /\ pc[c] = "request" /\ reply[c] # NoReply /\ attempt[c] \in Nat /\ MaxRetries[c] \in Nat
          /\ pc'[c] = IF ~Retryable(c, reply[c]) \/ attempt[c] >= MaxRetries[c]
                      THEN "returned" ELSE "backoff"
          /\ faulted'[c] = IF reply[c] = "fault" THEN faulted[c] \cup {attempt[c]} ELSE faulted[c]
          /\ attempt' = attempt /\ inflight' = inflight /\ executed' = executed
          /\ reply' = reply /\ lost' = lost
      BY DEF IInv, TypeOK
    <3>2. (pc[c] \in {"limiter", "raised"} => reply[c] = NoReply)'
      BY <3>1 DEF IInv, AttemptsConsistent, AwaitedAnswerTrue, Retryable, NoReply
    <3>3. (pc[c] = "returned" => reply[c] # NoReply)'
      BY <3>1 DEF IInv, AttemptsConsistent, AwaitedAnswerTrue, Retryable, NoReply
    <3>4. (reply[c] # NoReply => attempt[c] \notin inflight[c])'
      BY <3>1 DEF IInv, AttemptsConsistent, AwaitedAnswerTrue, Retryable, NoReply
    <3>5. (reply[c] = "ok" => attempt[c] \in executed[c])'
      BY <3>1 DEF IInv, AttemptsConsistent, AwaitedAnswerTrue, Retryable, NoReply
    <3>6. (reply[c] \in {"reject", "throttled"} => attempt[c] \notin executed[c])'
      BY <3>1 DEF IInv, AttemptsConsistent, AwaitedAnswerTrue, Retryable, NoReply
    <3>7. (pc[c] = "returned" /\ Retryable(c, reply[c]) => attempt[c] = MaxRetries[c])'
      BY <3>1 DEF IInv, AttemptsConsistent, AwaitedAnswerTrue, Retryable, NoReply
    <3>8. (pc[c] = "raised" => attempt[c] = MaxRetries[c])'
      BY <3>1 DEF IInv, AttemptsConsistent, AwaitedAnswerTrue, Retryable, NoReply
    <3>9. (pc[c] = "returned" /\ reply[c] = "fault" => attempt[c] \in faulted[c])'
      BY <3>1 DEF IInv, AttemptsConsistent, AwaitedAnswerTrue, Retryable, NoReply
    <3>10. (pc[c] = "raised" => attempt[c] \in lost[c])'
      BY <3>1 DEF IInv, AttemptsConsistent, AwaitedAnswerTrue, Retryable, NoReply
    <3>11. QED
      BY <2>2, <3>2, <3>3, <3>4, <3>5, <3>6, <3>7, <3>8, <3>9, <3>10
  <2>3. CASE d # c
    BY <2>3 DEF IInv, TypeOK, AttemptsConsistent, AwaitedAnswerTrue, Unsure, Sent, Retryable, NoReply, Status
  <2>4. QED
    BY <2>2, <2>3
<1>5. QED
  BY <1>1, <1>2, <1>3, <1>4 DEF IInv

LEMMA NetworkErrorInv ==
    ASSUME IInv, NEW c \in Call, NetworkError(c)
    PROVE  IInv'
<1> USE HttpAssumption DEF HttpAssumption, NetworkError, Spent
<1>1. TypeOK'
  BY DEF IInv, TypeOK, Running, Closed
<1>2. AttemptsConsistent'
  <2>1. SUFFICES ASSUME NEW d \in Call PROVE AttemptsConsistent!(d)'
    BY DEF AttemptsConsistent
  <2>2. CASE d = c
    <3>1. /\ pc[c] = "request" /\ attempt[c] \in Nat /\ MaxRetries[c] \in Nat
          /\ pc'[c] = IF attempt[c] >= MaxRetries[c] THEN "raised" ELSE "backoff"
          /\ lost'[c] = lost[c] \cup {attempt[c]} /\ reply'[c] = NoReply
          /\ attempt' = attempt /\ inflight' = inflight /\ executed' = executed
          /\ faulted' = faulted
      BY DEF IInv, TypeOK
    <3>2. (attempt[c] <= MaxRetries[c])'
      BY <3>1 DEF IInv, AttemptsConsistent, Unsure, Sent, Retryable
    <3>3. (pc[c] = "backoff" => attempt[c] < MaxRetries[c])'
      BY <3>1 DEF IInv, AttemptsConsistent, Unsure, Sent, Retryable
    <3>4. (inflight[c] \cup executed[c] \cup Unsure(c) \subseteq Sent(c))'
      BY <3>1 DEF IInv, AttemptsConsistent, Unsure, Sent, Retryable
    <3>5. (inflight[c] \cap executed[c] = {})'
      BY <3>1 DEF IInv, AttemptsConsistent, Unsure, Sent, Retryable
    <3>6. (pc[c] = "request" => attempt[c] \notin Unsure(c))'
      BY <3>1 DEF IInv, AttemptsConsistent, Unsure, Sent, Retryable
    <3>7. (~RetryOn5xx[c] => \A n \in faulted[c] : n = attempt[c] /\ pc[c] = "returned")'
      BY <3>1 DEF IInv, AttemptsConsistent, Unsure, Sent, Retryable
    <3>8. QED
      BY <2>2, <3>2, <3>3, <3>4, <3>5, <3>6, <3>7
  <2>3. CASE d # c
    BY <2>3 DEF IInv, TypeOK, AttemptsConsistent, AwaitedAnswerTrue, Unsure, Sent, Retryable
  <2>4. QED
    BY <2>2, <2>3
<1>3. PastAttemptsExplained'
  BY DEF IInv, TypeOK, PastAttemptsExplained, AttemptsConsistent, Unsure, Sent
<1>4. AwaitedAnswerTrue'
  <2>1. SUFFICES ASSUME NEW d \in Call PROVE AwaitedAnswerTrue!(d)'
    BY DEF AwaitedAnswerTrue
  <2>2. CASE d = c
    <3>1. /\ pc[c] = "request" /\ attempt[c] \in Nat /\ MaxRetries[c] \in Nat
          /\ pc'[c] = IF attempt[c] >= MaxRetries[c] THEN "raised" ELSE "backoff"
          /\ lost'[c] = lost[c] \cup {attempt[c]} /\ reply'[c] = NoReply
          /\ attempt' = attempt /\ inflight' = inflight /\ executed' = executed
          /\ faulted' = faulted
      BY DEF IInv, TypeOK
    <3>2. (pc[c] \in {"limiter", "raised"} => reply[c] = NoReply)'
      BY <3>1 DEF IInv, AttemptsConsistent, AwaitedAnswerTrue, Retryable, NoReply
    <3>3. (pc[c] = "returned" => reply[c] # NoReply)'
      BY <3>1 DEF IInv, AttemptsConsistent, AwaitedAnswerTrue, Retryable, NoReply
    <3>4. (reply[c] # NoReply => attempt[c] \notin inflight[c])'
      BY <3>1 DEF IInv, AttemptsConsistent, AwaitedAnswerTrue, Retryable, NoReply
    <3>5. (reply[c] = "ok" => attempt[c] \in executed[c])'
      BY <3>1 DEF IInv, AttemptsConsistent, AwaitedAnswerTrue, Retryable, NoReply
    <3>6. (reply[c] \in {"reject", "throttled"} => attempt[c] \notin executed[c])'
      BY <3>1 DEF IInv, AttemptsConsistent, AwaitedAnswerTrue, Retryable, NoReply
    <3>7. (pc[c] = "returned" /\ Retryable(c, reply[c]) => attempt[c] = MaxRetries[c])'
      BY <3>1 DEF IInv, AttemptsConsistent, AwaitedAnswerTrue, Retryable, NoReply
    <3>8. (pc[c] = "raised" => attempt[c] = MaxRetries[c])'
      BY <3>1 DEF IInv, AttemptsConsistent, AwaitedAnswerTrue, Retryable, NoReply
    <3>9. (pc[c] = "returned" /\ reply[c] = "fault" => attempt[c] \in faulted[c])'
      BY <3>1 DEF IInv, AttemptsConsistent, AwaitedAnswerTrue, Retryable, NoReply
    <3>10. (pc[c] = "raised" => attempt[c] \in lost[c])'
      BY <3>1 DEF IInv, AttemptsConsistent, AwaitedAnswerTrue, Retryable, NoReply
    <3>11. QED
      BY <2>2, <3>2, <3>3, <3>4, <3>5, <3>6, <3>7, <3>8, <3>9, <3>10
  <2>3. CASE d # c
    BY <2>3 DEF IInv, TypeOK, AttemptsConsistent, AwaitedAnswerTrue, Unsure, Sent, Retryable, NoReply, Status
  <2>4. QED
    BY <2>2, <2>3
<1>5. QED
  BY <1>1, <1>2, <1>3, <1>4 DEF IInv

LEMMA RetryInv ==
    ASSUME IInv, NEW c \in Call, Retry(c)
    PROVE  IInv'
<1> USE HttpAssumption DEF HttpAssumption, Retry, NextAttempt, FreshReply
<1>1. TypeOK'
  BY DEF IInv, TypeOK, Running
<1>2. AttemptsConsistent'
  <2>1. SUFFICES ASSUME NEW d \in Call PROVE AttemptsConsistent!(d)'
    BY DEF AttemptsConsistent
  <2>2. CASE d = c
    <3>1. /\ pc[c] = "backoff" /\ attempt[c] \in Nat /\ MaxRetries[c] \in Nat
          /\ pc'[c] = "limiter" /\ attempt'[c] = attempt[c] + 1 /\ reply'[c] = NoReply
          /\ inflight' = inflight /\ executed' = executed
          /\ lost' = lost /\ faulted' = faulted
      BY DEF IInv, TypeOK
    <3>2. (attempt[c] <= MaxRetries[c])'
      BY <3>1 DEF IInv, AttemptsConsistent, Unsure, Sent, Retryable
    <3>3. (pc[c] = "backoff" => attempt[c] < MaxRetries[c])'
      BY <3>1 DEF IInv, AttemptsConsistent, Unsure, Sent, Retryable
    <3>4. (inflight[c] \cup executed[c] \cup Unsure(c) \subseteq Sent(c))'
      BY <3>1 DEF IInv, AttemptsConsistent, Unsure, Sent, Retryable
    <3>5. (inflight[c] \cap executed[c] = {})'
      BY <3>1 DEF IInv, AttemptsConsistent, Unsure, Sent, Retryable
    <3>6. (pc[c] = "request" => attempt[c] \notin Unsure(c))'
      BY <3>1 DEF IInv, AttemptsConsistent, Unsure, Sent, Retryable
    <3>7. (~RetryOn5xx[c] => \A n \in faulted[c] : n = attempt[c] /\ pc[c] = "returned")'
      BY <3>1 DEF IInv, AttemptsConsistent, Unsure, Sent, Retryable
    <3>8. QED
      BY <2>2, <3>2, <3>3, <3>4, <3>5, <3>6, <3>7
  <2>3. CASE d # c
    BY <2>3 DEF IInv, TypeOK, AttemptsConsistent, AwaitedAnswerTrue, Unsure, Sent, Retryable
  <2>4. QED
    BY <2>2, <2>3
<1>3. PastAttemptsExplained'
  BY DEF IInv, TypeOK, PastAttemptsExplained, AttemptsConsistent, Unsure, Sent
<1>4. AwaitedAnswerTrue'
  BY DEF IInv, TypeOK, AwaitedAnswerTrue, AttemptsConsistent, Sent, NoReply, Retryable, Status, Unsure
<1>5. QED
  BY <1>1, <1>2, <1>3, <1>4 DEF IInv

LEMMA ServeInv ==
    ASSUME IInv, NEW c \in Call, NEW n \in inflight[c], Serve(c, n)
    PROVE  IInv'
<1> USE HttpAssumption DEF HttpAssumption, Serve, Execute, Refuse, Drop, Answer, Awaited
<1>1. TypeOK'
  BY DEF IInv, TypeOK, Status
<1>2. AttemptsConsistent'
  BY DEF IInv, TypeOK, AttemptsConsistent, Unsure, Sent
<1>3. PastAttemptsExplained'
  BY DEF IInv, TypeOK, PastAttemptsExplained, AttemptsConsistent, Unsure, Sent
<1>4. AwaitedAnswerTrue'
  BY DEF IInv, TypeOK, AwaitedAnswerTrue, AttemptsConsistent, Sent, NoReply, Retryable, Status
<1>5. QED
  BY <1>1, <1>2, <1>3, <1>4 DEF IInv

LEMMA StutterInv == IInv /\ UNCHANGED vars => IInv'
  BY DEF vars, IInv, TypeOK, AttemptsConsistent, PastAttemptsExplained,
         AwaitedAnswerTrue, Unsure, Sent, Retryable

LEMMA StepInv == IInv /\ [Next]_vars => IInv'
  BY SendInv, ReceiveInv, NetworkErrorInv, RetryInv, ServeInv, StutterInv DEF Next, Client

(***************************************************************************)
(* Type correctness and the inductive invariant.                           *)
(***************************************************************************)
THEOREM Invariance == Spec => []IInv
<1>1. QED
  BY InitInv, StepInv, PTL DEF Spec

(***************************************************************************)
(* Repeated execution is always owed to an attempt of unknown fate; for an *)
(* order client, to a network exception and to nothing else.               *)
(***************************************************************************)
THEOREM RepeatsExplained == Spec => []RepeatsComeFromDoubt
<1>1. IInv => RepeatsComeFromDoubt
  BY DEF IInv, TypeOK, RepeatsComeFromDoubt, PastAttemptsExplained, AttemptsConsistent, Unsure
<1>2. QED
  BY <1>1, Invariance, PTL

(***************************************************************************)
(* A returned answer is true of the attempt it answers.                    *)
(***************************************************************************)
THEOREM AnswersTrue == Spec => []AnswersTellTruth
<1>1. IInv => AnswersTellTruth
  BY DEF IInv, TypeOK, AnswersTellTruth, AwaitedAnswerTrue
<1>2. QED
  BY <1>1, Invariance, PTL

(***************************************************************************)
(* The client never gives up early and never retries past its budget.      *)
(***************************************************************************)
THEOREM BudgetIsExact == Spec => []GivesUpOnlyWhenSpent
<1>1. IInv => GivesUpOnlyWhenSpent
  BY DEF IInv, GivesUpOnlyWhenSpent, AwaitedAnswerTrue, AttemptsConsistent
<1>2. QED
  BY <1>1, Invariance, PTL
-----------------------------------------------------------------------------
(* ResilientHttp implements CallContract.                                  *)

(***************************************************************************)
(* The attempts of a call form a finite set of at most MaxRetries + 1.     *)
(***************************************************************************)
LEMMA AtMostBudget ==
    ASSUME NEW m \in Nat, NEW S \in SUBSET (0..m)
    PROVE  IsFiniteSet(S) /\ Cardinality(S) \in Nat /\ Cardinality(S) <= m + 1
<1>1. IsFiniteSet(0..m) /\ Cardinality(0..m) = m + 1
  BY FS_Interval
<1>2. IsFiniteSet(S) /\ Cardinality(S) <= Cardinality(0..m)
  BY <1>1, FS_Subset
<1>3. QED
  BY <1>1, <1>2, FS_CardinalityType

LEMMA AttemptsInBudget ==
    IInv => \A c \in Call :
        /\ MaxRetries[c] \in Nat
        /\ executed[c] \subseteq 0..MaxRetries[c]
        /\ Unsure(c) \subseteq 0..MaxRetries[c]
  BY HttpAssumption DEF HttpAssumption, IInv, TypeOK, AttemptsConsistent, Sent

LEMMA InitRefines == Init => Contract!ContractInit
<1> SUFFICES ASSUME Init PROVE Contract!ContractInit
  OBVIOUS
<1>1. \A c \in Call : Phase(c) = "open" /\ executed[c] = {} /\ Unsure(c) = {}
  BY DEF Init, Phase, Running, Unsure
<1>2. Cardinality({}) = 0
  BY FS_EmptySet
<1>3. QED
  BY <1>1, <1>2 DEF Contract!ContractInit

(***************************************************************************)
(* A step that leaves phase, executions and doubts of every call alone is  *)
(* a stuttering step of the contract.                                      *)
(***************************************************************************)
LEMMA QuietStep ==
    ASSUME \A d \in Call : Phase(d)' = Phase(d) /\ executed'[d] = executed[d] /\ Unsure(d)' = Unsure(d)
    PROVE  UNCHANGED Contract!contractVars
  BY DEF Contract!contractVars

(***************************************************************************)
(* An attempt whose fate is unknown joins Unsure(c): the contract's Doubt. *)
(***************************************************************************)
LEMMA DoubtStep ==
    ASSUME IInv, IInv', NEW c \in Call, NEW n, n \notin Unsure(c),
           Unsure(c)' = Unsure(c) \cup {n}, executed' = executed,
           Phase(c) = "open", Phase(c)' \in {"open", "failed"},
           \A d \in Call \ {c} : Phase(d)' = Phase(d) /\ Unsure(d)' = Unsure(d)
    PROVE  Contract!Doubt(c)
<1>1. /\ MaxRetries[c] \in Nat
      /\ Unsure(c) \in SUBSET (0..MaxRetries[c])
      /\ Unsure(c)' \in SUBSET (0..MaxRetries[c])
  <2>1. MaxRetries[c] \in Nat /\ Unsure(c) \in SUBSET (0..MaxRetries[c])
    BY AttemptsInBudget
  <2>2. Unsure(c)' \subseteq Sent(c)'
    BY DEF IInv, AttemptsConsistent
  <2>3. attempt'[c] \in Nat /\ attempt'[c] <= MaxRetries[c]
    BY DEF IInv, TypeOK, AttemptsConsistent
  <2>4. Sent(c)' \subseteq 0..MaxRetries[c]
    BY <2>1, <2>3 DEF Sent
  <2>5. QED
    BY <2>1, <2>2, <2>4
<1>2. /\ IsFiniteSet(Unsure(c)) /\ Cardinality(Unsure(c)) \in Nat
      /\ Cardinality(Unsure(c)') <= MaxRetries[c] + 1
  BY <1>1, AtMostBudget
<1>3. Cardinality(Unsure(c)') = Cardinality(Unsure(c)) + 1
  BY <1>2, FS_AddElement
<1>4. Cardinality(Unsure(c)) < MaxRetries[c] + 1
  BY <1>1, <1>2, <1>3
<1>5. QED
  BY <1>3, <1>4 DEF Contract!Doubt

LEMMA SendRefines ==
    ASSUME IInv, NEW c \in Call, Send(c)
    PROVE  UNCHANGED Contract!contractVars
<1>1. \A d \in Call : Phase(d)' = Phase(d) /\ executed'[d] = executed[d] /\ Unsure(d)' = Unsure(d)
  BY DEF Send, IInv, TypeOK, Phase, Running, Unsure
<1>2. QED
  BY <1>1, QuietStep

LEMMA RetryRefines ==
    ASSUME IInv, NEW c \in Call, Retry(c)
    PROVE  UNCHANGED Contract!contractVars
<1>1. \A d \in Call : Phase(d)' = Phase(d) /\ executed'[d] = executed[d] /\ Unsure(d)' = Unsure(d)
  BY DEF Retry, IInv, TypeOK, Phase, Running, Unsure
<1>2. QED
  BY <1>1, QuietStep

LEMMA NetworkErrorRefines ==
    ASSUME IInv, IInv', NEW c \in Call, NetworkError(c)
    PROVE  Contract!Doubt(c)
<1>1. attempt[c] \notin Unsure(c) /\ Unsure(c)' = Unsure(c) \cup {attempt[c]}
  BY DEF NetworkError, IInv, TypeOK, AttemptsConsistent, Unsure
<1>2. Phase(c) = "open" /\ Phase(c)' \in {"open", "failed"}
  BY DEF NetworkError, IInv, TypeOK, Phase, Running
<1>3. \A d \in Call \ {c} : Phase(d)' = Phase(d) /\ Unsure(d)' = Unsure(d)
  BY DEF NetworkError, IInv, TypeOK, Phase, Unsure
<1>4. executed' = executed
  BY DEF NetworkError
<1>5. QED
  BY <1>1, <1>2, <1>3, <1>4, DoubtStep

LEMMA ReceiveRefines ==
    ASSUME IInv, IInv', NEW c \in Call, Receive(c)
    PROVE  \/ Contract!Doubt(c)
           \/ Contract!Close(c)
           \/ UNCHANGED Contract!contractVars
<1>1. /\ pc[c] = "request" /\ Phase(c) = "open" /\ reply[c] \in Status
      /\ executed' = executed /\ reply' = reply
      /\ pc'[c] \in {"returned", "backoff"}
  BY DEF Receive, IInv, TypeOK, Phase, Running
<1>2. \A d \in Call \ {c} : Phase(d)' = Phase(d) /\ Unsure(d)' = Unsure(d)
  BY DEF Receive, IInv, TypeOK, Phase, Unsure
<1>3. CASE reply[c] = "fault"
  <2>1. attempt[c] \notin Unsure(c) /\ Unsure(c)' = Unsure(c) \cup {attempt[c]}
    BY <1>3 DEF Receive, IInv, TypeOK, AttemptsConsistent, Unsure
  <2>2. Phase(c)' \in {"open", "failed"}
    BY <1>1, <1>3 DEF Phase, Running
  <2>3. QED
    BY <1>1, <1>2, <2>1, <2>2, DoubtStep
<1>4. CASE reply[c] # "fault"
  <2>1. Unsure(c)' = Unsure(c)
    BY <1>4 DEF Receive, Unsure
  <2>2. CASE pc'[c] = "backoff"
    <3>1. Phase(c)' = Phase(c)
      BY <1>1, <2>2 DEF Phase, Running
    <3>2. QED
      BY <1>1, <1>2, <2>1, <3>1, QuietStep
  <2>3. CASE pc'[c] = "returned" /\ reply[c] = "ok"
    <3>1. Phase(c)' = "succeeded"
      BY <1>1, <2>3 DEF Phase, Running
    <3>2. executed[c] # {} /\ executed[c] \in SUBSET (0..MaxRetries[c]) /\ MaxRetries[c] \in Nat
      BY <2>3, AttemptsInBudget DEF IInv, AwaitedAnswerTrue
    <3>3. Cardinality(executed[c]) > 0
      <4>1. IsFiniteSet(executed[c]) /\ Cardinality(executed[c]) \in Nat
        BY <3>2, AtMostBudget
      <4>2. Cardinality(executed[c]) # 0
        BY <3>2, <4>1, FS_EmptySet
      <4>3. QED
        BY <4>1, <4>2
    <3>4. QED
      BY <1>1, <1>2, <2>1, <3>1, <3>3 DEF Contract!Close
  <2>4. CASE pc'[c] = "returned" /\ reply[c] # "ok"
    <3>1. Phase(c)' = "failed"
      BY <1>1, <2>4 DEF Phase, Running
    <3>2. QED
      BY <1>1, <1>2, <2>1, <3>1 DEF Contract!Close
  <2>5. QED
    BY <1>1, <2>2, <2>3, <2>4
<1>5. QED
  BY <1>3, <1>4

(***************************************************************************)
(* The server's step.  If the attempt carried out is an old one, it is     *)
(* itself in Unsure(c) and so is every other old one already carried out;  *)
(* if it is the current one, all those carried out before are.             *)
(***************************************************************************)
LEMMA ServeRefines ==
    ASSUME IInv, IInv', NEW c \in Call, NEW n \in inflight[c], Serve(c, n)
    PROVE  Contract!Effect(c) \/ UNCHANGED Contract!contractVars
<1>1. \A d \in Call : Phase(d)' = Phase(d) /\ Unsure(d)' = Unsure(d)
  BY DEF Serve, Execute, Refuse, Drop, Answer, Awaited, IInv, TypeOK, Phase, Unsure, Running
<1>2. CASE executed' = executed
  BY <1>1, <1>2, QuietStep
<1>3. CASE executed' = [executed EXCEPT ![c] = @ \cup {n}]
  <2>1. n \notin executed[c] /\ \A d \in Call \ {c} : executed'[d] = executed[d]
    BY <1>3 DEF IInv, TypeOK, AttemptsConsistent
  <2>2. executed'[c] = executed[c] \cup {n}
    BY <1>3 DEF IInv, TypeOK
  <2>3. /\ MaxRetries[c] \in Nat
        /\ executed[c] \in SUBSET (0..MaxRetries[c])
        /\ Unsure(c) \in SUBSET (0..MaxRetries[c])
        /\ executed'[c] \in SUBSET (0..MaxRetries[c])
    <3>1. n \in 0..MaxRetries[c]
      BY HttpAssumption DEF HttpAssumption, IInv, TypeOK, AttemptsConsistent, Sent
    <3>2. QED
      BY <3>1, <2>2, AttemptsInBudget
  <2>4. /\ IsFiniteSet(executed[c]) /\ Cardinality(executed[c]) \in Nat
        /\ IsFiniteSet(Unsure(c)) /\ Cardinality(Unsure(c)) \in Nat
        /\ Cardinality(executed'[c]) <= MaxRetries[c] + 1
    BY <2>3, AtMostBudget
  <2>5. Cardinality(executed'[c]) = Cardinality(executed[c]) + 1
    BY <2>1, <2>2, <2>4, FS_AddElement
  <2>6. Cardinality(executed[c]) <= Cardinality(Unsure(c))
    <3>1. CASE executed[c] \subseteq Unsure(c)
      BY <3>1, <2>4, FS_Subset
    <3>2. CASE ~(executed[c] \subseteq Unsure(c))
      <4>1. \A m \in executed[c] : m \notin Unsure(c) => m = attempt[c]
        BY DEF IInv, PastAttemptsExplained
      <4>2. attempt[c] \in executed[c] /\ attempt[c] \notin Unsure(c)
        BY <3>2, <4>1
      <4>3. n # attempt[c] /\ n \in Unsure(c)
        BY <4>2, <2>1 DEF IInv, PastAttemptsExplained
      <4> DEFINE old == executed[c] \ {attempt[c]}
      <4>4. old \subseteq Unsure(c) \ {n}
        BY <4>1, <4>2, <2>1
      <4>5. IsFiniteSet(Unsure(c) \ {n}) /\ Cardinality(Unsure(c) \ {n}) = Cardinality(Unsure(c)) - 1
        BY <4>3, <2>4, FS_RemoveElement
      <4>6. Cardinality(old) = Cardinality(executed[c]) - 1
        BY <4>2, <2>4, FS_RemoveElement
      <4>7. Cardinality(old) <= Cardinality(Unsure(c) \ {n})
        BY <4>4, <4>5, FS_Subset
      <4> HIDE DEF old
      <4>8. QED
        BY <4>5, <4>6, <4>7, <2>4
    <3>3. QED
      BY <3>1, <3>2
  <2>7. Cardinality(executed[c]) < MaxRetries[c] + 1
    BY <2>3, <2>4, <2>5
  <2>8. QED
    BY <1>1, <2>1, <2>5, <2>6, <2>7 DEF Contract!Effect
<1>4. QED
  BY <1>2, <1>3 DEF Serve, Execute, Refuse, Drop

(***************************************************************************)
(* Every behaviour of the retry loop is one CallContract allows (safety):  *)
(* a call succeeds only if carried out, and is carried out at most once    *)
(* plus once per attempt of unknown fate.                                  *)
(***************************************************************************)
THEOREM ImplementsContractSafety == Spec => Contract!ContractSafety
<1>1. IInv /\ IInv' /\ [Next]_vars => [Contract!ContractNext]_(Contract!contractVars)
  <2> SUFFICES ASSUME IInv, IInv', [Next]_vars
               PROVE  [Contract!ContractNext]_(Contract!contractVars)
    OBVIOUS
  <2>1. CASE UNCHANGED vars
    <3>1. \A d \in Call : Phase(d)' = Phase(d) /\ executed'[d] = executed[d] /\ Unsure(d)' = Unsure(d)
      BY <2>1 DEF vars, Phase, Unsure
    <3>2. QED
      BY <3>1, QuietStep
  <2>2. ASSUME NEW c \in Call, Client(c)
        PROVE  [Contract!ContractNext]_(Contract!contractVars)
    BY <2>2, SendRefines, RetryRefines, NetworkErrorRefines, ReceiveRefines
    DEF Client, Contract!ContractNext
  <2>3. ASSUME NEW c \in Call, NEW n \in inflight[c], Serve(c, n)
        PROVE  [Contract!ContractNext]_(Contract!contractVars)
    BY <2>3, ServeRefines DEF Contract!ContractNext
  <2>4. QED
    BY <2>1, <2>2, <2>3 DEF Next
<1>2. QED
  BY <1>1, InitRefines, Invariance, PTL DEF Spec, Contract!ContractSafety

-----------------------------------------------------------------------------
(* PacedHttp: the clients behind the limiter.                              *)

(***************************************************************************)
(* Each step is one of the limiter (or leaves it alone) and one of the     *)
(* client (or leaves it alone): PacedHttp implements both, and what was    *)
(* proved of them holds of it.                                             *)
(***************************************************************************)
LEMMA PacedStepsAreTheirs ==
    [PacedNext]_pacedVars => [LimiterNext]_limiterVars /\ [Next]_vars
<1> SUFFICES ASSUME [PacedNext]_pacedVars
             PROVE  [LimiterNext]_limiterVars /\ [Next]_vars
  OBVIOUS
<1> USE PaceAssumption DEF PaceAssumption
<1>1. CASE UNCHANGED pacedVars
  BY <1>1 DEF pacedVars
<1>2. CASE PacedTick
  BY <1>2 DEF PacedTick, LimiterNext
<1>3. ASSUME NEW c \in Call, PacedReserve(c)
      PROVE  [LimiterNext]_limiterVars /\ [Next]_vars
  BY <1>3 DEF PacedReserve, LimiterNext
<1>4. ASSUME NEW c \in Call, PacedSend(c)
      PROVE  [LimiterNext]_limiterVars /\ [Next]_vars
  BY <1>4 DEF PacedSend, PassLimiter, LimiterNext, Next, Client
<1>5. ASSUME NEW c \in Call, PacedReceive(c)
      PROVE  [LimiterNext]_limiterVars /\ [Next]_vars
  BY <1>5 DEF PacedReceive, Next, Client
<1>6. ASSUME NEW c \in Call, PacedNetworkError(c)
      PROVE  [LimiterNext]_limiterVars /\ [Next]_vars
  BY <1>6 DEF PacedNetworkError, Next, Client
<1>7. ASSUME NEW c \in Call, PacedRetry(c)
      PROVE  [LimiterNext]_limiterVars /\ [Next]_vars
  BY <1>7 DEF PacedRetry, Next, Client
<1>8. ASSUME NEW c \in Call, PacedServe(c)
      PROVE  [LimiterNext]_limiterVars /\ [Next]_vars
  BY <1>8 DEF PacedServe, Next, Client
<1>9. QED
  BY <1>1, <1>2, <1>3, <1>4, <1>5, <1>6, <1>7, <1>8 DEF PacedNext

\* A ticket is new when it is taken and gone when it is used.
LEMMA TicketsStayApart ==
    ASSUME LimiterInv, TicketsApart, [LimiterNext]_limiterVars
    PROVE  TicketsApart'
<1> USE PaceAssumption, LimiterAssumption DEF PaceAssumption, LimiterAssumption
<1>1. CASE UNCHANGED limiterVars
  BY <1>1 DEF limiterVars, TicketsApart
<1>2. CASE Tick
  BY <1>2 DEF Tick, TicketsApart
<1>3. ASSUME NEW c \in Caller, Reserve(c)
      PROVE  TicketsApart'
  <2>1. /\ Len(slots) \in Nat
        /\ \A d \in Call : ticket[d] \in 0..Len(slots)
        /\ sent \subseteq 1..Len(slots)
    BY DEF LimiterInv, LimiterTypeOK
  <2>2. /\ sent' = sent
        /\ \A d \in Call : ticket'[d] = IF d = c THEN Len(slots) + 1 ELSE ticket[d]
    BY <1>3 DEF Reserve, LimiterInv, LimiterTypeOK
  <2>3. QED
    BY <2>1, <2>2 DEF TicketsApart
<1>4. ASSUME NEW c \in Caller, Proceed(c)
      PROVE  TicketsApart'
  <2>1. /\ ticket[c] # 0 /\ sent' = sent \cup {ticket[c]}
        /\ \A d \in Call : ticket'[d] = IF d = c THEN 0 ELSE ticket[d]
    BY <1>4 DEF Proceed, LimiterInv, LimiterTypeOK
  <2>2. QED
    BY <2>1 DEF TicketsApart
<1>5. QED
  BY <1>1, <1>2, <1>3, <1>4 DEF LimiterNext

\* A request goes out with a ticket of its own, and not otherwise.
LEMMA WireStep ==
    ASSUME PacedInv, [PacedNext]_pacedVars
    PROVE  \/ OnWire' = OnWire /\ sent' = sent
           \/ \E c \in Call : /\ ticket[c] # 0 /\ sent' = sent \cup {ticket[c]}
                              /\ OnWire' = OnWire \cup {<<c, attempt[c]>>}
                              /\ <<c, attempt[c]>> \notin OnWire
<1> USE HttpAssumption, PaceAssumption DEF HttpAssumption, PaceAssumption
<1>1. /\ attempt \in [Call -> Nat] /\ pc \in [Call -> Running \cup Closed]
  BY DEF PacedInv, IInv, TypeOK
<1>2. ASSUME \A d \in Call : Sent(d)' = Sent(d), sent' = sent
      PROVE  OnWire' = OnWire /\ sent' = sent
  BY <1>2 DEF OnWire
<1>3. CASE UNCHANGED pacedVars \/ PacedTick \/ \E c \in Call : PacedReserve(c)
  <2>1. UNCHANGED <<pc, attempt, sent>>
    BY <1>3 DEF pacedVars, vars, limiterVars, PacedTick, Tick, PacedReserve, Reserve
  <2>2. QED
    BY <1>2, <2>1 DEF Sent
<1>4. ASSUME NEW c \in Call, PacedSend(c)
      PROVE  /\ ticket[c] # 0 /\ sent' = sent \cup {ticket[c]}
             /\ OnWire' = OnWire \cup {<<c, attempt[c]>>}
             /\ <<c, attempt[c]>> \notin OnWire
  <2>1. ticket[c] # 0 /\ sent' = sent \cup {ticket[c]}
    BY <1>4 DEF PacedSend, PassLimiter, Proceed
  <2>2. /\ pc[c] = "limiter" /\ attempt' = attempt /\ attempt[c] \in Nat
        /\ \A d \in Call : pc'[d] = IF d = c THEN "request" ELSE pc[d]
    BY <1>1, <1>4 DEF PacedSend, Send
  <2>3. /\ Sent(c) = 0..(attempt[c] - 1) /\ Sent(c)' = Sent(c) \cup {attempt[c]}
        /\ attempt[c] \notin Sent(c)
    BY <2>2 DEF Sent
  <2>4. \A d \in Call \ {c} : Sent(d)' = Sent(d)
    BY <2>2 DEF Sent
  <2>5. /\ \A d \in Call : \A n : <<d, n>> \in OnWire <=> n \in Sent(d)
        /\ \A d \in Call : \A n : <<d, n>> \in OnWire' <=> n \in Sent(d)'
    BY DEF OnWire
  <2>6. <<c, attempt[c]>> \notin OnWire
    BY <2>3, <2>5
  <2>7. OnWire' = OnWire \cup {<<c, attempt[c]>>}
    <3>1. ASSUME NEW w \in OnWire'
          PROVE  w \in OnWire \cup {<<c, attempt[c]>>}
      <4>1. PICK d \in Call : \E n \in Sent(d)' : w = <<d, n>>
        BY DEF OnWire
      <4>2. PICK n \in Sent(d)' : w = <<d, n>>
        BY <4>1
      <4>3. CASE n \in Sent(d)
        BY <4>2, <4>3 DEF OnWire
      <4>4. CASE n \notin Sent(d)
        BY <4>2, <4>4, <2>3, <2>4
      <4>5. QED
        BY <4>3, <4>4
    <3>2. ASSUME NEW w \in OnWire
          PROVE  w \in OnWire'
      <4>1. PICK d \in Call : \E n \in Sent(d) : w = <<d, n>>
        BY DEF OnWire
      <4>2. Sent(d) \subseteq Sent(d)'
        BY <2>3, <2>4
      <4>3. QED
        BY <4>1, <4>2 DEF OnWire
    <3>3. <<c, attempt[c]>> \in OnWire'
      BY <2>3, <2>5
    <3>4. QED
      BY <3>1, <3>2, <3>3
  <2>8. QED
    BY <2>1, <2>6, <2>7
<1>5. ASSUME NEW c \in Call, PacedReceive(c) \/ PacedNetworkError(c)
      PROVE  OnWire' = OnWire /\ sent' = sent
  <2>1. /\ pc[c] = "request" /\ attempt' = attempt /\ sent' = sent
        /\ pc'[c] # "limiter"
        /\ \A d \in Call \ {c} : pc'[d] = pc[d]
    BY <1>1, <1>5 DEF PacedReceive, PacedNetworkError, Receive, NetworkError, limiterVars
  <2>2. QED
    BY <1>2, <2>1 DEF Sent
<1>6. ASSUME NEW c \in Call, PacedRetry(c)
      PROVE  OnWire' = OnWire /\ sent' = sent
  <2>1. /\ pc[c] = "backoff" /\ attempt[c] \in Nat /\ sent' = sent
        /\ \A d \in Call : /\ attempt'[d] = IF d = c THEN attempt[c] + 1 ELSE attempt[d]
                           /\ pc'[d] = IF d = c THEN "limiter" ELSE pc[d]
    BY <1>1, <1>6 DEF PacedRetry, Retry, NextAttempt, limiterVars
  <2>2. Sent(c)' = Sent(c)
    BY <2>1 DEF Sent
  <2>3. \A d \in Call \ {c} : Sent(d)' = Sent(d)
    BY <2>1 DEF Sent
  <2>4. QED
    BY <1>2, <2>1, <2>2, <2>3
<1>7. ASSUME NEW c \in Call, PacedServe(c)
      PROVE  OnWire' = OnWire /\ sent' = sent
  <2>1. UNCHANGED <<pc, attempt, sent>>
    BY <1>7 DEF PacedServe, Serve, limiterVars
  <2>2. QED
    BY <1>2, <2>1 DEF Sent
<1>8. QED
  BY <1>2, <1>3, <1>4, <1>5, <1>6, <1>7 DEF PacedNext

LEMMA TicketPerRequestKept ==
    ASSUME PacedInv, [PacedNext]_pacedVars
    PROVE  TicketPerRequest'
<1>1. /\ IsFiniteSet(OnWire) /\ Cardinality(OnWire) = Cardinality(sent)
      /\ sent \subseteq 1..Len(slots) /\ Len(slots) \in Nat
  BY DEF PacedInv, TicketPerRequest, LimiterInv, LimiterTypeOK
<1>2. IsFiniteSet(sent)
  <2>1. IsFiniteSet(1..Len(slots))
    BY <1>1, FS_Interval
  <2>2. QED
    BY <1>1, <2>1, FS_Subset
<1>3. CASE OnWire' = OnWire /\ sent' = sent
  BY <1>1, <1>3 DEF TicketPerRequest
<1>4. ASSUME NEW c \in Call, ticket[c] # 0, sent' = sent \cup {ticket[c]},
             OnWire' = OnWire \cup {<<c, attempt[c]>>}, <<c, attempt[c]>> \notin OnWire
      PROVE  TicketPerRequest'
  <2>1. ticket[c] \notin sent
    BY <1>4 DEF PacedInv, TicketsApart
  <2>2. IsFiniteSet(OnWire') /\ Cardinality(OnWire') = Cardinality(OnWire) + 1
    BY <1>1, <1>4, FS_AddElement
  <2>3. Cardinality(sent') = Cardinality(sent) + 1
    BY <1>2, <1>4, <2>1, FS_AddElement
  <2>4. QED
    BY <1>1, <2>2, <2>3 DEF TicketPerRequest
<1>5. QED
  BY <1>3, <1>4, WireStep

LEMMA SleepsKept ==
    ASSUME PacedInv, [PacedNext]_pacedVars
    PROVE  SleepsLongEnough'
<1> USE PaceAssumption DEF PaceAssumption
<1>1. /\ pc \in [Call -> Running \cup Closed] /\ now \in Nat
      /\ DOMAIN wake = Call /\ notBefore \in [Call -> Nat]
  BY DEF PacedInv, IInv, TypeOK, LimiterInv, LimiterTypeOK, SleepsLongEnough
<1>2. CASE \/ UNCHANGED pacedVars
           \/ \E c \in Call : PacedReserve(c) \/ PacedServe(c)
  <2>1. UNCHANGED <<pc, now, wake, notBefore>>
    BY <1>2 DEF pacedVars, vars, limiterVars, sleep, PacedReserve, Reserve, PacedServe, Serve
  <2>2. QED
    BY <2>1 DEF PacedInv, SleepsLongEnough
<1>3. CASE PacedTick
  <2>1. now' = now + 1 /\ UNCHANGED <<pc, wake, notBefore>>
    BY <1>3 DEF PacedTick, Tick, vars, sleep
  <2>2. QED
    BY <1>1, <2>1 DEF PacedInv, SleepsLongEnough
<1>4. ASSUME NEW c \in Call, PacedSend(c)
      PROVE  SleepsLongEnough'
  <2>1. /\ pc[c] = "limiter" /\ UNCHANGED <<now, wake, notBefore>>
        /\ \A d \in Call : pc'[d] = IF d = c THEN "request" ELSE pc[d]
    BY <1>1, <1>4 DEF PacedSend, PassLimiter, Proceed, Send, sleep
  <2>2. QED
    BY <2>1 DEF PacedInv, SleepsLongEnough
<1>5. ASSUME NEW c \in Call, PacedReceive(c)
      PROVE  SleepsLongEnough'
  <2>1. /\ pc[c] = "request" /\ now' = now
        /\ pc'[c] \in {"returned", "backoff"}
        /\ \A d \in Call \ {c} : pc'[d] = pc[d]
    BY <1>1, <1>5 DEF PacedReceive, Receive, limiterVars
  <2>2. CASE pc'[c] = "backoff"
    <3>1. PICK header \in RetryAfter \cup {NoHeader} :
             /\ \E pause \in Pause(c, header) : Sleep(c, pause)
             /\ notBefore' = [notBefore EXCEPT ![c] =
                                 IF header = NoHeader THEN 0 ELSE now + header]
      BY <1>5, <2>2 DEF PacedReceive
    <3>2. PICK pause \in Pause(c, header) : wake' = [wake EXCEPT ![c] = now + pause]
      BY <3>1 DEF Sleep
    <3>3. header # NoHeader => header \in Nat /\ pause = header
      BY <3>2 DEF Pause
    <3>4. notBefore'[c] \in Nat /\ notBefore'[c] \in {0, wake'[c]}
      BY <1>1, <3>1, <3>2, <3>3
    <3>5. DOMAIN wake' = Call /\ notBefore' \in [Call -> Nat]
      BY <1>1, <3>1, <3>2, <3>3
    <3>6. \A d \in Call \ {c} : wake'[d] = wake[d] /\ notBefore'[d] = notBefore[d]
      BY <1>1, <3>1, <3>2
    <3>7. QED
      BY <2>1, <2>2, <3>4, <3>5, <3>6 DEF PacedInv, SleepsLongEnough
  <2>3. CASE pc'[c] # "backoff"
    <3>1. pc'[c] = "returned" /\ UNCHANGED <<wake, notBefore>>
      BY <1>5, <2>1, <2>3 DEF PacedReceive, sleep
    <3>2. QED
      BY <2>1, <3>1 DEF PacedInv, SleepsLongEnough
  <2>4. QED
    BY <2>2, <2>3
<1>6. ASSUME NEW c \in Call, PacedNetworkError(c)
      PROVE  SleepsLongEnough'
  <2>1. /\ pc[c] = "request" /\ now' = now
        /\ pc'[c] \in {"raised", "backoff"}
        /\ \A d \in Call \ {c} : pc'[d] = pc[d]
    BY <1>1, <1>6 DEF PacedNetworkError, NetworkError, limiterVars
  <2>2. \/ UNCHANGED <<wake, notBefore>> /\ pc'[c] = "raised"
        \/ /\ notBefore' = [notBefore EXCEPT ![c] = 0]
           /\ \E pause : wake' = [wake EXCEPT ![c] = now + pause]
    BY <1>6, <2>1 DEF PacedNetworkError, sleep, Sleep
  <2>3. QED
    BY <1>1, <2>1, <2>2 DEF PacedInv, SleepsLongEnough
<1>7. ASSUME NEW c \in Call, PacedRetry(c)
      PROVE  SleepsLongEnough'
  <2>1. /\ pc[c] = "backoff" /\ wake[c] <= now /\ UNCHANGED <<now, wake, notBefore>>
        /\ \A d \in Call : pc'[d] = IF d = c THEN "limiter" ELSE pc[d]
    BY <1>1, <1>7 DEF PacedRetry, Retry, limiterVars, sleep
  <2>2. notBefore[c] <= now
    BY <1>1, <2>1 DEF PacedInv, SleepsLongEnough
  <2>3. QED
    BY <2>1, <2>2 DEF PacedInv, SleepsLongEnough
<1>8. QED
  BY <1>2, <1>3, <1>4, <1>5, <1>6, <1>7 DEF PacedNext

LEMMA PacedInitInv == PacedInit => PacedInv
<1> SUFFICES ASSUME PacedInit PROVE PacedInv
  OBVIOUS
<1> USE PaceAssumption, LimiterAssumption DEF PaceAssumption, LimiterAssumption
<1>1. LimiterInv /\ IInv
  BY LimiterInitInv, InitInv DEF PacedInit
<1>2. TicketsApart
  BY DEF PacedInit, LimiterInit, TicketsApart
<1>3. OnWire = {}
  <2>1. \A c \in Call : Sent(c) = {}
    BY DEF PacedInit, Init, Sent
  <2>2. QED
    BY <2>1 DEF OnWire
<1>4. TicketPerRequest
  BY <1>3, FS_EmptySet DEF PacedInit, LimiterInit, TicketPerRequest
<1>5. SleepsLongEnough
  BY DEF PacedInit, Init, LimiterInit, SleepsLongEnough
<1>6. QED
  BY <1>1, <1>2, <1>4, <1>5 DEF PacedInv

LEMMA PacedStepInv == PacedInv /\ [PacedNext]_pacedVars => PacedInv'
<1> SUFFICES ASSUME PacedInv, [PacedNext]_pacedVars
             PROVE  PacedInv'
  OBVIOUS
<1>1. [LimiterNext]_limiterVars /\ [Next]_vars
  BY PacedStepsAreTheirs
<1>2. LimiterInv' /\ IInv'
  BY <1>1, LimiterStepInv, StepInv DEF PacedInv
<1>3. TicketsApart'
  BY <1>1, TicketsStayApart DEF PacedInv
<1>4. QED
  BY <1>2, <1>3, TicketPerRequestKept, SleepsKept DEF PacedInv

(***************************************************************************)
(* The inductive invariant of the clients behind the limiter.              *)
(***************************************************************************)
THEOREM PacedInvariant == PacedSpec => []PacedInv
<1>1. QED
  BY PacedInitInv, PacedStepInv, PTL DEF PacedSpec

(***************************************************************************)
(* PacedHttp implements its parts: seen from the limiter every request,    *)
(* retries included, is one more call of wait(), and seen from the client  *)
(* the limiter is time that passes.                                        *)
(***************************************************************************)
THEOREM PacedImplementsParts == PacedSpec => LimiterSpec /\ Init /\ [][Next]_vars
<1>1. PacedInit => LimiterInit /\ Init
  BY DEF PacedInit
<1>2. [PacedNext]_pacedVars => [LimiterNext]_limiterVars /\ [Next]_vars
  BY PacedStepsAreTheirs
<1>3. QED
  BY <1>1, <1>2, PTL DEF PacedSpec, LimiterSpec

(***************************************************************************)
(* "proactively space calls" (docstring of lib/http.py): at most one       *)
(* request an interval, whichever calls they belong to, first attempts and *)
(* retries together.                                                       *)
(***************************************************************************)
THEOREM RequestsArePaced == PacedSpec => []RequestsPaced
<1>1. PacedInv => RequestsPaced
  BY InvImpliesPace DEF PacedInv, TicketPerRequest, PaceBound, RequestsPaced
<1>2. QED
  BY <1>1, PacedInvariant, PTL

(***************************************************************************)
(* The pause a server asks for is kept, for every backoff, cap and jitter. *)
(***************************************************************************)
THEOREM RetryAfterIsHonoured == PacedSpec => []RetryAfterHonoured
<1>1. PacedInv => RetryAfterHonoured
  BY DEF PacedInv, SleepsLongEnough, RetryAfterHonoured
<1>2. QED
  BY <1>1, PacedInvariant, PTL
=============================================================================
