\* Units of 0.25 s: slots every 2 (rps 2), backoff 2 then 4, Retry-After 0 or 3.
CONSTANTS
    read = read
    order = order
    Call <- MCCall
    Caller <- MCCall
    MaxRetries <- MCRetries
    RetryOn5xx <- MCRetryOn5xx
    Interval = 2
    MaxTime = 6
    BackoffUnit = 2
    BackoffCap = 3
    Jitter <- MCJitter
    RetryAfter <- MCRetryAfter
SPECIFICATION PacedSpec
INVARIANTS
    PaceBound
    RequestsPaced
    RetryAfterHonoured
\* The model's clock ends at MaxTime.
CHECK_DEADLOCK FALSE
