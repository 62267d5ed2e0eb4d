\* Units of 15 s: TTL 60 s, every_s 45 s.  Two retries: the first, a middle and
\* the last post of /auth/refresh.
CONSTANTS
    TTL = 4
    EverySecs = 3
    PostTimeout = 2
    MaxRetries = 2
SPECIFICATION TokenSpec
INVARIANTS
    TokenInv
    WrappedReadBounded
\* A failed refresh ends the test.
CHECK_DEADLOCK FALSE
