\* Two retries for the reading call (a first, a middle and a last attempt), one
\* for the order.
CONSTANTS
    read = read
    order = order
    Call <- MCCall
    MaxRetries <- MCRetries
    RetryOn5xx <- MCRetryOn5xx
SPECIFICATION Spec
INVARIANTS
    IInv
    AnswersTellTruth
    RepeatsComeFromDoubt
PROPERTIES
    ImplementsContract
\* A process ends when its calls have.
CHECK_DEADLOCK FALSE
