\* One call with the three tries of the code, under the fairness of its goroutine.
SPECIFICATION FairSpec
CONSTANTS
    c1 = c1
    Callers <- OneCaller
    StatusTries = 3
    TaskTimeout = 3
    Interval = 2
INVARIANTS
    NoRepeatUnlessBlind
    SettledOnReturn
PROPERTIES
    ImplementsAsyncOperation
    EveryCallReturns
\* Calls are one-shot: the system stops when all have returned.
CHECK_DEADLOCK FALSE
