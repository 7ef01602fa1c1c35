SPECIFICATION FairSpec
CONSTANTS
    Tasks = {t1}
    NoTask = NoTask
    Queues = {q1, q2}
    MaxConcurrency = 2
    RetryChoices <- OneRetry
    BackoffMs = 1
    MaxBackoffMs = 5
    Width = 6
    Delayed <- LimitedQueues
    MaxStarts = 2
    MaxDBErrors = 1
    Crashes = TRUE
INVARIANT TypeOK
INVARIANT AttemptLedger
INVARIANT WorkerOwnsRow
INVARIANT NoDoubleExecution
INVARIANT NoStrandedTask
INVARIANT BackoffIsExponential
PROPERTY TerminalIsFinal
PROPERTY EveryTaskEnds
CHECK_DEADLOCK FALSE
