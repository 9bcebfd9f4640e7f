SPECIFICATION FairSpec
CONSTANTS
    Task = {t1, t2, t3}
    Waited = {t1, t2}
    Capacity = 2
    MaxRestarts = 1
    NoTask = NoTask
    NoResult = NoResult
INVARIANTS
    TypeOK
    CountExact
    ExecutedAtMostOnce
    NoForgottenHandler
    AnswerIsOutcome
PROPERTIES
    
    ImplementsSerialExecutor
CHECK_DEADLOCK FALSE
