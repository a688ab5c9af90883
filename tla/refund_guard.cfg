SPECIFICATION Spec
CONSTANTS
    Executors = {q1}
    Schedulers = {s1}
    Reviewers = {v1}
    MaxAttempts = 2
    MaxFaults = 2
INVARIANTS FatalRefundProved
CHECK_DEADLOCK FALSE
