SPECIFICATION Spec
CONSTANTS
    Actors = {a1}
    Kworker = Kworker
    Softirq = Softirq
INVARIANT FailedRunsNothing
CHECK_DEADLOCK FALSE
