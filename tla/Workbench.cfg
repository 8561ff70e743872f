SPECIFICATION Spec
CONSTANTS
    Procs = {p1, p2}
    Crowd = {p1, p2, p3}
    Producer = p1
    Consumer = p2
    Actors = {p1, p2}
    Kworker = Kworker
    Softirq = Softirq
    Worker = Worker
    Nodes = {n1, n2, n3}
    Nil = Nil
    W = 3
    Deltas = {1, 2}
    QCAP = 2
    MaxMsgs = 3
    Values = {0, 1}
    Boot = 0
    MaxSeq = 6
    NCpu = 2
    MaxAdds = 2
    Durations = {1, 2}
    MaxActive = 2
    MaxCalls = 3
    MaxWrites = 3
    MaxTicks = 3
    CAP = 2
    Texts = {1, 2}
    Ports = {0, 1}
    MaxTtl = 3
    Width = 4
    M = 4
    Ids = {t1, t2, t3}
    Deadlines = {1, 2}
    Max = 2
    Capacity = 3
    Rate = 2
    Scale = 3
    Usec = 7
    MaxReloads = 1
    FLASH_SIZE = 3
    Bits = {0, 1}
INVARIANTS TypeOK MemorySafe ReadsTrue NothingLost Exclusive
PROPERTY EveryWaitEnds
CHECK_DEADLOCK FALSE
