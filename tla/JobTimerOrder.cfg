SPECIFICATION TSpec
CONSTANTS
    w1 = w1
    w2 = w2
    q1 = q1
    q2 = q2
    a = a
    b = b
    c = c
    Worker = {w1, w2}
    Queue = {q1, q2}
    Job = {a, b, c}
    TimedJob = {a, b}
    TargetOf <- MCTargetOf
    Delay <- MCDelay
    MaxTick = 2
    None = None
INVARIANT RunByDueTime
