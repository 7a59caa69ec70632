SPECIFICATION Spec
CONSTANTS
    w1 = w1
    w2 = w2
    w3 = w3
    q1 = q1
    q2 = q2
    j1 = j1
    j2 = j2
    j3 = j3
    j4 = j4
    Worker = {w1, w2, w3}
    Queue = {q1, q2}
    Job = {j1, j2, j3, j4}
    TargetOf <- MCTargetOf
    None = None
INVARIANTS
    TypeOK
    OneWorkerPerQueue
    AnsweredForOnce
    CountIsExact
PROPERTIES
    SerialSpec
    EveryJobRuns
