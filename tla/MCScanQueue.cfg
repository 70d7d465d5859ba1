\* Safety of the queue: three live batches, two users, two goroutines.
CONSTANTS
    Batch = {b1, b2, b3}
    User = {u1, u2}
    Runner = {r1, r2}
    MaxTargets = 2
    None = None
SYMMETRY Symmetry
SPECIFICATION Spec
INVARIANTS
    TypeOK
    OneRunner
    NoLostWakeup
    ActiveBelongsToRunner
    QueueMatchesMap
    FailuresAreCounted
PROPERTIES
    ActiveRunsToVerdict
