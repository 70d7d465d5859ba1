\* Refinement and liveness: no symmetry, one goroutine identity, one target per batch.
CONSTANTS
    Batch = {b1, b2, b3}
    User = {u1, u2}
    Runner = {r1}
    MaxTargets = 1
    None = None
SPECIFICATION LiveSpec
PROPERTIES
    ImplementsService
    QueueIsServed
