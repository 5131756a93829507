SPECIFICATION Spec
CONSTANTS
    Caller = {c1, c2}
    Canceller = {k1}
    Pid = {q1, q2}
    MaxInstance = 2
    Lingering = TRUE
    CleanupFails = TRUE
    Nobody = nobody
    Stranger = stranger
SYMMETRY Symmetry
INVARIANTS
    TypeOK
    SignalsOwnWorker
    OneWorker
    CancellationIsTruthful
    NoWorkerLeft
    WebRunLeavesNoTree
