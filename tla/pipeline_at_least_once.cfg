CONSTANTS
    Jobs = {j1, j2}
    Sessions = {s1}
    SessionOf <- SharedSession
    Slots = {w1, w2}
    PlainSteps = 1
    Faults = {"request_abort", "s3_error", "container_crash", "child_lost", "redelivery"}
    FaultBudget = 2
    StatusWrapperBinds = TRUE
    NoJob = NoJob
    Synthetic = Synthetic
SPECIFICATION Spec
INVARIANTS CompletedHasReport
PROPERTIES ResultWrittenOnce
SYMMETRY Symmetry
