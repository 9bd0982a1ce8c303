CONSTANTS
    Jobs = {j1}
    Sessions = {s1}
    SessionOf <- SharedSession
    Slots = {w1}
    PlainSteps = 1
    Faults = {}
    FaultBudget = 0
    StatusWrapperBinds = TRUE
    NoJob = NoJob
    Synthetic = Synthetic
SPECIFICATION Spec
INVARIANTS TriggeredJobIsProcessed
