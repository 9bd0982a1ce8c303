CONSTANTS
    Requests = {r1, r2, r3}
    MaxAttempts = 2
    MaxExpiries = 1
    Sessions = {s1, s2}
    SeededSessions = {s2}
    SeededFrames = 12
    Jobs = {j1}
    Reviewers = {u1, u2}
    Nobody = Nobody
    Decisions = {"reviewed", "accepted"}
SPECIFICATION Spec
INVARIANTS TypeOK KeysFetchedOnce LockIsHandedOn FrameCountBounded ArtifactHasObject DecisionAudited
PROPERTIES UncontestedReviewRecorded RequestsEnd
CHECK_DEADLOCK FALSE
