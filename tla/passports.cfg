CONSTANTS
    Passports = {p1, s1, p2, p3}
    Originals = {p1}
    Seeded = {s1}
    Requests = {r1, r2}
    Designs = {d1}
    None = None
SPECIFICATION Spec
INVARIANTS TypeOK RevisionChain ApprovalPrecedesBlast AuditTrail
SYMMETRY Symmetry
CHECK_DEADLOCK FALSE
CONSTRAINT TwoLeaveDraft
