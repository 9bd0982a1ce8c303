CONSTANTS
    Requests = {r1, r2, r3, r4}
    Users = {u1, u2}
    Quarries = {q1, q2, q3}
    Nobody = Nobody
SPECIFICATION Spec
INVARIANTS TypeOK ActiveGrantUnique OneDemoChain AccessAudited
PROPERTIES DeactivationSticks ImplementsRights
SYMMETRY Symmetry
