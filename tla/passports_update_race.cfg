CONSTANTS
    Passports = {p1}
    Originals = {p1}
    Seeded = {}
    Requests = {r1, r2}
    Designs = {d1, d2}
    None = None
SPECIFICATION Spec
PROPERTIES DesignFrozenAfterDraft
