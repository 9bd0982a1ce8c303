CONSTANTS
    Passports = {p1, p2}
    Originals = {p1}
    Seeded = {}
    Requests = {r1, r2}
    Designs = {d1}
    None = None
SPECIFICATION Spec
PROPERTIES SupersededIsFinal
