\* Two verdicts of one court case, recorded at the same time.
CONSTANTS
    c1 = c1
    c2 = c2
    r1 = r1
    r2 = r2
    None = None
    Charges = {c1}
    Requests = {r1, r2}
    Endpoints = {"openCourt", "verdict"}
    Verdicts = {"guilty", "not_guilty"}
SPECIFICATION Spec
PROPERTY VerdictFinal
CHECK_DEADLOCK FALSE
