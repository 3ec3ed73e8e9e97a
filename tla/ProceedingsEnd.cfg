\* Two requests that take the locks of the court case and of the case; fairness.
CONSTANTS
    c1 = c1
    c2 = c2
    r1 = r1
    r2 = r2
    None = None
    Charges = {c1}
    Requests = {r1, r2}
    Endpoints = {"openCourt", "verdict", "file", "patchCharge", "sentence", "caseStatus"}
    Verdicts = {"guilty"}
SPECIFICATION FairSpec
PROPERTY RequestsEnd
