CONSTANTS
    Slots = {r1, r2}
    LastEdit = 0
    Inputs <- MCInputs
    LastRequest = 3
    Payloads <- MCQuotedPayloads
    Files <- MCFiles
SPECIFICATION Spec
INVARIANTS SavesCompose
SYMMETRY MCSymmetry
