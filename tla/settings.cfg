CONSTANTS
    Slots = {r1, r2}
    LastEdit = 2
    Inputs <- MCInputs
    LastRequest = 3
    Payloads <- MCPayloads
    Files <- MCFiles
SPECIFICATION Spec
INVARIANTS AlwaysValid SecretsKept SavesCompose
SYMMETRY MCSymmetry
