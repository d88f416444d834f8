SPECIFICATION Spec
CONSTANTS
    LastEvent = 1
    QueueMax = 2
    BatchMax = 2
    IndexMax = 1
    Exponents = 3
    Reconnect = TRUE
    Enabled = {}
    Servers <- MCNoServers
    Allowlist = {}
    Denylist <- MCDenied
INVARIANTS AllClosed
