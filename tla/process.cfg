SPECIFICATION FairSpec
CONSTANTS
    LastEvent = 4
    QueueMax = 2
    BatchMax = 2
    IndexMax = 2
    Exponents = 3
    Reconnect = TRUE
    Enabled = {"rag", "vision", "mcp", "bash"}
    Servers <- MCServers
    Allowlist = {}
    Denylist <- MCDenied
INVARIANTS EventsAccounted IndexDrained UsedWhileOpen
PROPERTIES StopEnds AcceptedServed
