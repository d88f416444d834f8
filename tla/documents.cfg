SPECIFICATION FairSpec
CONSTANTS
    a = a
    b = b
    odd = odd
    scan = scan
    lean = lean
    Absent = Absent
    Directory = Directory
    Paths = {a, b, odd}
    Contents = {scan, lean}
    Suffix <- MCSuffix
    LocalText <- MCLocalText
    RemoteText <- MCRemoteText
    Big = {}
    Disks <- MCDisks
    Tree <- MCTree
    Args <- MCArgs
    Configs <- MCConfigs
    Polls = 2
    LastRun = 2
    LastChange = 1
INVARIANTS StoredOnce ReportTrue
PROPERTIES ImportsEnd
