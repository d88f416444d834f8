SPECIFICATION Spec
CONSTANTS
    Images = {"img1", "img2", "img3"}
    Threads = {"group", "private"}
    Direct = {"private"}
    Admins = {"admin"}
    Messages <- MCMessages
    Modes <- MCModes
    BatchMax = 2
    MaxImages = 2
    Cooldown = 1
    MaxTurn = 1
    IdleTtl = 2
    LastMessage = 3
    LastTime = 4
INVARIANTS AsAsked Spaced ImagesInPlace
