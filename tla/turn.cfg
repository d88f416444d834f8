SPECIFICATION FairSpec
CONSTANTS
    soup = soup
    Blank = Blank
    Skills = {soup}
    LastMessage = 3
    BatchMax = 2
    MaxRounds = 1
    StepLimits = {4, 6}
    CallLists <- MCCalls
    Crashes = TRUE
    EmptySummary = FALSE
INVARIANTS ContextWellFormed SkillsApplied HistoryOrdered SeenIsDurable EndsWithAnswer
PROPERTIES Remembers TurnEnds
