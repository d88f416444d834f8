CONSTANTS
    Threads = {t1, t2}
    Texts = {"a", "b"}
    Queries <- MCQueries
    LastTask = 2
    LastSecond = 1
    LastSearch = 1
    Keep = 2
    CacheMax = 2
    TopK = 2
    CandidateK = 3
    QueryLimit = 8
SPECIFICATION Spec
INVARIANTS
    VectorsTrue
    AnswerSound
    OwnFirst
PROPERTIES
    CacheForgetsOldest
    Retention
SYMMETRY MCSymmetry
