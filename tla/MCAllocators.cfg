SPECIFICATION Spec
CONSTANTS
    PAGE_SIZE = 8
    MAX_ORDER = 3
    BITS = 4
    META = 16
    MaxRegions = 8
    FF_CHUNK = 32
    FF_HEAP = 240
    MMInit <- MCInit
    MMMalloc <- MCMalloc
    MMFree <- MCFree
    MMRealloc <- MCRealloc
    MemReset <- MCReset
    HeapLo <- MCHeapLo
    HeapSize <- MCHeapSize
    Memset <- MCMemset
    Peek <- MCPeek
    NoHeap <- MCNoHeap
    ALIGNMENT = 8
    NumDefault = 2
    Contents <- MCContents
    Timers = {"FCYC", "GETTOD", "ITIMER"}
    MaxOptions = 2
    Starts = {78}
    Durations = {1, 2}
    Ticks = {0, 1}
    Cpts = {0, 1}
    Sleep = 3
    AVG_LIBC_THRUPUT = 1
    UTIL_WEIGHT = 60
    K = 2
    MAXSAMPLES = 3
    EPSILON = 1
    NRUNS = 2
    WIDTH = 2
    USEC = 10
    MAX_ETIME = 5
    RECORDTHRESH = 0
INVARIANTS
    PayloadsApart
    FreeAreasSound
    CheckheapSilent
    IndexIsEarned
    SamplesKBest
PROPERTIES
    ReplayIsTheSame
    MeasuresElapsed
