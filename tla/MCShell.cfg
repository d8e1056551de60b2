SPECIFICATION Spec
CONSTANTS
    MAXARGS = 3
    Lines <- MCLines
    LongLines <- MCLongLines
    MaxForks = 3
    MAXJOBS = 6
    Beyond = 10
INVARIANTS
    IdleOwnsTerminal
    ParserFollowsGrammar
PROPERTIES
    ExitEnds
    PromptAfterForeground
    ZombiesReaped
CHECK_DEADLOCK FALSE
