SPECIFICATION FairSpec
INVARIANTS
    SuccessIsComplete
    CategoryIsTrue
    RunnerOutlivesAdapter
PROPERTIES
    EveryRunSettles
    NoProcessLeft
CHECK_DEADLOCK FALSE
