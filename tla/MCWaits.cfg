SPECIFICATION FairSpec
CONSTANTS
    Waits = {w1, w2}
    Timers = {t}
    Signals = {s}
    Resolvers = {r}
    Numbers = {1, 2}
    Invalid = Invalid
    Text = Text
    Arguments <- MCArguments
    NoObject = NoObject
    Null = Null
    List = List
    EmptyList = EmptyList
    MaxTime = 1
    MaxRaised = 1
    MaxForks = 1
INVARIANTS
    AbortedIffCancelled
    SuccessIsDue
    NothingMissed
    ToldIsRegistered
PROPERTIES
    DecidedStays
    EveryWaitEnds
CHECK_DEADLOCK FALSE
