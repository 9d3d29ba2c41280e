\* Two starters, two stoppers and the context, two requests.
SPECIFICATION FairSpec
CONSTANTS
    Starters = {s1, s2}
    Stoppers = {c1, c2}
    Watcher = w
    Requests = {r1, r2}
CHECK_DEADLOCK FALSE
INVARIANTS
    NeverNil
    StartsOnce
    StopIsFinal
PROPERTIES
    StopEndsServing
