\* Close may be called while StartContext is under way.
SPECIFICATION FairSpec
CONSTANTS
    Starters = {s1}
    Stoppers = {c1}
    Watcher = w
    Requests = {r1}
CHECK_DEADLOCK FALSE
PROPERTIES
    CloseStopsTheServer
