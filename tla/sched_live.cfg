SPECIFICATION FairSpec
CONSTANTS
    u1 = u1
    u2 = u2
    w1 = w1
    w2 = w2
    a1 = a1
    a2 = a2
    s1 = s1
    Users = {u1}
    Workers = {w1}
    Adds = {a1}
    Searches = {s1}
    MaxUsers = 1
    Batch = 1
    LagBound = 0
    MaxCalls = 1
    Leftovers = {0}
    MaxAdds = 2
    MaxSearches = 1
    MaxClock = 1
    Stops = {"drain","cancel"}
PROPERTIES
    BatchesAreFolded
    AddsReturn
    RunEnds
CHECK_DEADLOCK FALSE
