\* Three concurrent consumers of one instance, with duplicates.
CONSTANTS
    c1 = c1  c2 = c2  c3 = c3
    placed = placed  captured = captured  rejected = rejected  other = other
    Consumers = {c1, c2, c3}
    Feed <- MCFeed
    Commands <- MCCommands
    Ends = {rejected}
    Ignored = {other}
    ConflictRetries = 1
    MaxFaults = 2
SPECIFICATION FairSpec
INVARIANTS DecidedOnce NoStaleDecision EndIsFinal NothingLost
PROPERTY EveryMessageAcked
