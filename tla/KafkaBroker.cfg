\* Two members, rebalances, stops, failures and crashes.
CONSTANTS
    Members = {m1, m2}
    MaxLog = 3
    MaxFaults = 3
SPECIFICATION FairSpec
INVARIANT NothingSkipped
PROPERTIES DisorderOnlyAtShutdown EventuallyHandled CancelReturns
