\* Two processes exchange two releases over an aggregate of a third.
CONSTANTS
    c0 = c0  c1 = c1
    Commands = {c0, c1}
    Names = {"placed", "tagged"}
    LastRelease = 3
    Chain <- MCChain
    Raises <- MCRaises
    History <- MCHistory
    Rollout = {2, 3}
    Arriving = {c1}
    Procs = {p1, p2}
    Aggregate = "a"
    Attempts = 2
    MaxBatch = 2
    MaxSeq = 3
    MaxFaults = 1
SPECIFICATION DeploymentFairSpec
INVARIANTS ReadExactly PassedIsHandled
PROPERTIES CommandsAreAtomic EventuallyAllHandled
