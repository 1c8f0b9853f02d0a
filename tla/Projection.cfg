\* Two runners share the checkpoint; one rebuild.
CONSTANTS
    Streams = {s1}
    Payloads = {h, n}
    Handled = {h}
    Runners = {r1, r2}
    Clients = {c1}
    MaxBatch = 2
    MaxSeq = 3
    BatchSize = 2
    MaxFaults = 1
    MaxRebuilds = 1
SPECIFICATION FairSpec
INVARIANTS AppliedToCheckpoint ReadYourWrites
PROPERTIES EventuallyApplied EveryWaitEnds
