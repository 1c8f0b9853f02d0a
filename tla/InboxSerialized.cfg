\* Serialized writers: numbers become visible in the order they were drawn.
CONSTANTS
    ta = ta  tb = tb  a1 = a1  a2 = a2  b1 = b1
    Topics = {ta, tb}
    Feed <- Duplicates
    Serialized = TRUE
    BatchSize = 2
    MaxSeq = 7
    MaxFaults = 2
SPECIFICATION FairSpec
INVARIANTS StoredOnce DeliveredAtLeastOnce
PROPERTY EventuallyHandled
