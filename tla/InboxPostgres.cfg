\* The Postgres inbox with two writers.
CONSTANTS
    ta = ta  tb = tb  a1 = a1  a2 = a2  b1 = b1
    Topics = {ta, tb}
    Feed <- Once
    Serialized = FALSE
    BatchSize = 2
    MaxSeq = 4
    MaxFaults = 1
SPECIFICATION Spec
INVARIANT DeliveredAtLeastOnce
