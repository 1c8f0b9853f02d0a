\* Two writers on two streams; the sequence is long enough for an append of
\* two events next to a rolled-back one, and for running out.
CONSTANTS
    Writers = {w1, w2}
    NoWriter = NoWriter
    Streams = {s1, s2}
    Payloads = {p}
    MaxBatch = 2
    MaxSeq = 3
    Limit = 2
SPECIFICATION FairSpec
INVARIANTS WellFormed NoSkip Acknowledged ConflictIsReal
PROPERTIES PortSpec EveryCallReturns EventuallySeen
