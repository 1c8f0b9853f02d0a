\* Two notifiers, one rebuild, in every outcome of an order.
CONSTANTS
    Histories <- MCHistories
    Notifiers = {n1, n2}
    MaxRebuilds = 1
    MaxFaults = 2
SPECIFICATION SummaryFairSpec
INVARIANTS StatusIsHighest NotifiedOnce SentIsRecorded
PROPERTY Settles
