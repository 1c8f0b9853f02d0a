\* Two members of the group; a refunded and a declined order.
CONSTANTS
    o1 = o1  o2 = o2
    Members = {m1, m2}
    Orders = {o1, o2}
    Commands <- Refunded
    Attempts = 2
    MaxFaults = 3
SPECIFICATION FairSpec
INVARIANTS MoneyMovesOnce AcknowledgedIsSettled
PROPERTY EveryCommandAcked
