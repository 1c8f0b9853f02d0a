\* One order on either side of both business limits.
CONSTANTS
    Amounts <- MCAmounts
    Quantities <- MCQuantities
    MaxFaults = 3
SPECIFICATION OrderFairSpec
INVARIANTS ShippedIsPaid NoCommandRejected
PROPERTY EveryOrderSettles
