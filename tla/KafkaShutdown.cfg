\* One member is told to stop while it retries a record.
CONSTANTS
    Members = {m1}
    MaxLog = 2
    MaxFaults = 2
SPECIFICATION Spec
INVARIANT DeliveredInOrder
