SPECIFICATION Spec
CONSTANTS
    Requests = {r1, r2, r3}
    Elsewhere = {r3}
    Amount = 3
    Asked = {1, 2, 4}
    Whole = Whole
    RefundFaults = {"provider", "store", "cancel"}
INVARIANTS
    NeverOverRefunded
    RefundsAreRecorded
    RecordAddsUp
    RefusedForGood
PROPERTIES
    RefundsEnd
