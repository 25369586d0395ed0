CONSTANTS
    MaxRetries = 2
    Orders <- GoodOrders
    MaxGeneration = 5
    MaxOrders = 2
SPECIFICATION Spec
INVARIANTS IInv RelaysBounded
PROPERTIES StoppedUntilStart
CHECK_DEADLOCK FALSE
