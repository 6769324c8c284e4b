\* A status alone, or a status and another request at a time.
CONSTANTS
    Nil = Nil
    Local = Local
    p1 = p1
    p2 = p2
    Handlers = {p1, p2}
    MaxAddresses = 2
    Requests <- MixedRequests
    MaxRequests = 2
    MaxCalls = 2
    MaxFaults = 1
    MaxEvents = 1
SPECIFICATION FairSpec
INVARIANTS
    TypeOK
    OneCheckEach
    ChecksNotCut
    FieldsSettle
PROPERTIES
    AnsweredOrHung
CHECK_DEADLOCK FALSE
