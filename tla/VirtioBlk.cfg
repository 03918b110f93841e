SPECIFICATION Spec
CONSTANTS
    r1 = r1
    r2 = r2

    Req <- MCReq
    Descs <- MCDescs
    DISK_SECTORS = 2
    MRB_MAX = 1
    ReadPolicies = {"stop", "ignore"}
    WritePolicies = {"enospc"}
    MAX_ERRORS = 1
    MAX_RESETS = 1
PROPERTY
    RequestsSettle
INVARIANTS
    TypeOK
    RequestOwnedOnce
    ResetQuiesces
    FlushAfterWrites
    StoppedRequestsResumable
