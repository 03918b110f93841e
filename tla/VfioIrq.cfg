SPECIFICATION Spec
CONSTANTS
    g1 = g1
    g2 = g2
    OFF = OFF
    ZERO_ROUTE = ZERO_ROUTE
    Routes = {g1, g2, OFF}
    HAS_PIN = TRUE
    KVM_RESAMPLE = TRUE
    KvmResults = {TRUE, FALSE}
    MsiResults = {TRUE, FALSE}
    MMAP_TIMEOUT_ON = TRUE
    NR_ENTRIES = 2
    MAX_CHANGES = 4
INVARIANTS
    EoiObservable
    DeliveryPath
    NoStrandedMask
    MaskRespected
    NoLostMessage
PROPERTY
    MaskReleased
    MsixDelivered
