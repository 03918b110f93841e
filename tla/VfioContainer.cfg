CONSTANTS
    d1 = d1  d2 = d2  d3 = d3  d4 = d4
    g1 = g1  g2 = g2  b1 = b1  b2 = b2
    c1 = c1  c2 = c2
    NONE = NONE
    Devs = {d1, d2, d3, d4}
    Groups = {g1, g2}
    Buses = {b1, b2}
    Cids = {c1, c2}
    GroupOf <- MCGroupOf
    BusOf <- MCBusOf
    DevOrder <- MCDevOrder
    ResetWorks = {d2, d3}
    HasFlr = {d2}
    HasPmReset = {d3}
    KVM_VFIO_DEV = TRUE
    PAGE = 4
    Sections <- MCSections
SPECIFICATION Spec
INVARIANTS
    DmaCoherent
    BalloonInhibited
    GroupsAccounted
    ResetOnce
    BusResetQuiesced
PROPERTY
    EveryDeviceReset
