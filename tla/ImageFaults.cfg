SPECIFICATION Spec
CONSTANTS
    CLUSTER_BITS = 4
    REFCOUNT_MAX = 65535
    QCOW_MAX_REFTABLE_SIZE = 8388608
    DISCARD_PASSTHROUGH <- MCDiscardPassthrough
    MAX_RESTARTS = 6
    L1_SIZE = 1
    MAX_CLUSTERS = 16
    MAX_SNAPSHOTS = 2
    OVERLAP_CHECK <- MCOverlapCheck
    FAULTS = {"cache", "l2_flush", "rb_flush", "hookup", "l2_load", "flush", "l1_write", "l1_read", "snapshots"}
    MAX_FAULTS = 1
    MAX_CALLS = 6
CONSTRAINT CallsBound
PROPERTY
    DiskRefinement
INVARIANTS
    TypeOK
    StoredNotBelowComputed
    CopiedImpliesExclusive
    RepairRestores
    OverlapGuardExact
    GuestDataClear
