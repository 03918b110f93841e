SPECIFICATION Spec
CONSTANTS
    CLUSTER_BITS = 4
    REFCOUNT_MAX = 65535
    QCOW_MAX_REFTABLE_SIZE = 8388608
    DISCARD_PASSTHROUGH <- MCDiscardPassthrough
    MAX_RESTARTS = 6
    L1_SIZE = 1
    MAX_CLUSTERS = 16
    MAX_SNAPSHOTS = 2
    OVERLAP_CHECK <- MCOverlapCheck
    FAULTS = {}
    MAX_FAULTS = 0
    MAX_CALLS = 10
CONSTRAINT CallsBound
INVARIANTS
    Consistent
PROPERTY
    DiskRefinement
