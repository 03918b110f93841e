CONSTANTS
    CLUSTER_BITS = 4
    REFCOUNT_MAX = 65535
    QCOW_MAX_REFTABLE_SIZE = 8388608
    DISCARD_PASSTHROUGH <- MCDiscardPassthrough
    MAX_RESTARTS = 6
    MAX_CLUSTERS = 32
    ALLOC_SIZES = {1, 2}
    BYTE_SIZES = {5, 11}
    MAX_OWNED = 2
    FAULTS = {}
    MAX_FAULTS = 0
    OPS = {"alloc", "alloc_bytes", "free"}
    MAX_CALLS = 30
SPECIFICATION Spec
CONSTRAINT CallsBound
INVARIANTS
    NoDoubleAllocation
