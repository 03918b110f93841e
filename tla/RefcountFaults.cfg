CONSTANTS
    CLUSTER_BITS = 4
    REFCOUNT_MAX = 65535
    QCOW_MAX_REFTABLE_SIZE = 8388608
    DISCARD_PASSTHROUGH <- MCDiscardPassthrough
    MAX_RESTARTS = 6
    MAX_CLUSTERS = 32
    ALLOC_SIZES = {1, 8}
    BYTE_SIZES = {5}
    MAX_OWNED = 2
    FAULTS = {"cache", "l2_flush", "rb_flush", "hookup", "grow_blocks", "grow_table", "header"}
    MAX_FAULTS = 1
    OPS = {"alloc", "alloc_at", "free"}
    MAX_CALLS = 12
SPECIFICATION Spec
CONSTRAINT CallsBound
INVARIANTS
    NoUnderCount
    NoDoubleAllocation
