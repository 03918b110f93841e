\* 512-byte clusters.  The growth from 776768 entries passes the
\* blocks_used test (776769 <= 1048576) and yields a table of 1165184
\* entries, 9321472 bytes.
CONSTANTS
    CLUSTER_BITS = 9
    REFCOUNT_MAX = 65535
    QCOW_MAX_REFTABLE_SIZE = 8388608
    DISCARD_PASSTHROUGH <- MCDiscardPassthrough
    MAX_RESTARTS = 6
SPECIFICATION Spec
INVARIANTS
    GrowthWithinMaxTable
