\* 512-byte clusters for the growth layout: 256 counters per block and 64
\* entries per table cluster, 22 growths before -EFBIG.  8-byte clusters,
\* 7 of them, for the coalescer: runs of up to 7 adjacent frees in every
\* order.  Three drives (d2 read-only, d3 without a medium) and two
\* snapshot files for the transactions, two actions per transaction.
CONSTANTS
    CLUSTER_BITS = 9
    REFCOUNT_MAX = 65535
    QCOW_MAX_REFTABLE_SIZE = 8388608
    DISCARD_PASSTHROUGH <- MCDiscardPassthrough
    MAX_RESTARTS = 6
    DISCARD_CLUSTER_SIZE = 8
    DISCARD_NB_CLUSTERS = 7
    d1 = d1  d2 = d2  d3 = d3  f1 = f1  f2 = f2  NONE = NONE
    Devices = {d1, d2, d3}
    Files = {f1, f2}
    MAX_LIST = 2
    NoMedium = {d3}
    InUse = {}
    ReadOnly = {d2}
SPECIFICATION PartsSpec
INVARIANTS
    GrowthInBounds
    GrowthSelfDescribing
    QueueCoversFreed
    QueueCoalesced
    NoLeakedBds
PROPERTY
    GroupSnapshotRefined
