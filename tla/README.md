# Model checking the qcow2 refcount engine, the virtio-blk request path and VFIO device assignment

TLA+ models of two parts of this tree, with the TLC configurations that
check them:

- `src/block/qcow2-refcount.c`, the cluster refcount and allocation
  engine of the qcow2 image format;
- `src/hw/block/virtio-blk.c`, the virtio block device's request path,
  together with the monitor commands of `src/blockdev.c` that drain the
  block layer and change the drive under the device (`block_resize`,
  `drive_del`) and the error policies they set, and the group snapshot
  of `blockdev.c` (`qmp_transaction`, `blockdev-snapshot-sync`);
- `src/hw/misc/vfio.c`, the interrupt paths of an assigned PCI device:
  INTx with QEMU's eventfd handler, the KVM bypass, the BAR mmap timer,
  rerouting and the fall-back from MSI and MSI-X; the MSI-X vectors with
  their KVM routes, mask handling and PBA emulation; and reset; and the
  host-side bookkeeping of assignment: IOMMU groups, containers and
  their DMA mappings of guest RAM, the balloon inhibit, the KVM VFIO
  device, and the system reset of the assigned devices with bus hot
  resets.

The two meet only through the block layer, which neither model looks
into: virtio-blk sees a backend that answers each request with success
or an errno. VFIO shares nothing with either. The other sources (gluster, SPICE and others) are
listed in `PROJECT.json` as not modelled.

## The system

A qcow2 image is made of clusters of `2^cluster_bits` bytes. Every
cluster has a 16-bit reference count, stored in two levels:

- The **refcount table** (`s->refcount_table`, `_size`, `_offset`) holds
  the byte offsets of refcount blocks. 0 means the block does not exist.
- A **refcount block** holds `refcount_block_size = cluster_size / 2`
  counters. Blocks are read and written through the refcount block cache.

The components and how they interact:

| Component | Code | What it does |
|---|---|---|
| Table and block access | `get_refcount`, `load_refcount_block`, first half of `alloc_refcount_block` | Reads a count. Creates a missing block: either it describes itself, or its own count comes from a nested `update_refcount`. The new block is then hooked into the table and `-EAGAIN` is returned. |
| Table growth | second half of `alloc_refcount_block` | Sizes a new table with a fixpoint. Places the new blocks and table after every cluster in use. Writes the blocks, then the table, then the header. Switches to the new table, frees the old one and returns `-EAGAIN`. |
| Cluster allocator | `update_refcount`, `alloc_clusters_noref`, `qcow2_alloc_clusters`, `qcow2_alloc_clusters_at`, `qcow2_alloc_bytes`, `qcow2_update_cluster_refcount`, `qcow2_free_clusters` | Adds ±1 over a range. A failure part-way undoes the processed prefix. The allocation calls retry on `-EAGAIN`. `alloc_bytes` packs compressed pieces into a partly used cluster remembered in `s->free_byte_offset`. |
| Discard coalescer | `update_refcount_discard`, `qcow2_process_discards` | Queues the byte ranges whose count drops to 0 as maximal regions. Drains the queue at the end of each update, or before an allocation while `cache_discards` is set. |
| Snapshot refcount update | `qcow2_update_snapshot_refcount`, `qcow2_free_any_clusters` | Walks an L1 table and its L2 tables through the L2 cache, adjusts every count by the addend (+1 on snapshot creation, -1 on deletion, 0 to only recompute), rewrites each entry's COPIED bit to `refcount == 1`, and writes the L1 table back when the addend is not negative. `cache_discards` is set for the walk. |
| Checker and rebuild | `qcow2_check_refcounts`, `calculate_refcounts`, `compare_refcounts`, `check_oflag_copied`, `rebuild_refcount_structure` | Recomputes the counts from the metadata, reports leaks and corruptions, repairs leaks, and checks (and repairs) the COPIED bits. The rebuild is not modelled. |
| Overlap guard | `qcow2_check_metadata_overlap`, `qcow2_pre_write_overlap_check` | Refuses a write whose clusters hold metadata: the header, the L1 and refcount tables, the snapshots' L1 tables, the L2 tables of the image and of the snapshots, the refcount blocks. |

The engine runs under the qcow2 driver's lock. No operation yields in
the middle of an update. So each public call is one atomic step, and
the hard behaviours are inside the call:

- nested calls between `update_refcount` and `alloc_refcount_block`;
- `-EAGAIN` restarts;
- undo on partial failure;
- I/O failures at each write or load;
- sequences of calls that leave a stale `free_byte_offset`.

The mapping layer (`qcow2-cluster.c`, `qcow2-snapshot.c`) is not in this
tree. It is the engine's caller: guest writes allocate L2 tables and data
clusters with copy-on-write, and snapshot creation and deletion drive the
snapshot refcount update. `QcowImage` models those callers from the
qcow2 specification and their known call order, and marks them
`spec_modelled` in `PROJECT.json`.

### The virtio-blk request path

The guest places request heads in the avail ring and kicks.
`virtio_blk_handle_output` pops every head and handles it by type:

- reads go to the block layer at once;
- writes are buffered in a `MultiReqBuffer` (32 slots) and sent together
  by `virtio_submit_multiwrite`;
- a flush first submits the buffered writes;
- GET_ID, SCSI commands and unknown types complete at once.

`virtio_blk_sect_range_ok` fails a request that is not aligned or runs
past the disk's current size. The block layer calls back into
`virtio_blk_rw_complete` or `virtio_blk_flush_complete`. On an error,
`bdrv_get_error_action` applies the drive's `rerror`/`werror` policy:

- `report` completes the request with IOERR;
- `ignore` completes it OK;
- `stop` (and `enospc` for ENOSPC) pushes it at the head of `s->rq` and
  asks for a VM stop.

When the VM runs again, the run-state callback `virtio_blk_dma_restart_cb`
schedules `virtio_blk_dma_restart_bh`, which handles every request of
`s->rq` again. `virtio_blk_reset` drains the block layer, then frees
`s->rq`. The monitor's `block_resize` and `drive_del` drain the block
layer, then truncate, or close the image and set both policies to
`report`.

Everything runs in the main loop, one handler at a time. The hard part
is the order of those handlers: completions, bottom halves, run-state
changes and monitor commands. `bdrv_drain_all` runs completions and
bottom halves in the middle of the handler that calls it.

### Group snapshots in blockdev.c

`qmp_transaction` takes a list of `blockdev-snapshot-sync` actions and
runs them in two phases. The prepare loop (`qmp_transaction`, lines
1124-1144) runs each action's `external_snapshot_prepare`: it checks the
drive (a medium, not in use, flushable when writable), creates the
snapshot image and opens it. Each action's state is queued before its
prepare runs, and the first failure jumps to `delete_and_fail`, which
aborts every queued action (closing the image it opened) and commits
none. If all prepares succeed, every action commits: the new image is
put in front of the drive's chain with `bdrv_append`. The single
`blockdev-snapshot-sync` command is a transaction of one action.

### The VFIO INTx path

An assigned device's INTx is a level interrupt that the host cannot
leave asserted. The host's vfio-pci driver masks the line when it fires
and signals the INTx eventfd. Someone must end the interrupt and unmask:

- Without the KVM bypass, `vfio_intx_interrupt` reads the eventfd, sets
  `intx.pending`, raises the guest's pin and turns the BAR mmaps off.
  The guest's handler then reads or writes a BAR; the access traps into
  `vfio_region_read`/`vfio_region_write`, and `vfio_eoi` clears
  `pending`, drops the pin and unmasks. The timer `vfio_intx_mmap_enable`
  turns the mmaps back on once nothing is pending.
- With the bypass (`vfio_enable_intx_kvm`), a KVM irqfd consumes the
  eventfd and asserts the guest's GSI. The guest's EOI makes KVM signal
  the resample eventfd, which VFIO takes as an unmask.

The guest reroutes the pin (`vfio_update_irq` moves the bypass to the
new GSI), enables MSI (`vfio_enable_msi` disables INTx) and disables it
(`vfio_disable_msi_common` enables INTx), and resets the device
(`vfio_pci_reset`). Each of these runs in the main loop as one handler.
The host, KVM and the guest run concurrently with it.

### The VFIO MSI-X path

When the guest enables MSI-X, `vfio_enable_msix` enables the host's
index with one vector and registers `vfio_msix_vector_use` and
`_release` with QEMU's MSI-X emulation (`hw/pci/msix.c`), which calls
them when the guest unmasks or masks a vector. Using a vector installs
QEMU's handler on its eventfd, adds a KVM MSI route and irqfd when the
guest has programmed a message, and points the host's trigger at KVM's
eventfd (messages bypass QEMU) or QEMU's (messages go through
`vfio_msi_interrupt` and `msix_notify`, which honour the mask and set
the pending bit). A vector beyond the host's count makes
`vfio_msix_vector_do_use` disable the index and enable it again with
`nr + 1` vectors, each on the eventfd `vfio_enable_vectors` picks.
Releasing a vector with a KVM route switches the host back to QEMU's
eventfd, so a masked vector's messages stay pending in the emulation.
While a pending bit is set the PBA is emulated (`pba_on`).

### VFIO groups, containers and reset

Hot-plugging a `vfio-pci` device (`vfio_initfn`) opens its IOMMU group
(`vfio_get_group`) unless QEMU has it open already. The first open group
registers `vfio_reset_handler`. A new group takes a balloon inhibit and
joins the first container of `container_list` the kernel accepts, or a
new container whose memory listener is registered; registering replays
`region_add` for every section of the guest's memory map. The listener
then maps each RAM section's whole pages into the container's IOMMU
(`vfio_listener_region_add`: the start rounded up, the end rounded down,
sections whose page offsets differ skipped, an `EBUSY` answered by unmap
and map) and unmaps them on `region_del`. The group is also added to the
KVM VFIO device. Unplug (`vfio_exitfn`) puts the device and, when its
group has no devices left, the group: the inhibit is dropped, the group
leaves KVM and its container (the last group out closes the container,
and the kernel drops its mappings), and the last group unregisters the
reset handler.

A system reset runs each device's reset callback, `vfio_pci_reset`, in
qdev order, and then the registered reset handlers. The callback tries
the device's own reset (FLR), then a bus hot reset that touches no other
device in use (`vfio_pci_hot_reset_one`), then a PM reset.
`vfio_reset_handler` marks every device whose own reset does not do
(`vfio_pci_compute_needs_reset`) and gives each one still marked a
multi-device hot reset, which quiesces the peers in use and clears their
marks, and does nothing when no peer is in use (the callback's single
reset was enough). A hot reset needs every group on the bus to be QEMU's.

## Modules

- **`DiscardQueue`** has pure operators and no state.
  - `Enqueue` is the whole of `update_refcount_discard`: `FirstTouching` (first loop), append, and `MergePass` (second loop, with `Apart` and `Absorb`).
  - `Covered` is the set of bytes the queue covers.
- **`DiscardCoalescer`** runs the coalescer on its own.
  - `QueueCluster(c)` is `update_refcount` dropping cluster `c` to 0 with discard passthrough.
  - `ProcessDiscards` drains the queue.
  - `freed` is a ghost holding the clusters queued since the last drain.
  - Instantiated, beside `GrowthLayout` and `BlockTransaction`, by `MCBlockParts`.
- **`QcowRefcount`** is the engine, as operators over a record `st` that return `[st, ret]`. `ret` is `-errno` as in C.
  - Fields of `st`:
    - `rt`, `rts`, `rto`: the table, its size and its offset.
    - `fci`, `fbo`: `free_cluster_index` and `free_byte_offset`.
    - `disc`, `cd`: the discard queue and `cache_discards`.
    - `blk`: block contents by block offset.
    - `fault`: the I/O step armed to fail.
  - Each C function is one operator of the same name:
    - `GetRefcount`, `NextRefcountTableSize`, `InSameRefcountBlock` and `AllocClustersNoref`/`NorefScan`.
    - `AllocRefcountBlock` and `GrowRefcountTable`, which use `GrowTableSize`, `MetaOffset`, `NewRefcountTable` and `NewRefcountBlocks`.
    - `UpdateRefcount`, which uses `UpdateLoop` and `Undone`.
    - `UpdateClusterRefcount`, `QAllocClusters`, `QAllocClustersAt`, `QAllocBytes`/`AllocBytesRedo` and `QFreeClusters`.
  - `UpdateRefcount` and `AllocRefcountBlock` are mutually `RECURSIVE`, as in C.
  - The result of `qcow2_update_cluster_refcount` in `alloc_bytes` and the result of freeing the old table are ignored, as in C.
- **`RefcountAllocator`** holds the engine's fields as variables. Its actions are the mapping layer's calls: `AllocClusters`, `AllocClustersAt` (extending a range it holds), `AllocBytes` and `FreeClusters`.
  - `owned` is a ghost bag of the `[off, len]` ranges the caller holds, standing for what its L2 tables would point at.
  - An action may arm one fault site from `FAULTS`:
    - `cache`: loading a block;
    - `l2_flush`, `rb_flush`: the cache flushes;
    - `hookup`: the table entry write;
    - `grow_blocks`, `grow_table`, `header`: the three growth writes.
  - `Init` is a fresh image as `qcow2_create2` writes it: the header in cluster 0, the table in cluster 1 and the first block in cluster 2, each with count 1.
  - Instantiated by `MCRefcountAllocator`.

- **`GrowthLayout`** checks the arithmetic of the table growth at a real cluster size. The engine's operators for it (`BlocksUsed`, `NextRefcountTableSize`, `GrowTableSize`, `BlocksClusters`, `MetaCluster`, `NewBlockCounter`) are shared with `QcowRefcount`.
  - The state is `refcount_table_size` and the layout of the last growth (`grown`). Positions are in clusters, since byte offsets of large images do not fit TLC's integers.
  - `Grow` grows the table for the first cluster past it: `ci` is the first or last cluster of that block, and the new block is just below `ci`, just after it, or a block further. It repeats until `-EFBIG`.
  - Instantiated by `MCBlockParts` (run `block_parts`) and by `MCGrowthLayout` (run `growth_too_large`).
- **`OverlapGuard`** is the overlap guard as operators over the sections of the image, a record from section name to the byte ranges the guard's loops test (`Sections`). `CheckMetadataOverlap` tests the header on the offset, then `SectionHit` tests the other sections in the code's order on the range rounded out to clusters, with `RangesOverlap` for `overlaps_with`. The snapshot table is absent, and the guard's own read does not fail.
- **`SnapshotRefcount`** extends `QcowRefcount` with the mapping tables. `st` gains a field `l2`: the L2 tables' contents by cluster, as the L2 cache presents them. An entry is `[off, copied]`; only normal and unallocated entries occur.
  - `UpdateSnapshotRefcount` is `qcow2_update_snapshot_refcount`: the non-active L1 read (`l1_read` fault), `SnapL1Loop` over the L1 entries (`l2_load` fault at `qcow2_cache_get`), `SnapL2Loop`/`SnapL2Entry` over an L2 table with `EntryRefcount` (the switch on the cluster type) and `WithCopied`, `SnapL1Entry` for the L2 table's own count, `SnapFinish` (`bdrv_flush`, `flush` fault) and `SnapWriteL1` (the `fail:` label: `cache_discards` off, discards drained, the L1 write with the `l1_write` fault).
  - `QFreeAnyClusters` is `qcow2_free_any_clusters` for normal entries.
- **`RefcountCheck`** is `qcow2_check_refcounts` as operators returning `[st, l1, res, ret]`. `res` is the `BdrvCheckResult`.
  - `CalculateRefcounts` builds the computed table: `IncRefcounts`, `CheckRefcountsL1`/`CheckL1Loop`, `CheckRefcountsL2`, and `RefblocksLoop` (`check_refblocks`).
  - `CompareLoop`/`CompareCluster`/`CompareFixed` are `compare_refcounts`. A leak is repaired with `update_refcount(FixAddend)` when fixing.
  - `CheckOflagCopied` and the `Oflag*` loops are `check_oflag_copied`, with its repair only when no error is left.
  - `CheckFix` is the `BDRV_FIX_LEAKS` branch: compare again with the fix, then the COPIED check.
- **`QcowImage`** composes the engine with the mapping tables. The variables are the engine's fields plus `l1_table`, `l2_tables`, `snapshots` (a sequence of `[off, l1]`) and the ghost `content` (one bit per data cluster that each write flips).
  - `GuestWrite` writes one guest cluster: `GetClusterTable` (in place if the L1 entry is COPIED, else `L2Allocated` copies the table into a new cluster and frees the old one), then `WriteData` (in place if COPIED, else `DataAllocated` allocates a cluster, links it with COPIED and frees the old one with `QFreeAnyClusters`).
  - `SnapshotCreate` allocates the snapshot's L1 copy, writes it, runs the +1 walk over the active table and adds the snapshot (`snapshots` write fault).
  - `SnapshotDelete` removes the snapshot from the list, runs the -1 walk over its L1 table (read from disk), frees that L1 table and runs the 0 walk over the active table.
  - `CheckRepair` is `qemu-img check -r leaks`.
  - `Roles` lists each metadata section's clusters from the image state, as the reference for the overlap guard.
  - A call's result is committed whether it failed or not: the state after a failed call is what the code leaves behind. One fault site may fail once per behaviour.
  - Instantiated by `MCQcowImage`.
  - `Disk` instantiates `VirtualDisk` with the refinement mapping: `disk` is `GuestView` of the active L1 table, and `snaps[k]` is `GuestView` of snapshot k's L1 table, over the same L2 tables and `content`.
- **`VirtioBlk`** is the virtio-blk device with its drive, the VM run
  state and the guest as environment. `MCVirtioBlk` instantiates it with
  two request heads and eight descriptors.
  - State: the avail ring `vq`, each head's descriptor `desc`, the
    requests in the block layer `inflight`, `s->rq` as `rq` (head first),
    the used ring `used`, `s->bh` as `bh` (`"deleted"` only in a mutant),
    `running`, a pending `stop_req`, the draining handler `op`, the disk
    size `total`, `medium`, and the policies `rerror` and `werror`.
  - A handler's loop is an operator over a record `Dev` folded over the
    requests with `FoldLeft`: `HandleRequest` dispatches to `HandleFlush`,
    `HandleWrite`, `HandleRead`, `HandleScsi` or completes at once, and
    `OutputPass` and `RestartPass` are the two loops followed by
    `SubmitMultiwrite`. The record also holds the order requests went
    down (`issued`) and whether the restart loop read a freed request.
  - Actions: `HandleOutput`, `Complete(r, err)` (completions with
    `RwComplete`), `RestartBh`, `ProcessStopRequest` and `UserStop`
    (`vm_stop`), `Cont` (`vm_start`), and `Reset`, `BlockResize(n)` and
    `DriveDel`. Each handler that drains is a first step that sets `op`,
    and a `...Done` step guarded by `Drained` once nothing is in flight.
    Completions and `RestartBh` may run between the two, as
    `bdrv_drain_all` runs them. The guest's actions are `GuestSubmit`
    and `GuestReap`.
  - Ghosts: `epoch` counts resets, `popped_in` records the epoch in
    which each head was popped, and `uaf` records a read of a freed
    request.
  - The backend's answers (`Outcomes`) are success, EIO or ENOSPC, at
    most `MAX_ERRORS` failures per behaviour. Without a medium, reads
    and writes fail with ENOMEDIUM and a flush succeeds. A multiwrite
    fails synchronously only without a medium.
- **`GroupSnapshot`** is the abstract specification of a group
  snapshot: the backing chain of each drive (`chain`, newest image
  first) and the last request (`request`, a ghost). A step takes a
  request (distinct files, at most `MAX_LIST` entries) and either puts
  every file in front of its drive's chain (`FoldLeft` of `Pivot`) or
  changes nothing. It models no code and is not in the map.
- **`BlockTransaction`** is `qmp_transaction` and
  `qmp_blockdev_snapshot_sync` of `src/blockdev.c`.
  - State: `chain` (what `bdrv_append` leaves as each drive's chain),
    `loose` (a ghost: images opened and not yet attached or closed),
    `request` (a ghost: the list the command was given).
  - `SnapshotPrepare(e, o)` is `external_snapshot_prepare` with the
    step's outcome `o` from `Outcomes`: `format` (an unknown format or
    a failed image create), `flush` (the flush of a writable drive),
    `open` (the open of the new image, which has been allocated: its
    failure leaves `new` set, as `states->new_bs` is), or `ok`. The
    drive sets `NoMedium`, `InUse` and `ReadOnly` give the checks that
    depend on the drive.
  - `PrepareLoop` is the prepare loop: a state is queued before its
    prepare runs, the images opened are recorded in `alloc`, and the
    first failure stops the loop. `QmpTransaction` then commits every
    state (`SnapshotCommit`) or aborts every state (`SnapshotAbort`), as
    `delete_and_fail` does. `Transaction` and `BlockdevSnapshotSync` are
    the two monitor commands.
  - The functions of `block.c` it calls (`bdrv_img_create`,
    `bdrv_open`, `bdrv_append`, `bdrv_delete`) are modelled by their
    effect on the chain and on the open images. A failure of the reopen
    after the commit is not modelled; the image create and the format
    lookup fail the same way and are one outcome. `InUse` is empty in
    the run: an attached device does not change the control flow.
  - `Abstract` instantiates `GroupSnapshot` with the identity mapping;
    `GroupSnapshotRefined` is its `Spec` as a property.
- **`MCBlockParts`** runs `GrowthLayout`, `DiscardCoalescer` and
  `BlockTransaction` in one run. The three share no variable, so a
  behaviour of the product is an interleaving of behaviours of each;
  `PartsNext` lets one part move only while the others after it in the
  list are still at `Init` (the growth and the coalescer only while the
  transaction is idle, the transaction only while both are idle).
  Every state of each part is still reached, and each property is about
  one part, so the reduction loses nothing.
- **`VfioIrq`** is the INTx and MSI-X paths. Its cfg gives the constants directly.
  - State: one record `st` with `vdev->interrupt` (`mode`), the fields
    of `VFIOINTx` (`pending`, `kvm_accel`, `route`, the mmap `timer`) and
    what the ioctls set up in QEMU, the host and KVM: QEMU's fd
    `handler`, the KVM `irqfd` and its GSI, the `unmaskfd`, the VFIO
    `trigger`, the host's `masked`, a signalled eventfd `efd`, an
    asserted `gsi`; and for MSI-X the host's vector count `hostn`
    (`nr_vectors` is `nrv`), the pending bits `pba`, `pba_on`, and per
    vector (`VFIOMSIVector`) `use`, `virq`, QEMU's `handler`, the host's
    `trig` (none, qemu or kvm) and the signalled eventfds `qfd`, `kfd`.
    Beside it are the device's `line`, the guest's `router`, the MSI
    enable bit `msi_on`, QEMU's MSI-X emulation `core` (enabled, per
    vector mask, pending), the device's messages `msg` (raised, and
    dropped by the host), and a count of `changes`.
  - Each function of `vfio.c` is an operator over `st`, composed as the
    code calls them: `EnableIntx` calls `DisableIntx` and `EnableIntxKvm`,
    `DisableInterrupts` calls `DisableMsiCommon` and `EnableIntx`,
    `UpdateIrq` calls `DisableIntxKvm`, `EnableIntxKvm` and `Eoi`,
    `MsixVectorDoUse` calls `AddKvmMsiVirq`, `EnableVectors` or
    `SetVectorTrigger`, `EnableMsix` calls `DisableInterrupts` and uses
    every unmasked vector (`UseUnmasked`, as `msix_set_vector_notifiers`).
  - QEMU's actions: `IntxHandler`, `MmapTimer`, `GuestBarAccess`
    (trapped or not, as the mmaps say), `GuestReroute`,
    `GuestToggleMsi`, `GuestToggleMsix`, `MsiInterrupt`,
    `GuestMaskVector`, `GuestUnmaskVector` and `Reset`. The
    environment's: `DeviceAssert`, `HostInterrupt`, `KvmInject`,
    `GuestEoi`, `DeviceMsix` and `KvmMsiInject`.
  - The guest never has MSI and MSI-X on together, as the PCI spec
    requires; `vfio_pci_write_config` does not enforce it (see the
    hazards).
  - Abstracted: the failures of `event_notifier_init` and of setting the
    INTx trigger and of the MSI-X ioctls; the MSI vectors (MSI is on or
    off, its set-up succeeds or fails); message contents (a vector has a
    programmed message or not); the three failure exits of `vfio_enable_intx_kvm` are one
    outcome, as they end in the same state.
- **`VfioContainer`** is the groups, containers and reset;
  **`MCVfioContainer`** gives it four devices, two groups and two buses
  (below) and five memory sections.
  - State: one record `st` with QEMU's `group_list` (`glist`), each
    group's `container` (`gcont`) and `device_list` (`devlist`),
    `container_list` (`clist`) with each container's groups (`cgroups`)
    and the pages its IOMMU maps (`iommu`), the balloon inhibit count,
    whether the reset handler is registered (`reset_reg`), the KVM VFIO
    device and its groups, the devices quiesced by `vfio_pci_pre_reset`,
    and `needs_reset`. Ghosts: the devices reset and the hot resets of
    each bus in the current system reset, and whether a hot reset hit a
    device in use that was not quiesced (`stray`). Beside `st` are the
    guest's memory map `ram` (any set of non-overlapping sections) and
    the reset's `phase` and pending callbacks `todo`.
  - Each function is an operator over `st`, composed as the code calls
    them: `GetGroup` calls `ConnectContainer` (which calls
    `ListenerRegister`, a fold of `ListenerRegionAdd`) and
    `KvmDeviceAddGroup`; `PutGroup` calls `KvmDeviceDelGroup` and
    `DisconnectContainer`; `PciReset` calls `PciHotReset`, which calls
    the recursive loops `HotResetVerify` and `HotResetOut` and
    `BusHotReset`; `VfioResetHandler` folds `PciComputeNeedsReset` and
    then `PciHotReset` over the device walk.
  - Actions: `Initfn(d, join, ok)` (the group joins container `join` or
    a new one, and the rest of the set-up succeeds or fails),
    `Exitfn(d)`, `RegionAdd(sec)` and `RegionDel(sec)` (each
    container's listener in `container_list` order), `SystemReset`,
    `DeviceReset(d)` in any order, and `ResetHandler`.
  - Abstracted: which container the kernel accepts is a free choice; a
    failure of opening the group or the container leaves no state (every
    such exit undoes its steps) and is a stutter; a failure after the
    group is got puts the group; a DMA mapping failure (`hw_error` at
    run time) is not modelled; the kernel's hot reset info and reset
    ioctls succeed; pages stand for guest RAM, so `iommu` is a set of
    page numbers.
- **`VirtualDisk`** is the abstract specification of what the image promises the guest. `disk` maps each guest cluster to a bit. `snaps` is the sequence of snapshot disks. `Write(g)` flips one bit, `CreateSnapshot` appends a copy of `disk` (at most `MAX_SNAPSHOTS`), and `DeleteSnapshot(k)` removes one. It models no code: it is the contract `QcowImage` is checked against.

## Properties

- `RefcountsExact` (no faults): every stored count equals the references
  the caller holds plus the fixed roles. The fixed roles are the header,
  the table's clusters and every block the table points at.
- `NoUnderCount` (with faults): the stored count is never below that sum.
  A leak is allowed, as the error paths promise.
- `NoDoubleAllocation`: ranges handed out never share a byte, and no
  cluster holds two roles.
- `QueueCoversFreed` and `QueueCoalesced`: the discard queue holds
  exactly the freed bytes as non-touching regions. This is what the two
  `assert()`s of `update_refcount_discard` rely on.
- `TypeOK`. In `QcowImage` it also says the discard queue is empty
  between calls: every exit of the snapshot walk drains it. In
  `VirtioBlk` it says `s->bh` is NULL or a scheduled bottom half, never
  a deleted one.
- `Consistent` (image, no faults): `qcow2_check_refcounts` in report-only
  mode finds no leak, corruption or error after any sequence of writes,
  snapshot creations and deletions and repairs. This covers counts over
  all L1 tables and every COPIED bit.
- `DiskRefinement` (image, with and without faults): the image implements
  `VirtualDisk`, the abstract disk with snapshots. The mapping takes the
  active L1 table, and each snapshot's, to what the guest reads through
  it. Every call is then one write of one guest cluster, a copy of the
  whole disk appended as a snapshot, a deletion of one snapshot, or no
  visible change (a failed call, a repair). So a snapshot keeps showing
  what the guest saw when it was taken. A COPIED bit left on a shared
  cluster breaks it through an in-place write, as does a failure that
  leaves half a step visible.
- `StoredNotBelowComputed` (image, with faults): no stored count is below
  the count the checker computes. A failed call may only leak.
- `CopiedImpliesExclusive` (with faults): an entry with COPIED set points
  at a cluster whose count is 1, so an in-place write never touches a
  shared cluster.
- `OverlapGuardExact` (with faults): the guard flags a write exactly when
  one of its clusters holds a section that is checked and not ignored,
  and names the first such section. It is checked against `Roles` for
  writes of a whole cluster, of a cluster's last byte, and of a cluster's
  size from there, with nothing ignored or the active L2 tables ignored.
- `GuestDataClear` (with faults): no cluster mapped as guest data is one
  the guard takes for metadata, so a guest write is never refused.
- `GrowthInBounds`: each growth copies the old table, sets
  `new_table[refcount_table_index]` and `new_table[blocks_used + i]`
  within `table_size` entries, and sets no more counters in `new_blocks`
  than `blocks_clusters` blocks hold.
- `GrowthSelfDescribing`: the new metadata starts past `ci`, the new
  block and everything the old blocks describe. Its first and last
  clusters have a counter of 1 in a block the new table points at, and
  the cluster after it has none.
- `GrowthWithinMaxTable` (violation run): a successful growth never makes
  a table larger than `QCOW_MAX_REFTABLE_SIZE`.
- `RepairRestores` (with faults): from any reachable state, the
  fix-leaks check leaves an image on which a report-only check is clean.

For virtio-blk:

- `RequestOwnedOnce`: every head is in at most one of the avail ring,
  the block layer, `s->rq` and the used ring, once. A completion that
  both stops or reports a request and completes it would break it.
- `ResetQuiesces`: every request in flight, stopped or completed was
  popped after the last reset. The reset must drain before it frees
  `s->rq`, since the drain can stop more requests.
- `FlushAfterWrites`: the next pass over the ring sends a flush down
  only after every write the guest made available before it that goes
  down. The restart over `s->rq` is not constrained: the requests on
  it were outstanding together, and `s->rq` holds them newest first.
- `StoppedRequestsResumable`: while `s->rq` is not empty, the VM is
  stopped, a stop is pending, a drain is running, or the restart bottom
  half is scheduled.
- `RequestsSettle` (liveness): if the VM runs infinitely often, every
  request in the block layer or on `s->rq` eventually leaves both.
- `NoLeakedBds` (transaction): after every command, each image opened
  by a prepare has been attached by a commit or closed by an abort,
  whichever step failed.
- `GroupSnapshotRefined` (transaction): the chains change all or
  nothing: a command either puts every requested image in front of its
  drive or leaves every chain as it was. This refines `GroupSnapshot`.
- `NoUseAfterFree` (violation run): the restart loop never reads a
  request it freed.

- `EoiObservable`: in INTx mode without the bypass, while an interrupt
  is pending the BAR mmaps are off, so the guest's servicing access
  traps and ends it.
- `DeliveryPath`: in INTx mode the eventfd has exactly one consumer:
  QEMU's handler, or a KVM irqfd on the current route with the unmask
  eventfd set and nothing pending in QEMU. Out of INTx mode neither.
- `NoStrandedMask`: in INTx mode the host's mask is held only while an
  interrupt is on its way to an end that unmasks it.
- `MaskReleased` (liveness): in INTx mode with the pin routed, the
  host's mask is eventually released.
- `MaskRespected`: in MSI-X mode no vector the guest has masked has the
  host's trigger on KVM's eventfd, so KVM never delivers around the mask.
- `NoLostMessage`: the host never drops a message of a vector the guest
  has unmasked: every used vector lies within the host's count.
- `MsixDelivered` (liveness): a message raised on a vector that is
  unmasked is eventually delivered, or the vector is masked (and the
  message kept pending).
- `DmaCoherent`: every container QEMU holds maps exactly the whole
  pages of the guest's RAM sections whose page offsets agree, whatever
  the order of plugs, unplugs and memory map changes. It is checked
  against `RamPages`, an independent definition of those pages.
- `BalloonInhibited`: the inhibit count never goes negative, and it is
  positive while any container maps a page.
- `GroupsAccounted`: a group is open exactly while it has devices, and
  then sits in a live container that lists it; no container is left
  without groups; the reset handler is registered exactly while a group
  is open; KVM's VFIO device holds no closed group.
- `ResetOnce`: no bus is hot reset twice in one system reset.
- `BusResetQuiesced`: a hot reset never hits a device in use that QEMU
  has not quiesced.
- `EveryDeviceReset` (action property): when the reset handler has run,
  every device assigned when the system reset began has been reset,
  unless it has no reset of its own and a group on its bus is not
  QEMU's.

Each property of a passing run has a mutant in `PROJECT.json`. A mutant
replaces a mapped definition with a plausible bug, and TLC finds the
property violated:

- the undo dropped;
- the growth area one block low;
- the new table one entry long;
- the error of `update_refcount` ignored;
- `free_byte_offset` not reset when its cluster fills;
- abutting regions not merged;
- the merged region keeping the wrong offset;
- the addend test of the walk's switch inverted;
- the COPIED bit only ever set, never cleared;
- the discard queue not drained at the walk's `fail:` label;
- an L2 table that cannot be loaded skipped instead of failing the walk;
- the leak repair adding the difference with the wrong sign;
- `next_refcount_table_size` without its `+ 1`;
- the guard's size rounded up without the offset into the cluster;
- `ranges_overlap` counting ranges that only touch;
- `l2_allocate` starting the new L2 table empty instead of copying the old one;
- a reported I/O error falling through to an OK completion;
- a drain skipped;
- a flush sent without submitting the buffered writes;
- the restart scheduled on the transition to stopped instead of running;
- `s->bh` deleted but not cleared, so the restart is never scheduled again (for `RequestsSettle` and for `TypeOK`);
- the mmap timer enabling the mmaps without checking `intx.pending`;
- `vfio_disable_intx_kvm` without its final unmask;
- `vfio_update_irq` storing the new route before taking the bypass down;
- `vfio_enable_intx_kvm` never setting the resample eventfd as the unmask trigger.
- `vfio_msix_vector_do_use` growing the host's vectors only when `nr_vectors < nr`;
- `vfio_msix_vector_do_use` installing QEMU's handler only on a vector's first use;
- `vfio_msix_vector_release` leaving the host's trigger on KVM's eventfd;
- region_add rounding the end of a section up;
- only a new container taking the balloon inhibit;
- `vfio_put_group` not removing the group from the KVM VFIO device;
- `vfio_reset_handler` computing each device's mark just before its own multi reset;
- `vfio_pci_hot_reset` not quiescing a peer in use;
- `vfio_pci_compute_needs_reset` not marking a device without `VFIO_DEVICE_FLAGS_RESET`.
- the prepare loop queueing an action only after its prepare succeeds, so the image of a failed open is never closed;
- `delete_and_fail` committing the actions that prepared before the failing one.

## Runs

| Run | Config | Expect | Shows |
|---|---|---|---|
| refcount_exact | `RefcountExact.cfg` | pass | Without I/O errors, counts stay exact under whole-cluster allocations, allocations at an offset, compressed pieces of 5 and 11 bytes (some spanning two clusters) and frees. This covers block bootstrap, hook-up restarts, table growth and the freeing of the old table. |
| refcount_faults | `RefcountFaults.cfg` | pass | With any one of the seven I/O steps failing once, no count is ever too low and nothing is handed out twice. All seven sites are reached. |
| image_consistent | `ImageConsistent.cfg` | pass | Without I/O failures, writes with copy-on-write, two snapshots created and deleted in any order, and the leak repair keep the checker's report clean, and the image refines `VirtualDisk`. |
| image_faults | `ImageFaults.cfg` | pass | With one failure at any of nine I/O sites, a failed call leaves only leaks: no count below its references, no COPIED bit on a shared cluster, the fix-leaks check always restores a clean image, and the image still refines `VirtualDisk`. In every such image the overlap guard is exact against the metadata roles and never flags guest data. |
| block_parts | `BlockParts.cfg` | pass | `MCBlockParts` runs three parts that share no state one after another: the growth layout, the discard coalescer and the snapshot transaction. With 512-byte clusters, all 22 growths from a one-cluster table up to `-EFBIG` write in bounds and lay out metadata that describes exactly itself. The queue is exact and coalesced for any order of frees and drains over 7 clusters. A `transaction` or `blockdev-snapshot-sync` over three drives, with any step failing, leaves no image opened and not attached, and changes the backing chains all-or-nothing: it refines `GroupSnapshot`. 52417 distinct states. |
| growth_too_large | `GrowthTooLarge.cfg` | violation | Growing a 776768-entry table (an image of about 100 GB) yields 1165184 entries, 9321472 bytes, past the 8 MiB limit. |
| bytes_stale | `BytesStale.cfg` | violation | `free_byte_offset` is stale after its cluster is freed and reused, and `alloc_bytes` returns bytes of a data cluster. |
| bytes_fault | `BytesFault.cfg` | violation | `alloc_bytes` returns a piece whose refcount increment failed. |
| virtio_blk | `VirtioBlk.cfg` | pass | Guest requests, completions with errors under the `rerror` stop and ignore policies and `werror=enospc`, vm stop and cont, reset, `block_resize` and `drive_del` interleave without a request owned twice, surviving a reset, overtaking a flush, or stranded on `s->rq`; and under the main loop's fairness every request in flight or stopped is eventually completed or dropped, if the VM keeps running. 962664 distinct states. |
| virtio_blk_uaf | `VirtioBlkUaf.cfg` | violation | The restart bottom half reads `req->next` from a request it has just completed and freed. |
| vfio_irq | `VfioIrq.cfg` | pass | Host interrupts, QEMU's handler, the KVM irqfd, the mmap timer, guest BAR accesses and EOIs interleave with up to four reroutes, MSI toggles and resets (each KVM set-up and MSI set-up succeeding or failing) without an interrupt pending behind enabled mmaps, two consumers of the eventfd, or a stranded mask; with MSI-X toggles and vector masks and unmasks, no masked vector on KVM's eventfd and no dropped message; the INTx mask is always released and every MSI-X message on an unmasked vector delivered. 31224 distinct states. |
| vfio_container | `VfioContainer.cfg` | pass | Plugs and unplugs of four devices in two groups, changes of the memory map and system resets keep every container's mappings equal to guest RAM, the balloon inhibited while anything is mapped, QEMU's and KVM's group lists in agreement, each bus hot reset at most once per system reset and only on quiesced devices, and every resettable device reset. 44028 distinct states. |

### Bounds, and why they are enough

- `CLUSTER_BITS = 4`: 16-byte clusters, 8 counters per block, 2 table
  entries per table cluster. These are the format's ratios at the
  smallest size where each path is reachable:
  - a block describing itself;
  - a block described by another block (one level of nesting);
  - hook-up into a free table slot;
  - table growth, once allocation passes cluster 15.
  
  With `CLUSTER_BITS = 3` the hook-up path never occurs.
- `MAX_CLUSTERS = 32` leaves room for one growth.
- `MAX_OWNED = 2` live ranges, and `ALLOC_SIZES` of 1 and 2 clusters
  (1 and 8 in the faults run, to reach growth quickly). Two ranges and
  two-cluster requests are enough to have an update span two blocks,
  which is the undo case.
- `MAX_CALLS` is a state constraint on behaviour length: 18 calls for
  the exact run, 12 with faults.
- `MAX_FAULTS = 1` injected failure per behaviour.
- `MAX_RESTARTS = 6` `-EAGAIN` retries per call. Exceeding it is an
  `Assert` failure, and it never happens.

For the growth runs, `CLUSTER_BITS = 9` is the smallest cluster size the
format allows. It gives the most growths before `-EFBIG`, so it covers
the most table sizes. Every growth of the image up to the limit is
checked, not a sample of them.

For the image runs:

- `L1_SIZE = 1` and `CLUSTER_BITS = 4` give one L2 table of 2 entries, so
  2 guest clusters. That is the least that makes one L2 table shared by
  a snapshot while one of its data clusters is copied on write.
- `MAX_CLUSTERS = 16` and `MAX_SNAPSHOTS = 2`: two snapshots sharing a
  table with the image give counts of 3, and the second refcount block
  comes into use.
- `MAX_CALLS` is 10 without faults and 6 with faults.
- `OVERLAP_CHECK` is every section (`overlap-check=all`), so that each test of the guard runs.
- Fault sites: the engine's `cache`, `l2_flush`, `rb_flush` and
  `hookup`, and `l2_load`, `flush`, `l1_write`, `l1_read` and
  `snapshots` of the walk and its callers.
- Limitation: the fault is consumed by the first access to its site
  in a call. In `SnapshotCreate` the first block-cache access is the
  allocation of the L1 copy, so a `cache` failure inside the +1 walk
  is not reached with `MAX_FAULTS = 1`. `l2_load`, `flush` and
  `l1_write` do fail inside the walk.

Reaching each case was confirmed by running invariants that fail when a
state of that kind exists: growth, nesting, every fault site and pieces
spanning two clusters.

For the snapshot transaction (in `block_parts`):

- Three drives: `d1` writable, `d2` read-only (no flush), `d3` without
  a medium, so that each check of `external_snapshot_prepare` can pass
  and fail. Two image files and `MAX_LIST = 2` actions per command: two
  actions are the least for one to be prepared when another fails, which
  is what the abort and the all-or-nothing property are about. Each
  step's outcome ranges over all of `Outcomes`.
- The transaction has no fairness: every command is the user's to give.

For virtio-blk:

- Two request heads (`r1`, `r2`, symmetric in the safety run): two is
  the least for one request to be stopped while another is handled, and
  for a flush to follow a write.
- Eight descriptors: a read and two writes of one sector, a write that
  is not aligned, a zero-length write, a flush, GET_ID and a SCSI
  command. Sector 1 fails the range check once the disk shrinks to one
  sector (`DISK_SECTORS = 2`, `block_resize` to 1 or 2) or loses its
  medium.
- `MRB_MAX = 1` slot instead of 32, so that the submit-when-full branch
  of `virtio_blk_handle_write` is taken with two requests.
- `MAX_ERRORS = 1` backend error per behaviour: one stopped request is
  enough to reach the restart with a shrunk disk. `MAX_RESETS = 1`.
- The run starts from `rerror` in {stop, ignore} and `werror=enospc`;
  `report` is reached through `drive_del`. `werror=stop` differs from
  `enospc` only in stopping on EIO as well, a path reads with
  `rerror=stop` already take. The liveness property forbids symmetry
  reduction, so the run has none.
- VFIO: three routes (two GSIs and `OFF`), so that a reroute can move
  the bypass between GSIs and disable the pin; `KVM_RESAMPLE` on, with
  the bypass set-up able to fail, so both the QEMU and the KVM path
  occur; `MAX_CHANGES = 4`, enough for a reroute, an MSI enable and
  disable and a reset in one behaviour. One device pin: the code keeps
  one `VFIOINTx` per device. `NR_ENTRIES = 2` MSI-X vectors: vector 1
  makes the host's count grow past the one vector `vfio_enable_msix`
  enables, and two vectors let one be masked while the other delivers.
- VFIO containers: devices d1 and d3 in group g1, d2 and d4 in g2; d1,
  d2 and d3 on bus b1, d4 alone on b2. d2 has FLR, d3 only a PM reset,
  d1 and d4 no reset of their own. So a hot reset of b1 needs both
  groups, a single reset of d1 succeeds only while d2 and d3 are not in
  use, a multi reset quiesces peers of the other group, and d4's reset
  touches nobody. Two container ids are enough for two groups. Pages of
  4 units; the sections are a page-aligned RAM section, one that starts
  mid-page and ends on a page, an MMIO section over the first, an
  unaligned alias and a section smaller than a page, so every early
  return of region_add occurs. `vfio_dma_map`'s `EBUSY` branch is not
  reached: sections of one map do not overlap, so no two share a whole
  page.

### Fairness

The qcow2 properties are safety properties. The engine's calls are
driven by guest I/O, which the code does not promise will ever come.
Termination of the `-EAGAIN` loop is covered by the `MAX_RESTARTS`
assertion.

`VirtioBlk` assumes what the main loop guarantees, and nothing of the
guest or the monitor:

- weak fairness for each request's completion: the AIO context delivers
  every completion while the loop runs;
- weak fairness for `RestartBh`: a scheduled bottom half runs;
- weak fairness for the end of a drain: `bdrv_drain_all` loops until
  nothing is in flight;
- strong fairness for `ProcessStopRequest`: `main_loop_should_exit` tests
  for a requested stop on every iteration, so monitor commands between
  iterations (which disable it) cannot starve it.

`VfioIrq` assumes weak fairness for the host's interrupt handler,
KVM's irqfd, QEMU's eventfd handler and the mmap timer (each is enabled
until it runs), and for the guest's EOI of an asserted GSI. The guest's
handler, which accesses a BAR while the guest sees the interrupt, is
strongly fair: a reroute can hide the interrupt and show it again. The
device, reroutes, MSI toggles and resets are not bound to happen.
For MSI-X, QEMU's handler of each vector and KVM's injection are weakly
fair (each stays enabled until it runs); the guest's masks and unmasks
are not.

`VfioContainer` has only safety properties and no fairness: plugs,
unplugs, memory map changes and resets are all the user's or the
guest's to make.

`RequestsSettle` is conditional on `[]<>running`: a VM the user keeps
stopped holds its stopped requests, as it should.

## Findings

1. **Stale `free_byte_offset`** (`qcow2_alloc_bytes`, line 761).
   - Trace: a piece is placed at cluster 3 and freed. `qcow2_alloc_clusters` gives cluster 3 to data. The next `alloc_bytes` returns bytes 53–57 inside the data cluster.
   - Nothing resets `free_byte_offset` when its cluster's count drops to 0.
2. **Ignored refcount error** (`qcow2_alloc_bytes`, lines 779/790).
   - The result of `qcow2_update_cluster_refcount` is discarded, so a failed increment still hands out the piece.
3. **Refcount table grown past `QCOW_MAX_REFTABLE_SIZE`** (`alloc_refcount_block`, line 337).
   - The only limit is `blocks_used <= QCOW_MAX_REFTABLE_SIZE / 8`. The size the fixed point picks is not checked.
   - With 512-byte clusters, the growth from 776768 entries produces 1165184 entries (9321472 bytes). The engine's error contract says growth past the maximum table size fails as TooLarge.

4. **Use after free in `virtio_blk_dma_restart_bh`** (`virtio-blk.c`, line 453).
   - The loop calls `virtio_blk_handle_request(req)` and then reads `req->next`. Any path that completes the request synchronously frees it first: the range check, GET_ID, SCSI and unknown types.
   - Trace: a write fails with ENOSPC under `werror=enospc` and is stopped, and the VM stops. `drive_del` closes the image (size 0). On `cont` the bottom half re-handles the write, which fails the range check, is completed with IOERR and freed, and the loop reads its `next` field. A shrinking `block_resize` while stopped does the same.
   - The fix is to read `next` before handling the request.

## Not modelled, and the plan for the next sittings

1. **Cache and disk split with crash/reopen.**
   - The block cache and the L2 cache are to be modelled as entries with dirty bits, flushes and dependencies (`qcow2_cache_set_dependency`), beside on-disk contents.
   - A crash action is to throw the caches away, and a reopen action is to reload from the header.
   - This is what the hook-up order, the header-last growth, the stale dirty entry of an unhooked block, the L1 write after a failed walk and `check_oflag_copied`'s direct L2 I/O need.
2. **Compressed entries** in the L2 tables (`qcow2_free_any_clusters`' compressed case, the walk's compressed branch), and `qcow2_snapshot_goto`, which relies on the walk not re-reading the active L1 table.
3. **Rebuild** (`rebuild_refcount_structure`, `alloc_clusters_imrt`, `BDRV_FIX_ERRORS`), the snapshot table's own clusters, and failures of the checker's own I/O.
4. **The overlap guard's callers**: `qcow2_signal_corruption` and the guard in `check_oflag_copied` and the rebuild, with the snapshot table as a section.
5. **virtio-blk**: dataplane; `virtio_blk_save`/`virtio_blk_load`
   (which reverse the order of `s->rq`); `set_status` and the
   write-cache feature; config space; the `exit(1)` on malformed headers;
   the SCSI status word.
6. **blockdev.c**: drive option parsing in `blockdev_init`, `eject` and
   `change`, I/O throttling settings, the queries, the internal
   snapshot commands, and block jobs (under `CONFIG_LIVE_BLOCK_OPS`).
   Of the snapshot transaction, the failure of the reopen after the
   commit, the image modes (`existing` and the relative paths) and the
   argument lookups (an unknown device) are left out: the device lookup
   fails before anything is allocated, like the format check.
7. **An abstract allocator.** This is a spec of a set of allocated ranges, with `RefcountAllocator` shown to refine it.
8. **VFIO beyond interrupts, containers and reset**: the MSI vectors
   and `vfio_update_msi`, a guest mixing MSI and MSI-X, BAR and ROM
   mapping and quirks, config-space emulation, the error and request
   notifiers, failures of the hot reset ioctls and of DMA mapping at run
   time, and a model composing `VfioIrq`'s reset with
   `VfioContainer`'s.
