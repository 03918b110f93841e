---------------------------- MODULE VfioContainer ----------------------------
(***************************************************************************)
(* The host-side bookkeeping of vfio.c for the devices QEMU assigns: the   *)
(* IOMMU groups QEMU has open (group_list), the containers they are       *)
(* attached to (container_list), the DMA mappings each container's memory *)
(* listener keeps in step with guest RAM, the balloon inhibit, the KVM     *)
(* VFIO pseudo-device, and the system reset of the assigned devices.       *)
(*                                                                         *)
(* The host's devices (Devs) each belong to an IOMMU group and sit on a    *)
(* bus that a hot reset resets as a whole.  Hot-plug and unplug of a       *)
(* vfio-pci device (vfio_initfn, vfio_exitfn), a change of the guest's     *)
(* memory map, and a system reset run in the main loop, each as one step;  *)
(* a system reset is the devices' reset callbacks (vfio_pci_reset) in any  *)
(* order, then vfio_reset_handler, with nothing else in between.           *)
(***************************************************************************)
EXTENDS Naturals, FiniteSets, Sequences, SequencesExt, FiniteSetsExt

CONSTANTS
    Devs,           \* host PCI devices that can be assigned
    Groups,         \* their IOMMU groups
    Buses,          \* the buses a hot reset resets
    Cids,           \* VFIOContainer objects
    NONE,           \* a NULL pointer
    GroupOf,        \* the IOMMU group of each device (sysfs iommu_group)
    BusOf,          \* the bus of each device
    DevOrder,       \* the order VFIO_DEVICE_GET_PCI_HOT_RESET_INFO lists devices
    ResetWorks,     \* devices with VFIO_DEVICE_FLAGS_RESET
    HasFlr,         \* devices with PCIe or AF function-level reset
    HasPmReset,     \* devices whose PM reset resets them (no NoSoftRst)
    KVM_VFIO_DEV,   \* KVM_CREATE_DEVICE of KVM_DEV_TYPE_VFIO succeeds
    PAGE,           \* TARGET_PAGE_SIZE, in address units
    Sections        \* sections the guest's memory map can hold

ASSUME GroupOf \in [Devs -> Groups] /\ BusOf \in [Devs -> Buses]
ASSUME ToSet(DevOrder) = Devs
ASSUME Cardinality(Cids) >= Cardinality(Groups)

VARIABLES
    st,     \* QEMU's lists and what the host kernel and KVM hold for them
    ram,    \* the sections of address_space_memory
    phase,  \* "idle", "devices" (device resets running), "done" (handler ran)
    todo,   \* devices whose reset callback has not run in this system reset
    round   \* ghost: the devices assigned when this system reset began

vars == <<st, ram, phase, todo, round>>

(***************************************************************************)
(* The memory listener: vfio_listener_region_add and _del.                *)
(***************************************************************************)

\* vfio_listener_skipped_section(): only RAM is mapped.
ListenerSkippedSection(sec) == ~sec.ram

\* The page offsets of the section in the address space and in its region
\* differ, so no page of one is a page of the other.
Unaligned(sec) == sec.start % PAGE # sec.roff % PAGE

\* iova = TARGET_PAGE_ALIGN(offset_within_address_space) and
\* end = (offset_within_address_space + size) & TARGET_PAGE_MASK.
Iova(sec) == ((sec.start + PAGE - 1) \div PAGE) * PAGE
\* Mutant: end rounded up, mapping the partial last page.
EndRoundUp(sec) == ((sec.start + sec.size + PAGE - 1) \div PAGE) * PAGE
End(sec) == ((sec.start + sec.size) \div PAGE) * PAGE

\* The pages [iova, end) of a mapping, by page number.
PageRange(iova, end) == iova \div PAGE .. end \div PAGE - 1

\* vfio_dma_unmap(): VFIO_IOMMU_UNMAP_DMA of the range.
DmaUnmap(m, pages) == m \ pages

\* vfio_dma_map(): VFIO_IOMMU_MAP_DMA; when the range is already mapped
\* the kernel answers EBUSY, and the range is unmapped and mapped again.
DmaMap(m, pages) ==
    IF m \cap pages = {} THEN m \cup pages
    ELSE DmaUnmap(m, pages) \cup pages

\* The section's range is mapped or unmapped by region_add and region_del,
\* or it is left alone (skipped, unaligned, or less than a page).
Listened(sec) ==
    ~ListenerSkippedSection(sec) /\ ~Unaligned(sec) /\ Iova(sec) < End(sec)

\* vfio_listener_region_add() for container c.
ListenerRegionAdd(s, c, sec) ==
    IF Listened(sec)
    THEN [s EXCEPT !.iommu[c] = DmaMap(@, PageRange(Iova(sec), End(sec)))]
    ELSE s

\* vfio_listener_region_del() for container c.
ListenerRegionDel(s, c, sec) ==
    IF Listened(sec)
    THEN [s EXCEPT !.iommu[c] = DmaUnmap(@, PageRange(Iova(sec), End(sec)))]
    ELSE s

\* memory_listener_register(): region_add for every section of the map.
ListenerRegister(s, c, secs) ==
    FoldSet(LAMBDA sec, acc : ListenerRegionAdd(acc, c, sec), s, secs)

(***************************************************************************)
(* Groups and containers.                                                  *)
(***************************************************************************)

\* vfio_kvm_device_add_group(): the KVM VFIO device is created on first use.
KvmDeviceAddGroup(s, g) ==
    IF ~s.kvm_fd /\ ~KVM_VFIO_DEV THEN s
    ELSE [s EXCEPT !.kvm_fd = TRUE, !.kvm_groups = @ \cup {g}]

\* vfio_kvm_device_del_group()
KvmDeviceDelGroup(s, g) ==
    IF ~s.kvm_fd THEN s ELSE [s EXCEPT !.kvm_groups = @ \ {g}]

\* Mutant: only a new container inhibits the balloon.
ConnectContainerNewOnly(s, g, join, secs) ==
    IF s.gcont[g] # NONE THEN s
    ELSE LET s1 == IF join = NONE THEN [s EXCEPT !.balloon = @ + 1] ELSE s
             c  == CHOOSE x \in Cids : x \notin ToSet(s.clist)
         IN IF join # NONE
            THEN [s1 EXCEPT !.gcont[g] = join, !.cgroups[join] = @ \cup {g}]
            ELSE [ListenerRegister(s1, c, secs)
                    EXCEPT !.clist = <<c>> \o @, !.cgroups[c] = {g}, !.gcont[g] = c]

\* vfio_connect_container(): the balloon is inhibited, and the group joins
\* container join, one of container_list that VFIO_GROUP_SET_CONTAINER
\* accepts, or, with join = NONE, a new container whose listener replays
\* the memory map.  The failure exits undo every step and leave no state.
ConnectContainer(s, g, join, secs) ==
    IF s.gcont[g] # NONE THEN s
    ELSE LET s1 == [s EXCEPT !.balloon = @ + 1]
             c  == CHOOSE x \in Cids : x \notin ToSet(s.clist)
         IN IF join # NONE
            THEN [s1 EXCEPT !.gcont[g] = join, !.cgroups[join] = @ \cup {g}]
            ELSE [ListenerRegister(s1, c, secs)
                    EXCEPT !.clist = <<c>> \o @, !.cgroups[c] = {g}, !.gcont[g] = c]

\* vfio_disconnect_container(): the last group out closes the container,
\* and with it the kernel drops the container's mappings.
DisconnectContainer(s, g) ==
    LET c  == s.gcont[g]
        s1 == [s EXCEPT !.cgroups[c] = @ \ {g}, !.gcont[g] = NONE]
    IN IF s1.cgroups[c] = {}
       THEN [s1 EXCEPT !.clist = Remove(@, c), !.iommu[c] = {}]
       ELSE s1

\* vfio_get_group() of a group QEMU does not have open yet: the reset
\* handler is registered with the first group, and the group is added to
\* group_list and to the KVM VFIO device.
GetGroup(s, g, join, secs) ==
    IF g \in ToSet(s.glist) THEN s
    ELSE LET s1 == ConnectContainer(s, g, join, secs)
             s2 == IF s.glist = <<>> THEN [s1 EXCEPT !.reset_reg = TRUE] ELSE s1
         IN KvmDeviceAddGroup([s2 EXCEPT !.glist = <<g>> \o @], g)

\* Mutant: the group is not removed from the KVM VFIO device.
PutGroupNoKvmDel(s, g) ==
    IF s.devlist[g] # <<>> THEN s
    ELSE LET s1 == DisconnectContainer([s EXCEPT !.balloon = @ - 1], g)
             s2 == [s1 EXCEPT !.glist = Remove(@, g)]
         IN IF s2.glist = <<>> THEN [s2 EXCEPT !.reset_reg = FALSE] ELSE s2

\* vfio_put_group(): a group without devices is closed.
PutGroup(s, g) ==
    IF s.devlist[g] # <<>> THEN s
    ELSE LET s1 == DisconnectContainer(KvmDeviceDelGroup([s EXCEPT !.balloon = @ - 1], g), g)
             s2 == [s1 EXCEPT !.glist = Remove(@, g)]
         IN IF s2.glist = <<>> THEN [s2 EXCEPT !.reset_reg = FALSE] ELSE s2

\* vfio_get_device() succeeding: the device joins its group's device_list,
\* its VFIOPCIDevice freshly zeroed.
GetDevice(s, g, d) ==
    [s EXCEPT !.devlist[g] = <<d>> \o @, !.needs = @ \ {d}, !.quiesced = @ \ {d}]

\* vfio_put_device()
PutDevice(s, d) == [s EXCEPT !.devlist[GroupOf[d]] = Remove(@, d)]

(***************************************************************************)
(* Reset.  The fields reset, breset and stray of st are ghosts: the        *)
(* devices some reset reached in this system reset, the hot resets of     *)
(* each bus, and whether a hot reset hit an assigned device QEMU had not  *)
(* quiesced.                                                               *)
(***************************************************************************)

\* The devices QEMU has assigned: those on the device_list of a group.
Assigned(s) == UNION {ToSet(s.devlist[g]) : g \in Groups}

\* vfio_pci_pre_reset(): interrupts disabled, the device in D0, and I/O,
\* memory and bus mastering off.
PciPreReset(s, d) == [s EXCEPT !.quiesced = @ \cup {d}]

\* vfio_pci_post_reset(): INTx enabled again.
PciPostReset(s, d) == [s EXCEPT !.quiesced = @ \ {d}]

\* VFIO_DEVICE_RESET of d: its FLR or PM reset.
DeviceResetIoctl(s, d) == [s EXCEPT !.reset = @ \cup {d}]

\* VFIO_DEVICE_PCI_HOT_RESET: every device on bus b is reset.
BusHotReset(s, b) ==
    LET on == {x \in Assigned(s) : BusOf[x] = b}
    IN [s EXCEPT !.breset[b] = @ + 1, !.reset = @ \cup on,
                 !.stray = @ \/ on \ s.quiesced # {}]

\* The devices the hot reset info lists for d, less d itself
\* (vfio_pci_host_match).
Peers(d) == SelectSeq(DevOrder, LAMBDA x : BusOf[x] = BusOf[d] /\ x # d)

\* Mutant: a peer in use is not quiesced before the multi reset.
RECURSIVE HotResetVerifyNoQuiesce(_, _, _, _)
HotResetVerifyNoQuiesce(s, single, xs, multi) ==
    IF xs = <<>>
    THEN [st |-> s, exit |-> IF ~single /\ ~multi THEN "out_single" ELSE "reset"]
    ELSE LET x == Head(xs)
             g == GroupOf[x]
         IN IF g \notin ToSet(s.glist) THEN [st |-> s, exit |-> "out"]
            ELSE IF x \notin ToSet(s.devlist[g]) THEN HotResetVerifyNoQuiesce(s, single, Tail(xs), multi)
            ELSE IF single THEN [st |-> s, exit |-> "out_single"]
            ELSE HotResetVerifyNoQuiesce([s EXCEPT !.needs = @ \ {x}], single, Tail(xs), TRUE)

\* The first loop of vfio_pci_hot_reset(): every peer's group must be
\* open; a peer in use fails a single reset and is quiesced for a multi
\* one.  Returns the state and the label the code goes on at.
RECURSIVE HotResetVerify(_, _, _, _)
HotResetVerify(s, single, xs, multi) ==
    IF xs = <<>>
    THEN [st |-> s, exit |-> IF ~single /\ ~multi THEN "out_single" ELSE "reset"]
    ELSE LET x == Head(xs)
             g == GroupOf[x]
         IN IF g \notin ToSet(s.glist) THEN [st |-> s, exit |-> "out"]
            ELSE IF x \notin ToSet(s.devlist[g]) THEN HotResetVerify(s, single, Tail(xs), multi)
            ELSE IF single THEN [st |-> s, exit |-> "out_single"]
            ELSE HotResetVerify([PciPreReset(s, x) EXCEPT !.needs = @ \ {x}],
                                single, Tail(xs), TRUE)

\* The loop at out: the peers in use get INTx back, up to the first peer
\* whose group QEMU does not have open.
RECURSIVE HotResetOut(_, _)
HotResetOut(s, xs) ==
    IF xs = <<>> THEN s
    ELSE LET x == Head(xs)
             g == GroupOf[x]
         IN IF g \notin ToSet(s.glist) THEN s
            ELSE HotResetOut(IF x \in ToSet(s.devlist[g]) THEN PciPostReset(s, x) ELSE s,
                             Tail(xs))

\* vfio_pci_hot_reset(): ret is 0 when the bus was reset.
PciHotReset(s, d, single) ==
    LET v  == HotResetVerify([PciPreReset(s, d) EXCEPT !.needs = @ \ {d}],
                             single, Peers(d), FALSE)
        s1 == CASE v.exit = "reset"      -> HotResetOut(BusHotReset(v.st, BusOf[d]), Peers(d))
                [] v.exit = "out"        -> HotResetOut(v.st, Peers(d))
                [] v.exit = "out_single" -> v.st
    IN [st |-> PciPostReset(s1, d), ret |-> IF v.exit = "reset" THEN 0 ELSE -1]

\* vfio_pci_reset(), the device's reset callback: FLR, else a bus reset
\* that touches no other device in use, else a PM reset.
PciReset(s, d) ==
    LET s1 == PciPreReset(s, d)
        h  == PciHotReset(s1, d, TRUE)
    IN PciPostReset(
         IF d \in ResetWorks /\ (d \in HasFlr \/ d \notin HasPmReset)
         THEN DeviceResetIoctl(s1, d)
         ELSE IF h.ret = 0 THEN h.st
         ELSE IF d \in ResetWorks /\ d \in HasPmReset THEN DeviceResetIoctl(h.st, d)
         ELSE h.st, d)

\* Mutant: a device without VFIO_DEVICE_FLAGS_RESET is not marked.
PciComputeNeedsResetNoWorks(s, x) ==
    IF x \notin HasFlr /\ x \in HasPmReset THEN [s EXCEPT !.needs = @ \cup {x}] ELSE s

\* vfio_pci_compute_needs_reset(): a device without a reset of its own,
\* or with only a PM reset, asks for a bus reset.
PciComputeNeedsReset(s, x) ==
    IF x \notin ResetWorks \/ (x \notin HasFlr /\ x \in HasPmReset)
    THEN [s EXCEPT !.needs = @ \cup {x}]
    ELSE s

\* The devices in the order vfio_reset_handler() walks them.
DeviceWalk(s) == FoldLeft(LAMBDA acc, g : acc \o s.devlist[g], <<>>, s.glist)

\* Mutant: each device's need computed just before its own multi reset.
VfioResetHandlerFused(s) ==
    LET walk == DeviceWalk(s)
    IN FoldLeft(LAMBDA acc, x :
                  LET a == PciComputeNeedsReset(acc, x)
                  IN IF x \in a.needs THEN PciHotReset(a, x, FALSE).st ELSE a,
                s, walk)

\* vfio_reset_handler(): every device's need is computed first; then each
\* device that still needs it gets a multi-device hot reset.
VfioResetHandler(s) ==
    LET walk == DeviceWalk(s)
    IN FoldLeft(LAMBDA acc, x : IF x \in acc.needs THEN PciHotReset(acc, x, FALSE).st ELSE acc,
                FoldLeft(PciComputeNeedsReset, s, walk), walk)

-----------------------------------------------------------------------------
\* A memory map: sections that do not overlap.
FlatView(secs) ==
    \A x, y \in secs : x # y => x.start + x.size <= y.start \/ y.start + y.size <= x.start

Init ==
    /\ st = [glist |-> <<>>, gcont |-> [g \in Groups |-> NONE],
             devlist |-> [g \in Groups |-> <<>>], clist |-> <<>>,
             cgroups |-> [c \in Cids |-> {}], iommu |-> [c \in Cids |-> {}],
             balloon |-> 0, reset_reg |-> FALSE, kvm_fd |-> FALSE, kvm_groups |-> {},
             quiesced |-> {}, needs |-> {},
             reset |-> {}, breset |-> [b \in Buses |-> 0], stray |-> FALSE]
    /\ ram \in {secs \in SUBSET Sections : FlatView(secs)}
    /\ phase = "idle"
    /\ todo = {}
    /\ round = {}

\* vfio_initfn() for host device d: its group is got (joining container
\* join, or a new one), then vfio_get_device() and the rest of the set-up
\* succeed (ok) or one of them fails and the device and group are put.
Initfn(d, join, ok) ==
    /\ phase # "devices"
    /\ d \notin Assigned(st)
    /\ LET g  == GroupOf[d]
           s1 == GetGroup(st, g, join, ram)
       IN st' = IF ok THEN GetDevice(s1, g, d) ELSE PutGroup(s1, g)
    /\ UNCHANGED <<ram, phase, todo, round>>

\* vfio_exitfn(): hot unplug of d.
Exitfn(d) ==
    /\ phase # "devices"
    /\ d \in Assigned(st)
    /\ st' = PutGroup(PutDevice(st, d), GroupOf[d])
    /\ UNCHANGED <<ram, phase, todo, round>>

\* The guest's memory map gains a section: each container's listener gets
\* region_add.
RegionAdd(sec) ==
    /\ phase # "devices"
    /\ sec \notin ram
    /\ FlatView(ram \cup {sec})
    /\ ram' = ram \cup {sec}
    /\ st' = FoldLeft(LAMBDA acc, c : ListenerRegionAdd(acc, c, sec), st, st.clist)
    /\ UNCHANGED <<phase, todo, round>>

\* A section leaves the memory map: region_del.
RegionDel(sec) ==
    /\ phase # "devices"
    /\ sec \in ram
    /\ ram' = ram \ {sec}
    /\ st' = FoldLeft(LAMBDA acc, c : ListenerRegionDel(acc, c, sec), st, st.clist)
    /\ UNCHANGED <<phase, todo, round>>

\* qemu_system_reset() begins: the device resets are to run.
SystemReset ==
    /\ phase # "devices"
    /\ phase' = "devices"
    /\ todo' = Assigned(st)
    /\ round' = Assigned(st)
    /\ st' = [st EXCEPT !.reset = {}, !.breset = [b \in Buses |-> 0], !.stray = FALSE]
    /\ UNCHANGED ram

\* The reset callback of an assigned device.
DeviceReset(d) ==
    /\ phase = "devices"
    /\ d \in todo
    /\ st' = PciReset(st, d)
    /\ todo' = todo \ {d}
    /\ UNCHANGED <<ram, phase, round>>

\* The reset handlers registered with qemu_register_reset() run after the
\* devices: vfio_reset_handler() while a group is open.
ResetHandler ==
    /\ phase = "devices"
    /\ todo = {}
    /\ st' = IF st.reset_reg THEN VfioResetHandler(st) ELSE st
    /\ phase' = "done"
    /\ UNCHANGED <<ram, todo, round>>

Next ==
    \/ \E d \in Devs, join \in ToSet(st.clist) \cup {NONE}, ok \in BOOLEAN : Initfn(d, join, ok)
    \/ \E d \in Devs : Exitfn(d)
    \/ \E sec \in Sections : RegionAdd(sec) \/ RegionDel(sec)
    \/ SystemReset
    \/ \E d \in Devs : DeviceReset(d)
    \/ ResetHandler

Spec == Init /\ [][Next]_vars

-----------------------------------------------------------------------------
\* The whole pages of the RAM sections in the map whose page offsets agree
\* in the address space and in the region.
RamPages ==
    LET top == Max({x.start + x.size : x \in Sections}) \div PAGE
    IN UNION {{p \in 0 .. top : sec.start <= p * PAGE /\ (p + 1) * PAGE <= sec.start + sec.size} :
              sec \in {x \in ram : x.ram /\ x.start % PAGE = x.roff % PAGE}}

(* Every container QEMU holds maps exactly the guest's RAM pages: no page *)
(* the device could DMA to after its RAM left the map, none outside RAM,  *)
(* and none missing, whatever the order of hot-plugs, unplugs and memory  *)
(* map changes (vfio_listener_region_add/_del rounding, the replay of     *)
(* memory_listener_register).  The EBUSY retry of vfio_dma_map is in the  *)
(* model, but the sections of the run never overlap a mapping, so it is  *)
(* not reached.                                                            *)
DmaCoherent == \A c \in ToSet(st.clist) : st.iommu[c] = RamPages

(* The balloon stays inhibited while any container maps guest pages, so   *)
(* a ballooned page is never left pinned in the IOMMU: each group keeps   *)
(* the inhibit it took in vfio_connect_container until vfio_put_group.   *)
BalloonInhibited ==
    /\ st.balloon >= 0
    /\ (\E c \in ToSet(st.clist) : st.iommu[c] # {}) => st.balloon > 0

(* QEMU's lists agree with one another and with the kernel: a group is    *)
(* open exactly while it has devices, and then sits in one live container *)
(* that lists it; no container is left without groups; the reset handler *)
(* is registered exactly while a group is open; and KVM's VFIO device     *)
(* holds no group QEMU has closed (vfio_get_group, vfio_put_group,        *)
(* vfio_connect_container, vfio_disconnect_container, on every path of   *)
(* vfio_initfn and vfio_exitfn).                                          *)
GroupsAccounted ==
    /\ \A g \in Groups :
          /\ (g \in ToSet(st.glist)) = (st.devlist[g] # <<>>)
          /\ (g \in ToSet(st.glist)) = (st.gcont[g] \in ToSet(st.clist))
    /\ \A c \in ToSet(st.clist) : st.cgroups[c] = {g \in Groups : st.gcont[g] = c} /\ st.cgroups[c] # {}
    /\ st.reset_reg = (st.glist # <<>>)
    /\ st.kvm_groups \subseteq ToSet(st.glist)

(* No bus is hot reset twice in one system reset: a device reset by the  *)
(* one-device hot reset of its reset callback is not reset again by      *)
(* vfio_reset_handler, and a multi-device hot reset clears the request   *)
(* of every device it resets (the _one/_multi split of vfio_pci_hot_reset). *)
ResetOnce == \A b \in Buses : st.breset[b] <= 1

(* A hot reset never hits an assigned device QEMU has not quiesced with  *)
(* vfio_pci_pre_reset (interrupts off, bus mastering off).                *)
BusResetQuiesced == ~st.stray

(* When the reset handler has run, every device assigned at the start of *)
(* the system reset has been reset, unless it has no reset of its own and *)
(* the group of a device on its bus is not QEMU's: FLR, PM reset, and the *)
(* bus reset of vfio_pci_reset or of vfio_reset_handler between them      *)
(* leave no device out.                                                    *)
EveryDeviceReset ==
    [][phase = "devices" /\ phase' = "done" =>
         \A d \in round :
            (d \in ResetWorks \/ \A x \in Devs : BusOf[x] = BusOf[d] => GroupOf[x] \in ToSet(st.glist))
               => d \in st'.reset]_vars
=============================================================================
