-------------------------------- MODULE VfioIrq ---------------------------------
(***************************************************************************)
(* The INTx path of an assigned PCI device (hw/misc/vfio.c): the host     *)
(* driver masks the line when it fires and signals an eventfd; QEMU's     *)
(* handler (vfio_intx_interrupt) or, with KVM bypass, a resampling irqfd  *)
(* consumes it; the guest ends it by a trapped BAR access (vfio_eoi) or   *)
(* by an EOI that KVM turns into an unmask.  The BAR mmaps are switched  *)
(* off on an interrupt so that the access traps, and back on by a timer  *)
(* once nothing is pending.  The guest can reroute the pin, switch to     *)
(* MSI or MSI-X and back, and reset the device.                           *)
(*                                                                         *)
(* The MSI-X vectors: the guest unmasks and masks them in QEMU's MSI-X    *)
(* emulation, which calls vfio_msix_vector_use and _release; the host    *)
(* signals each vector's QEMU eventfd (vfio_msi_interrupt) or its KVM    *)
(* eventfd, which KVM delivers without asking QEMU about the mask.       *)
(*                                                                         *)
(* The device's QEMU and host state is one record st; every QEMU handler  *)
(* is one step of the main loop and composes the functions of the code as *)
(* operators over st.  The host kernel, KVM and the guest are the         *)
(* environment.                                                            *)
(***************************************************************************)
EXTENDS Naturals

CONSTANTS
    Routes,         \* the routes pci_device_route_intx_to_irq() can give
    OFF,            \* the route of a pin the router has disabled
    ZERO_ROUTE,     \* the zeroed intx.route of a new device
    HAS_PIN,        \* PCI_INTERRUPT_PIN is not 0
    KVM_RESAMPLE,   \* kvm_irqfds_enabled() and KVM_CAP_IRQFD_RESAMPLE
    KvmResults,     \* the outcomes of the KVM bypass setup (TRUE: it works)
    MsiResults,     \* the outcomes of VFIO_DEVICE_SET_IRQS for MSI
    MMAP_TIMEOUT_ON,  \* x-intx-mmap-timeout-ms is not 0
    NR_ENTRIES,     \* the MSI-X table size, vdev->msix->entries
    MAX_CHANGES     \* guest reroutes, MSI toggles and resets in a behaviour

ASSUME OFF \in Routes /\ ZERO_ROUTE \notin Routes
ASSUME KvmResults \subseteq BOOLEAN /\ KvmResults # {}
ASSUME MsiResults \subseteq BOOLEAN /\ MsiResults # {}
ASSUME NR_ENTRIES \in Nat \ {0}

Vectors == 0 .. NR_ENTRIES - 1

NoFd == "none"

VARIABLES
    st,         \* vdev->interrupt, vdev->intx and the host's INTx state
    line,       \* the device asserts INTx
    router,     \* the route the guest's interrupt router gives the pin
    msi_on,     \* the MSI enable bit of the emulated config space
    core,       \* QEMU's MSI-X emulation (hw/pci/msix.c): enable bit, the
                \* guest's vector mask bits, the pending bits
    msg,        \* ghost: MSI-X messages raised and not yet delivered or
                \* pended, and messages the host dropped
    changes     \* guest configuration changes so far

vars == <<st, line, router, msi_on, core, msg, changes>>

(* The fields of st (vdev->interrupt and VFIOINTx):                       *)
(*   mode      vdev->interrupt: "none", "intx" or "msi"                    *)
(*   pending   intx.pending;  irq  the level QEMU drives on the pin        *)
(*   kvm_accel intx.kvm_accel;  route  intx.route                          *)
(*   mmap      the BAR mmaps are enabled;  timer  intx.mmap_timer armed   *)
(*   handler   QEMU's fd handler is set on intx.interrupt                  *)
(*   irqfd     the GSI of a KVM irqfd on intx.interrupt, or NoFd           *)
(*   unmaskfd  the resample eventfd is set as the VFIO unmask trigger      *)
(*   trigger   intx.interrupt is set as the VFIO INTx trigger              *)
(*   masked    the host has the line masked;  efd  intx.interrupt signalled *)
(*   gsi       KVM holds the guest's GSI asserted until the guest's EOI    *)
(*   vec       vdev->msi_vectors: per vector use, virq (a KVM route),      *)
(*             handler (QEMU's fd handler), qfd and kfd (its interrupt and *)
(*             kvm_interrupt eventfds signalled), and trig, the eventfd    *)
(*             the host signals for it ("none", "qemu" or "kvm")           *)
(*   nrv       vdev->nr_vectors;  hostn  the vectors the host has enabled   *)
(*   pba       vdev->msix->pending;  pba_on  the PBA region is emulated     *)

-----------------------------------------------------------------------------
(* vfio_disable_irqindex(INTx): the host drops the trigger and the unmask *)
(* eventfd and leaves the line unmasked.                                  *)
DisableIrqindex(s) == [s EXCEPT !.trigger = FALSE, !.unmaskfd = FALSE, !.masked = FALSE]

(* vfio_unmask_single_irqindex() and vfio_mask_single_irqindex() *)
Unmask(s) == [s EXCEPT !.masked = FALSE]
Mask(s) == [s EXCEPT !.masked = TRUE]

(* KVM_IRQFD with KVM_IRQFD_FLAG_DEASSIGN on gsi g: only an irqfd on that *)
(* GSI is removed; KVM lowers the resampled GSI.                          *)
Deassign(s, g) == IF s.irqfd = g THEN [s EXCEPT !.irqfd = NoFd, !.gsi = FALSE] ELSE s

(* Mutant: the timer turns the mmaps on without checking intx.pending. *)
IntxMmapEnableNoPending(s) == [s EXCEPT !.mmap = TRUE, !.timer = FALSE]

(* vfio_intx_mmap_enable(): the timer re-arms while an interrupt is      *)
(* pending, and turns the mmaps back on otherwise.                        *)
IntxMmapEnable(s) ==
    IF s.pending THEN s ELSE [s EXCEPT !.mmap = TRUE, !.timer = FALSE]

(* vfio_intx_interrupt(): the eventfd is read and cleared; the interrupt *)
(* is pending, the pin raised, the mmaps off and the timer armed.         *)
IntxInterrupt(s) ==
    [s EXCEPT !.efd = FALSE, !.pending = TRUE, !.irq = TRUE, !.mmap = FALSE,
              !.timer = MMAP_TIMEOUT_ON \/ @]

(* vfio_eoi(): a pending interrupt ends, the pin drops, the host unmasks. *)
Eoi(s) ==
    IF ~s.pending THEN s
    ELSE Unmask([s EXCEPT !.pending = FALSE, !.irq = FALSE])

(* Mutant: the resample eventfd is never set as the unmask trigger. *)
EnableIntxKvmNoUnmaskFd(s, ok) ==
    IF ~KVM_RESAMPLE \/ s.route = OFF THEN s
    ELSE LET q == Mask([s EXCEPT !.handler = FALSE, !.pending = FALSE, !.irq = FALSE]) IN
         IF ok THEN Unmask([q EXCEPT !.irqfd = s.route, !.kvm_accel = TRUE])
         ELSE Unmask([q EXCEPT !.handler = TRUE])

(* vfio_enable_intx_kvm(): with resampling and an enabled route, QEMU's   *)
(* handler is taken off, the line masked and the pending state dropped;  *)
(* then the irqfd and the unmask eventfd are set and the line unmasked.  *)
(* Its three failure exits end alike: the handler is back, nothing of    *)
(* KVM is left and the line is unmasked.                                  *)
EnableIntxKvm(s, ok) ==
    IF ~KVM_RESAMPLE \/ s.route = OFF THEN s
    ELSE LET q == Mask([s EXCEPT !.handler = FALSE, !.pending = FALSE, !.irq = FALSE]) IN
         IF ok THEN Unmask([q EXCEPT !.irqfd = s.route, !.unmaskfd = TRUE, !.kvm_accel = TRUE])
         ELSE Unmask([q EXCEPT !.handler = TRUE])

(* Mutant: the final "let it re-fire" unmask is left out. *)
DisableIntxKvmNoUnmask(s) ==
    IF ~s.kvm_accel THEN s
    ELSE LET q == Deassign(Mask([s EXCEPT !.pending = FALSE, !.irq = FALSE]), s.route) IN
         [q EXCEPT !.unmaskfd = FALSE, !.handler = TRUE, !.kvm_accel = FALSE]

(* vfio_disable_intx_kvm(): masked, nothing pending, the irqfd of the     *)
(* route removed, the unmask eventfd closed, QEMU's handler back, and an *)
(* unmask so that a missed interrupt fires again.                         *)
DisableIntxKvm(s) ==
    IF ~s.kvm_accel THEN s
    ELSE LET q == Deassign(Mask([s EXCEPT !.pending = FALSE, !.irq = FALSE]), s.route) IN
         Unmask([q EXCEPT !.unmaskfd = FALSE, !.handler = TRUE, !.kvm_accel = FALSE])

(* vfio_disable_intx() *)
DisableIntx(s) ==
    LET q == DisableIrqindex(DisableIntxKvm([s EXCEPT !.timer = FALSE])) IN
    [q EXCEPT !.pending = FALSE, !.irq = FALSE, !.mmap = TRUE, !.handler = FALSE,
              !.efd = FALSE, !.mode = "none"]

(* vfio_enable_intx(): nothing without a pin; else interrupts off first  *)
(* (every caller has already left MSI, so only the INTx branch of        *)
(* vfio_disable_interrupts can run), the route looked up when KVM can    *)
(* resample, a fresh eventfd with QEMU's handler set as the trigger, the *)
(* KVM bypass tried, and INTx mode.                                       *)
EnableIntx(s, rt, ok) ==
    IF ~HAS_PIN THEN s
    ELSE LET d == IF s.mode = "intx" THEN DisableIntx(s) ELSE s
             q == [d EXCEPT !.route = IF KVM_RESAMPLE THEN rt ELSE @,
                            !.efd = FALSE, !.handler = TRUE, !.trigger = TRUE] IN
         [EnableIntxKvm(q, ok) EXCEPT !.mode = "intx"]

(* Mutant: the new route is stored before the bypass is taken down, so  *)
(* the deassign names the new GSI.                                        *)
UpdateIrqRouteFirst(s, rt, ok) ==
    IF s.mode # "intx" \/ rt = s.route THEN s
    ELSE LET q == DisableIntxKvm([s EXCEPT !.route = rt]) IN
         IF rt = OFF THEN q ELSE Eoi(EnableIntxKvm(q, ok))

(* vfio_update_irq(): in INTx mode, on a new route the bypass is taken   *)
(* down, the route stored, and on an enabled route the bypass set up     *)
(* again and the interrupt re-enabled in case an EOI was missed.          *)
UpdateIrq(s, rt, ok) ==
    IF s.mode # "intx" \/ rt = s.route THEN s
    ELSE LET q == [DisableIntxKvm(s) EXCEPT !.route = rt] IN
         IF rt = OFF THEN q ELSE Eoi(EnableIntxKvm(q, ok))

-----------------------------------------------------------------------------
(* A vector as g_malloc0 leaves it; vfio_msix_vector_do_use and          *)
(* vfio_enable_msi set virq to -1 before anything reads it.               *)
NoVector == [use |-> FALSE, virq |-> FALSE, handler |-> FALSE, trig |-> "none",
             qfd |-> FALSE, kfd |-> FALSE]

(* The eventfd the host signals for a used vector: the KVM one when it    *)
(* has a route and, for MSI-X, the guest has it unmasked.                  *)
VectorFd(v, masked) == IF ~v.virq \/ masked THEN "qemu" ELSE "kvm"

(* vfio_disable_irqindex(MSI-X): the host disables every vector. *)
DisableIrqindexMsix(s) ==
    [s EXCEPT !.hostn = 0, !.vec = [i \in Vectors |-> [@[i] EXCEPT !.trig = "none"]]]

(* vfio_enable_vectors(vdev, true): the host enables nr_vectors vectors,  *)
(* each used one on the eventfd VectorFd chooses, the others on none.    *)
EnableVectors(s, mask) ==
    [s EXCEPT !.hostn = s.nrv,
              !.vec = [i \in Vectors |->
                         [@[i] EXCEPT !.trig = IF i < s.nrv /\ s.vec[i].use
                                               THEN VectorFd(s.vec[i], mask[i])
                                               ELSE "none"]]]

(* vfio_add_kvm_msi_virq(): with a message, a KVM route and irqfd if KVM *)
(* gives them; vfio_remove_kvm_msi_virq(): the route and its eventfd go. *)
AddKvmMsiVirq(v, has_msg, ok) == IF has_msg /\ ok THEN [v EXCEPT !.virq = TRUE] ELSE v
RemoveKvmMsiVirq(v) == [v EXCEPT !.virq = FALSE, !.kfd = FALSE]

(* One-vector VFIO_DEVICE_SET_IRQS: the host refuses a vector past those *)
(* it has enabled.                                                        *)
SetVectorTrigger(s, nr, fd) ==
    IF nr < s.hostn THEN [s EXCEPT !.vec[nr].trig = fd] ELSE s

(* Mutant: the host's vectors grow only when nr is past nr_vectors. *)
MsixVectorDoUseOffByOne(s, nr, has_msg, handler, ok, mask) ==
    LET v0 == IF s.vec[nr].use THEN s.vec[nr]
              ELSE [s.vec[nr] EXCEPT !.use = TRUE, !.virq = FALSE, !.qfd = FALSE]
        v1 == [v0 EXCEPT !.handler = handler]
        v2 == IF v1.virq THEN (IF has_msg THEN v1 ELSE RemoveKvmMsiVirq(v1))
              ELSE AddKvmMsiVirq(v1, has_msg, ok)
        s1 == [s EXCEPT !.vec[nr] = v2]
        s2 == IF s.nrv < nr
              THEN EnableVectors([DisableIrqindexMsix(s1) EXCEPT !.nrv = nr + 1], mask)
              ELSE SetVectorTrigger(s1, nr, IF v2.virq THEN "kvm" ELSE "qemu")
        left == {b \in s2.pba \ {nr} : b < s2.nrv} IN
    [s2 EXCEPT !.pba = @ \ {nr}, !.pba_on = IF left = {} THEN FALSE ELSE @]

(* Mutant: QEMU's handler is set only on a vector's first use. *)
MsixVectorDoUseHandlerOnce(s, nr, has_msg, handler, ok, mask) ==
    LET v0 == IF s.vec[nr].use THEN s.vec[nr]
              ELSE [s.vec[nr] EXCEPT !.use = TRUE, !.virq = FALSE, !.qfd = FALSE]
        v1 == IF s.vec[nr].use THEN v0 ELSE [v0 EXCEPT !.handler = handler]
        v2 == IF v1.virq THEN (IF has_msg THEN v1 ELSE RemoveKvmMsiVirq(v1))
              ELSE AddKvmMsiVirq(v1, has_msg, ok)
        s1 == [s EXCEPT !.vec[nr] = v2]
        s2 == IF s.nrv < nr + 1
              THEN EnableVectors([DisableIrqindexMsix(s1) EXCEPT !.nrv = nr + 1], mask)
              ELSE SetVectorTrigger(s1, nr, IF v2.virq THEN "kvm" ELSE "qemu")
        left == {b \in s2.pba \ {nr} : b < s2.nrv} IN
    [s2 EXCEPT !.pba = @ \ {nr}, !.pba_on = IF left = {} THEN FALSE ELSE @]

(* vfio_msix_vector_do_use(): a vector used for the first time gets a    *)
(* fresh eventfd; QEMU's handler is set (or cleared); the KVM route is   *)
(* kept, dropped without a message, or tried; the host's vectors grow to *)
(* nr + 1 by disabling and re-enabling them all, or the one vector is    *)
(* switched; the vector's PBA bit is cleared and the PBA emulation ends  *)
(* when no bit is left.                                                   *)
MsixVectorDoUse(s, nr, has_msg, handler, ok, mask) ==
    LET v0 == IF s.vec[nr].use THEN s.vec[nr]
              ELSE [s.vec[nr] EXCEPT !.use = TRUE, !.virq = FALSE, !.qfd = FALSE]
        v1 == [v0 EXCEPT !.handler = handler]
        v2 == IF v1.virq THEN (IF has_msg THEN v1 ELSE RemoveKvmMsiVirq(v1))
              ELSE AddKvmMsiVirq(v1, has_msg, ok)
        s1 == [s EXCEPT !.vec[nr] = v2]
        s2 == IF s.nrv < nr + 1
              THEN EnableVectors([DisableIrqindexMsix(s1) EXCEPT !.nrv = nr + 1], mask)
              ELSE SetVectorTrigger(s1, nr, IF v2.virq THEN "kvm" ELSE "qemu")
        left == {b \in s2.pba \ {nr} : b < s2.nrv} IN
    [s2 EXCEPT !.pba = @ \ {nr}, !.pba_on = IF left = {} THEN FALSE ELSE @]

(* Mutant: a released vector stays on KVM's eventfd. *)
MsixVectorReleaseNoSwitch(s, nr) == s

(* vfio_msix_vector_release(): a vector with a KVM route is switched to  *)
(* QEMU's eventfd, so that QEMU's MSI-X emulation sees it masked.         *)
MsixVectorRelease(s, nr) ==
    IF s.vec[nr].virq THEN SetVectorTrigger(s, nr, "qemu") ELSE s

(* vfio_disable_msi_common(): the vectors' routes, handlers and eventfds *)
(* go, and INTx is enabled again.                                         *)
DisableMsiCommon(s, rt, ok) ==
    EnableIntx([s EXCEPT !.vec = [i \in Vectors |-> [NoVector EXCEPT !.trig = s.vec[i].trig]],
                         !.nrv = 0, !.mode = "none"], rt, ok)

(* vfio_disable_msix(): every used vector released, the host's vectors  *)
(* disabled if there are any, the common part, and the PBA bits cleared *)
(* (the PBA region is left as it is).                                     *)
DisableMsix(s, rt, ok) ==
    LET r == [i \in Vectors |-> IF s.vec[i].use THEN MsixVectorRelease(s, i).vec[i] ELSE s.vec[i]]
        q == [s EXCEPT !.vec = r]
        d == IF s.nrv > 0 THEN DisableIrqindexMsix(q) ELSE q IN
    [DisableMsiCommon(d, rt, ok) EXCEPT !.pba = {}]

(* vfio_disable_msi(): the host's MSI vectors and the common part. *)
DisableMsi(s, rt, ok) == DisableMsiCommon(s, rt, ok)

(* vfio_disable_interrupts(): MSI-X or MSI is disabled first, which goes *)
(* back to INTx, then INTx.                                               *)
DisableInterrupts(s, rt, ok) ==
    LET q == CASE s.mode = "msix" -> DisableMsix(s, rt, ok)
               [] s.mode = "msi"  -> DisableMsi(s, rt, ok)
               [] OTHER           -> s IN
    IF q.mode = "intx" THEN DisableIntx(q) ELSE q

(* vfio_enable_msi(): interrupts off, then the vectors; if the host      *)
(* refuses them the device is left with no interrupts.  The MSI vectors *)
(* themselves are not modelled.                                           *)
EnableMsi(s, rt, ok, msi_ok) ==
    [DisableInterrupts(s, rt, ok) EXCEPT !.mode = IF msi_ok THEN "msi" ELSE "none"]

(* msix_set_vector_notifiers(): vfio_msix_vector_use for every vector    *)
(* the guest has unmasked, in order.                                      *)
RECURSIVE UseUnmasked(_, _, _, _)
UseUnmasked(s, i, ok, mask) ==
    IF i >= NR_ENTRIES THEN s
    ELSE UseUnmasked(IF mask[i] THEN s ELSE MsixVectorDoUse(s, i, TRUE, TRUE, ok, mask),
                     i + 1, ok, mask)

(* vfio_enable_msix(): interrupts off, a fresh vector array, MSI-X mode, *)
(* vector 0 used without a handler and released, then the notifiers.    *)
EnableMsix(s, rt, ok, mask) ==
    LET d == DisableInterrupts(s, rt, ok)
        q == [d EXCEPT !.vec = [i \in Vectors |-> [NoVector EXCEPT !.trig = d.vec[i].trig]],
                       !.mode = "msix"] IN
    UseUnmasked(MsixVectorRelease(MsixVectorDoUse(q, 0, FALSE, FALSE, ok, mask), 0),
                0, ok, mask)

(* vfio_pci_reset(): vfio_pci_pre_reset() disables the interrupts, the   *)
(* device is reset, vfio_pci_post_reset() enables INTx.                   *)
PciReset(s, rt, ok) == EnableIntx(DisableInterrupts(s, rt, ok), rt, ok)

-----------------------------------------------------------------------------
(* msix_reset(): MSI-X off, every vector masked, nothing pending. *)
CoreReset == [on |-> FALSE, mask |-> [i \in Vectors |-> TRUE], pend |-> {}]

(* vfio_initfn(): the device starts in INTx mode with the mmaps on. *)
Init ==
    /\ router \in Routes
    /\ \E ok \in KvmResults :
           st = EnableIntx([mode |-> "none", pending |-> FALSE, irq |-> FALSE,
                            kvm_accel |-> FALSE, route |-> ZERO_ROUTE, mmap |-> TRUE,
                            timer |-> FALSE, handler |-> FALSE, irqfd |-> NoFd,
                            unmaskfd |-> FALSE, trigger |-> FALSE, masked |-> FALSE,
                            efd |-> FALSE, gsi |-> FALSE,
                            vec |-> [i \in Vectors |-> NoVector], nrv |-> 0,
                            hostn |-> 0, pba |-> {}, pba_on |-> FALSE], router, ok)
    /\ line = FALSE
    /\ msi_on = FALSE
    /\ core = CoreReset
    /\ msg = [raised |-> {}, lost |-> {}]
    /\ changes = 0

(* The device raises its line. *)
DeviceAssert ==
    /\ ~line
    /\ line' = TRUE
    /\ UNCHANGED <<st, router, msi_on, core, msg, changes>>

(* The host's INTx handler: an unmasked asserted line is masked and the  *)
(* trigger eventfd signalled.                                             *)
HostInterrupt ==
    /\ line /\ st.trigger /\ ~st.masked
    /\ st' = [st EXCEPT !.masked = TRUE, !.efd = TRUE]
    /\ UNCHANGED <<line, router, msi_on, core, msg, changes>>

(* The main loop runs vfio_intx_interrupt for the signalled eventfd. *)
IntxHandler ==
    /\ st.handler /\ st.efd
    /\ st' = IntxInterrupt(st)
    /\ UNCHANGED <<line, router, msi_on, core, msg, changes>>

(* KVM's irqfd consumes the eventfd and asserts the GSI. *)
KvmInject ==
    /\ st.irqfd # NoFd /\ st.efd
    /\ st' = [st EXCEPT !.efd = FALSE, !.gsi = TRUE]
    /\ UNCHANGED <<line, router, msi_on, core, msg, changes>>

(* The mmap timer expires. *)
MmapTimer ==
    /\ st.timer
    /\ st' = IntxMmapEnable(st)
    /\ UNCHANGED <<line, router, msi_on, core, msg, changes>>

(* What the guest sees: QEMU's level through the router, or KVM's GSI. *)
GuestSees == (st.irq /\ router # OFF) \/ st.gsi

(* The guest's handler accesses a BAR, and the access may service the   *)
(* device.  Through an mmap it does not trap; trapped, vfio_region_read  *)
(* or vfio_region_write forwards it and calls vfio_eoi.                   *)
GuestBarAccess(services) ==
    /\ line' = (line /\ ~services)
    /\ st' = IF st.mmap THEN st ELSE Eoi(st)
    /\ UNCHANGED <<router, msi_on, core, msg, changes>>

(* The guest's EOI of the GSI: KVM lowers it and signals the resample    *)
(* eventfd, which the host turns into an unmask.                          *)
GuestEoi ==
    /\ st.gsi
    /\ st' = [st EXCEPT !.gsi = FALSE, !.masked = IF st.unmaskfd THEN FALSE ELSE @]
    /\ UNCHANGED <<line, router, msi_on, core, msg, changes>>

(* The guest reprograms its interrupt router; the routing notifier runs  *)
(* vfio_update_irq().                                                     *)
GuestReroute(rt, ok) ==
    /\ changes < MAX_CHANGES
    /\ rt # router
    /\ router' = rt
    /\ st' = UpdateIrq(st, rt, ok)
    /\ changes' = changes + 1
    /\ UNCHANGED <<line, msi_on, core, msg>>

(* Messages raised on MSI-X vectors are moot once MSI-X is off. *)
Settle(m, s) == IF s.mode = "msix" THEN m ELSE [m EXCEPT !.raised = {}]

(* vfio_pci_write_config() on the MSI capability: the enable bit turns   *)
(* on or off.  The guest never has MSI and MSI-X on at once, which the   *)
(* PCI specification forbids; vfio_pci_write_config does not guard it.   *)
GuestToggleMsi(ok, msi_ok) ==
    /\ changes < MAX_CHANGES
    /\ ~core.on
    /\ msi_on' = ~msi_on
    /\ st' = IF msi_on THEN DisableMsi(st, router, ok) ELSE EnableMsi(st, router, ok, msi_ok)
    /\ msg' = Settle(msg, st')
    /\ changes' = changes + 1
    /\ UNCHANGED <<line, router, core>>

(* vfio_pci_write_config() on the MSI-X capability: the enable bit turns *)
(* on or off.                                                             *)
GuestToggleMsix(ok) ==
    /\ changes < MAX_CHANGES
    /\ ~msi_on
    /\ core' = [core EXCEPT !.on = ~@]
    /\ st' = IF core.on THEN DisableMsix(st, router, ok)
             ELSE EnableMsix(st, router, ok, core.mask)
    /\ msg' = Settle(msg, st')
    /\ changes' = changes + 1
    /\ UNCHANGED <<line, router, msi_on>>

(* The device sends an MSI-X message on vector v; the host signals the   *)
(* eventfd it has for the vector, or drops the message.                   *)
DeviceMsix(v) ==
    /\ st.mode = "msix" /\ core.on
    /\ v \notin msg.raised
    /\ LET t == st.vec[v].trig IN
       /\ st' = CASE t = "qemu" -> [st EXCEPT !.vec[v].qfd = TRUE]
                   [] t = "kvm"  -> [st EXCEPT !.vec[v].kfd = TRUE]
                   [] OTHER      -> st
       /\ msg' = IF t = "none"
                 THEN [msg EXCEPT !.lost = @ \cup (IF st.vec[v].use THEN {v} ELSE {})]
                 ELSE [msg EXCEPT !.raised = @ \cup {v}]
    /\ UNCHANGED <<line, router, msi_on, core, changes>>

(* vfio_msi_interrupt(): the main loop reads the vector's eventfd; in    *)
(* MSI-X mode a masked vector sets its PBA bit and turns the PBA         *)
(* emulation on; msix_notify() pends a masked vector and delivers an     *)
(* unmasked one.                                                          *)
MsiInterrupt(v) ==
    /\ st.vec[v].handler /\ st.vec[v].qfd
    /\ LET masked == core.mask[v] IN
       /\ st' = [st EXCEPT !.vec[v].qfd = FALSE,
                           !.pba = IF masked THEN @ \cup {v} ELSE @,
                           !.pba_on = masked \/ @]
       /\ core' = IF masked THEN [core EXCEPT !.pend = @ \cup {v}] ELSE core
    /\ msg' = [msg EXCEPT !.raised = @ \ {v}]
    /\ UNCHANGED <<line, router, msi_on, changes>>

(* KVM's irqfd for the vector's route delivers the message to the guest. *)
KvmMsiInject(v) ==
    /\ st.vec[v].virq /\ st.vec[v].kfd
    /\ st' = [st EXCEPT !.vec[v].kfd = FALSE]
    /\ msg' = [msg EXCEPT !.raised = @ \ {v}]
    /\ UNCHANGED <<line, router, msi_on, core, changes>>

(* The guest masks vector v in the MSI-X table; with MSI-X on,           *)
(* msix_handle_mask_update() calls vfio_msix_vector_release().            *)
GuestMaskVector(v) ==
    /\ ~core.mask[v]
    /\ core' = [core EXCEPT !.mask[v] = TRUE]
    /\ st' = IF core.on /\ st.mode = "msix" THEN MsixVectorRelease(st, v) ELSE st
    /\ UNCHANGED <<line, router, msi_on, msg, changes>>

(* The guest unmasks vector v; with MSI-X on, vfio_msix_vector_use()     *)
(* runs, then a pending message is delivered.                            *)
GuestUnmaskVector(v, ok) ==
    /\ core.mask[v]
    /\ LET mask == [core.mask EXCEPT ![v] = FALSE] IN
       /\ st' = IF core.on /\ st.mode = "msix" THEN MsixVectorDoUse(st, v, TRUE, TRUE, ok, mask)
                ELSE st
       /\ core' = [core EXCEPT !.mask = mask, !.pend = IF core.on THEN @ \ {v} ELSE @]
    /\ UNCHANGED <<line, router, msi_on, msg, changes>>

(* A system reset: the device drops its line, vfio_pci_reset() runs, and *)
(* the MSI and MSI-X state of the config space is reset.                 *)
Reset(ok) ==
    /\ changes < MAX_CHANGES
    /\ st' = PciReset(st, router, ok)
    /\ line' = FALSE
    /\ msi_on' = FALSE
    /\ core' = CoreReset
    /\ msg' = Settle(msg, st')
    /\ changes' = changes + 1
    /\ UNCHANGED router

Next ==
    \/ DeviceAssert
    \/ HostInterrupt
    \/ IntxHandler
    \/ KvmInject
    \/ MmapTimer
    \/ \E sv \in BOOLEAN : GuestBarAccess(sv)
    \/ GuestEoi
    \/ \E rt \in Routes, ok \in KvmResults : GuestReroute(rt, ok)
    \/ \E ok \in KvmResults, mok \in MsiResults : GuestToggleMsi(ok, mok)
    \/ \E ok \in KvmResults : GuestToggleMsix(ok)
    \/ \E v \in Vectors : DeviceMsix(v)
    \/ \E v \in Vectors : MsiInterrupt(v)
    \/ \E v \in Vectors : KvmMsiInject(v)
    \/ \E v \in Vectors : GuestMaskVector(v)
    \/ \E v \in Vectors, ok \in KvmResults : GuestUnmaskVector(v, ok)
    \/ \E ok \in KvmResults : Reset(ok)

(* The host kernel, KVM and QEMU's main loop handle what is signalled.   *)
(* The guest's handler, while the guest sees the interrupt, accesses a   *)
(* BAR and services the device, and the guest EOIs an asserted GSI; the  *)
(* guest may see the interrupt on and off (reroutes), so its handler is  *)
(* strongly fair.  Nothing else is bound to happen.                       *)
Fairness ==
    /\ WF_vars(HostInterrupt)
    /\ WF_vars(IntxHandler)
    /\ WF_vars(KvmInject)
    /\ WF_vars(MmapTimer)
    /\ SF_vars(GuestSees /\ GuestBarAccess(TRUE))
    /\ WF_vars(GuestEoi)
    /\ \A v \in Vectors : WF_vars(MsiInterrupt(v)) /\ WF_vars(KvmMsiInject(v))

Spec == Init /\ [][Next]_vars /\ Fairness
-----------------------------------------------------------------------------
(* While QEMU handles INTx itself and an interrupt is pending, the BAR   *)
(* mmaps are off: the guest's access that services the device traps and *)
(* ends the interrupt (vfio_intx_interrupt, vfio_intx_mmap_enable,        *)
(* vfio_eoi).  With the mmaps on, the host line would stay masked.        *)
EoiObservable ==
    (st.mode = "intx" /\ ~st.kvm_accel /\ st.pending) => ~st.mmap

(* In INTx mode the eventfd has exactly one consumer: QEMU's handler, or *)
(* a KVM irqfd on the current route with the unmask eventfd set (the      *)
(* bypass set-up and tear-down, and the order of vfio_update_irq).  Out   *)
(* of INTx mode neither is left.                                          *)
DeliveryPath ==
    IF st.mode = "intx"
    THEN /\ st.handler = ~st.kvm_accel
         /\ st.kvm_accel = (st.irqfd # NoFd)
         /\ st.kvm_accel => st.irqfd = st.route /\ st.unmaskfd /\ ~st.pending
    ELSE ~st.handler /\ st.irqfd = NoFd /\ ~st.kvm_accel

(* The host holds the line masked only while an interrupt is on its way *)
(* to an end that unmasks it: signalled to a consumer, pending in QEMU   *)
(* (ended by vfio_eoi), or asserted by KVM with the resample unmask set. *)
NoStrandedMask ==
    (st.mode = "intx" /\ st.masked) =>
        \/ st.efd /\ (st.handler \/ st.irqfd # NoFd)
        \/ st.pending
        \/ st.gsi /\ st.unmaskfd

(* The host's mask on the line is always released again while the      *)
(* device is in INTx mode and the pin is routed: by vfio_eoi after the   *)
(* guest's trapped BAR access, by KVM's resample after the guest's EOI,  *)
(* or by the unmask of a bypass change.  A mask never released stops    *)
(* the device's interrupts for good.                                      *)
MaskReleased ==
    (st.mode = "intx" /\ st.masked) ~> (~st.masked \/ st.mode # "intx" \/ router = OFF)

(* With MSI-X on, a vector the guest has masked is never on KVM's        *)
(* eventfd, which would deliver it past the mask: vfio_enable_vectors     *)
(* tests msix_is_masked and vfio_msix_vector_release switches a routed   *)
(* vector back to QEMU's eventfd.                                         *)
MaskRespected ==
    st.mode = "msix" => \A v \in Vectors : core.mask[v] => st.vec[v].trig # "kvm"

(* The host never drops a message on a vector the guest has set up: a    *)
(* used vector is always enabled on the host with an eventfd (the growth *)
(* of nr_vectors in vfio_msix_vector_do_use).                             *)
NoLostMessage == msg.lost = {}

(* A message raised on a vector the guest keeps unmasked is eventually   *)
(* delivered, through KVM or vfio_msi_interrupt and msix_notify.          *)
MsixDelivered ==
    \A v \in Vectors :
        (v \in msg.raised /\ ~core.mask[v]) ~> (v \notin msg.raised \/ core.mask[v])
=============================================================================
