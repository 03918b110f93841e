------------------------------- MODULE VirtioBlk -------------------------------
(***************************************************************************)
(* The request path of the virtio-blk device (hw/block/virtio-blk.c)      *)
(* without dataplane, with the monitor commands of blockdev.c that drain  *)
(* the block layer and change the disk under it (block_resize,            *)
(* drive_del), the VM run state, and the guest as the environment.        *)
(*                                                                         *)
(* A request is a head of the virtqueue (a model value of Req) with the   *)
(* descriptor the guest wrote: its type, a sector and a size of one       *)
(* sector, zero sectors or a part of a sector (not aligned).  A request  *)
(* is in the avail ring (vq), in the block layer (inflight), on the list  *)
(* of requests stopped by an I/O error (rq, s->rq, head first), in the    *)
(* used ring (used) until the guest reaps it, or free.                    *)
(*                                                                         *)
(* The main loop runs one handler at a time.  bdrv_drain_all() runs the   *)
(* completions and bottom halves of the AIO context until nothing is in  *)
(* flight: a handler that drains is a first step that sets op, the       *)
(* completions and bottom halves that drain runs, and a last step once   *)
(* nothing is in flight.                                                   *)
(***************************************************************************)
EXTENDS Naturals, Sequences, SequencesExt, FiniteSets

CONSTANTS
    Req,            \* the request heads the guest may place in the ring
    Descs,          \* the request descriptors the guest may write
    DISK_SECTORS,   \* the disk's size at start, in sectors
    MRB_MAX,        \* the slots of MultiReqBuffer.blkreq (32 in the code)
    ReadPolicies,   \* the rerror= settings the drive may start with
    WritePolicies,  \* the werror= settings the drive may start with
    MAX_ERRORS,     \* the I/O errors the backend returns in a behaviour
    MAX_RESETS      \* the device resets in a behaviour

VARIABLES
    vq,         \* the avail ring: heads the guest added, not yet popped
    desc,       \* the descriptor of each head
    inflight,   \* requests handed to the block layer, callback pending
    rq,         \* s->rq: requests stopped by an error, head first
    used,       \* the used ring: [id, status], not yet reaped
    bh,         \* s->bh: "none", "scheduled" or "deleted" (dangling)
    running,    \* runstate_is_running()
    stop_req,   \* a vm stop requested by bdrv_error_action, not yet done
    op,         \* the draining handler: [name, size], name "none" if none
    total,      \* bdrv_get_geometry(): the disk size in sectors
    medium,     \* bs->drv != NULL
    rerror, werror,   \* bs->on_read_error, bs->on_write_error
    errors,     \* I/O errors returned so far
    epoch,      \* ghost: device resets so far
    popped_in,  \* ghost: the epoch in which each head was last popped
    uaf         \* ghost: a freed request was read

vars == <<vq, desc, inflight, rq, used, bh, running, stop_req, op, total, medium,
          rerror, werror, errors, epoch, popped_in, uaf>>

NoDesc == [kind |-> "none", sector |-> 0, nb |-> 1, aligned |-> TRUE]
NoOp == [name |-> "none", size |-> 0]

UsedIds(u) == {e.id : e \in ToSet(u)}
Busy == ToSet(vq) \cup inflight \cup ToSet(rq) \cup UsedIds(used)

(* parse_block_error_action(): "enospc" is a write policy only. *)
ErrorPolicies(is_read) ==
    {"ignore", "stop", "report"} \cup (IF is_read THEN {} ELSE {"enospc"})

ASSUME ReadPolicies \subseteq ErrorPolicies(TRUE)
       /\ WritePolicies \subseteq ErrorPolicies(FALSE)

-----------------------------------------------------------------------------
(* The device state a handler works on: the block layer, the stopped and  *)
(* used lists, the stop request, the MultiReqBuffer, the order requests   *)
(* were handed down and whether a freed request was read.                 *)
Dev == [inflight |-> inflight, used |-> used, rq |-> rq, stop |-> stop_req,
        mrb |-> <<>>, issued |-> <<>>, uaf |-> FALSE]

(* virtio_blk_sect_range_ok(): aligned, and within the disk. *)
SectRangeOk(d, tot) == d.aligned /\ d.sector <= tot /\ d.nb <= tot - d.sector

(* virtio_blk_req_complete() and g_free(req) *)
Completed(a, r, status) == [a EXCEPT !.used = Append(@, [id |-> r, status |-> status])]

(* bdrv_get_error_action(bs, is_read, error) *)
ErrorAction(d, err) ==
    LET pol == IF d.kind = "in" THEN rerror ELSE werror IN
    IF pol = "enospc" THEN IF err = "ENOSPC" THEN "stop" ELSE "report" ELSE pol

(* Mutant: a reported error falls through to the OK completion. *)
RwCompleteReportFallsThrough(a, r, err) ==
    IF err = "none" THEN Completed(a, r, "OK")
    ELSE LET act == ErrorAction(desc[r], err) IN
         IF act = "stop" THEN [a EXCEPT !.rq = <<r>> \o @, !.stop = TRUE]
         ELSE IF act = "report" THEN Completed(Completed(a, r, "IOERR"), r, "OK")
         ELSE Completed(a, r, "OK")

(* virtio_blk_rw_complete() and virtio_blk_flush_complete() with          *)
(* virtio_blk_handle_rw_error(): on "stop" the request goes to the head   *)
(* of s->rq and bdrv_error_action() requests a vm stop; "report"          *)
(* completes it with IOERR; "ignore" lets the caller complete it OK.      *)
RwComplete(a, r, err) ==
    IF err = "none" THEN Completed(a, r, "OK")
    ELSE LET act == ErrorAction(desc[r], err) IN
         IF act = "stop" THEN [a EXCEPT !.rq = <<r>> \o @, !.stop = TRUE]
         ELSE IF act = "report" THEN Completed(a, r, "IOERR")
         ELSE Completed(a, r, "OK")

(* virtio_submit_multiwrite(): the buffered writes go down together.      *)
(* bdrv_aio_multiwrite() fails at once only without a medium; each write *)
(* is then completed with -EIO.                                            *)
SubmitMultiwrite(a) ==
    IF a.mrb = <<>> THEN a
    ELSE IF ~medium
         THEN FoldLeft(LAMBDA b, r : RwComplete(b, r, "EIO"), [a EXCEPT !.mrb = <<>>], a.mrb)
    ELSE [a EXCEPT !.inflight = @ \cup ToSet(a.mrb), !.issued = @ \o a.mrb, !.mrb = <<>>]

(* Mutant: the flush is sent without the buffered writes before it. *)
HandleFlushNoSubmit(a, r) ==
    [a EXCEPT !.inflight = @ \cup {r}, !.issued = Append(@, r)]

(* virtio_blk_handle_flush(): the buffered writes first, then the flush. *)
HandleFlush(a, r) ==
    LET b == SubmitMultiwrite(a) IN
    [b EXCEPT !.inflight = @ \cup {r}, !.issued = Append(@, r)]

(* virtio_blk_handle_write(): a full buffer is submitted before the write *)
(* takes the next slot.                                                    *)
HandleWrite(a, r) ==
    IF ~SectRangeOk(desc[r], total) THEN Completed(a, r, "IOERR")
    ELSE LET b == IF Len(a.mrb) = MRB_MAX THEN SubmitMultiwrite(a) ELSE a IN
         [b EXCEPT !.mrb = Append(@, r)]

(* virtio_blk_handle_read(): bdrv_aio_readv() at once. *)
HandleRead(a, r) ==
    IF ~SectRangeOk(desc[r], total) THEN Completed(a, r, "IOERR")
    ELSE [a EXCEPT !.inflight = @ \cup {r}, !.issued = Append(@, r)]

(* virtio_blk_handle_scsi(): synchronous on every path.  A short header  *)
(* completes IOERR; without scsi=on, for a bidirectional command or when  *)
(* SG_IO fails (always, on an image) UNSUPP; else the ioctl's status.     *)
(* No property tells these statuses apart.                                *)
HandleScsi(a, r) == Completed(a, r, "UNSUPP")

(* virtio_blk_handle_request(): by type.  GET_ID completes at once, and   *)
(* unknown types complete UNSUPP.                                          *)
HandleRequest(a, r) ==
    CASE desc[r].kind = "flush" -> HandleFlush(a, r)
      [] desc[r].kind = "scsi"  -> HandleScsi(a, r)
      [] desc[r].kind = "get_id" -> Completed(a, r, "OK")
      [] desc[r].kind = "out"   -> HandleWrite(a, r)
      [] desc[r].kind = "in"    -> HandleRead(a, r)
      [] OTHER                  -> Completed(a, r, "UNSUPP")

(* Whether request r was freed: completed into the used ring. *)
Freed(a, r) == r \in UsedIds(a.used)

(* The loop of virtio_blk_dma_restart_bh(): req = req->next is read after *)
(* virtio_blk_handle_request(req) may have freed req.  The stale pointer  *)
(* is still in the freed block, so the walk goes on as written.           *)
Restarted(a, r) == [HandleRequest(a, r) EXCEPT !.uaf = @ \/ Freed(HandleRequest(a, r), r)]

(* The loop of virtio_blk_handle_output() over the popped heads s, then *)
(* virtio_submit_multiwrite().                                             *)
OutputPass(s) == SubmitMultiwrite(FoldLeft(HandleRequest, Dev, s))

(* virtio_blk_dma_restart_bh(): s->rq taken, its requests handled head    *)
(* first, then virtio_submit_multiwrite().                                 *)
RestartPass(s) == SubmitMultiwrite(FoldLeft(Restarted, [Dev EXCEPT !.rq = <<>>], s))

(* Hand the device state a back to the variables. *)
Apply(a) ==
    /\ inflight' = a.inflight
    /\ used' = a.used
    /\ rq' = a.rq
    /\ stop_req' = a.stop

(* Mutant: the restart is scheduled when the VM stops, not when it runs. *)
DmaRestartCbInverted(is_running) ==
    IF is_running THEN bh ELSE IF bh = "none" THEN "scheduled" ELSE bh

(* virtio_blk_dma_restart_cb(): s->bh after a run state change. *)
DmaRestartCb(is_running) ==
    IF ~is_running THEN bh ELSE IF bh = "none" THEN "scheduled" ELSE bh

(* Mutant: the handler goes on without draining. *)
DrainedSkip == TRUE

(* bdrv_drain_all() is done: nothing in flight. *)
Drained == inflight = {}

-----------------------------------------------------------------------------
(* virtio_blk_device_init() on a drive opened with the rerror/werror of   *)
(* blockdev_init(); the VM runs.                                           *)
Init ==
    /\ vq = <<>>
    /\ desc = [r \in Req |-> NoDesc]
    /\ inflight = {}
    /\ rq = <<>>
    /\ used = <<>>
    /\ bh = "none"
    /\ running = TRUE
    /\ stop_req = FALSE
    /\ op = NoOp
    /\ total = DISK_SECTORS
    /\ medium = TRUE
    /\ rerror \in ReadPolicies
    /\ werror \in WritePolicies
    /\ errors = 0
    /\ epoch = 0
    /\ popped_in = [r \in Req |-> 0]
    /\ uaf = FALSE

(* The guest fills a free head and makes it available. *)
GuestSubmit(r, d) ==
    /\ running
    /\ r \notin Busy
    /\ desc' = [desc EXCEPT ![r] = d]
    /\ vq' = Append(vq, r)
    /\ UNCHANGED <<inflight, rq, used, bh, running, stop_req, op, total, medium,
                   rerror, werror, errors, epoch, popped_in, uaf>>

(* The guest takes the next entry of the used ring. *)
GuestReap ==
    /\ running
    /\ used # <<>>
    /\ used' = Tail(used)
    /\ desc' = [desc EXCEPT ![Head(used).id] = NoDesc]
    /\ UNCHANGED <<vq, inflight, rq, bh, running, stop_req, op, total, medium,
                   rerror, werror, errors, epoch, popped_in, uaf>>

(* virtio_blk_handle_output(): every available request popped and        *)
(* handled, then the buffered writes submitted.                            *)
HandleOutput ==
    /\ op = NoOp
    /\ vq # <<>>
    /\ Apply(OutputPass(vq))
    /\ vq' = <<>>
    /\ popped_in' = [r \in Req |-> IF r \in ToSet(vq) THEN epoch ELSE popped_in[r]]
    /\ UNCHANGED <<desc, bh, running, op, total, medium, rerror, werror, errors,
                   epoch, uaf>>

(* The backend's answers for request r: without a medium reads and       *)
(* writes fail with -ENOMEDIUM and a flush succeeds.                      *)
Outcomes(r) ==
    IF ~medium /\ desc[r].kind # "flush" THEN {"ENOMEDIUM"}
    ELSE {"none"} \cup (IF errors < MAX_ERRORS THEN {"EIO", "ENOSPC"} ELSE {})

(* The block layer calls back for request r with result err. *)
Complete(r, err) ==
    /\ r \in inflight
    /\ Apply(RwComplete([Dev EXCEPT !.inflight = @ \ {r}], r, err))
    /\ errors' = IF err \in {"EIO", "ENOSPC"} THEN errors + 1 ELSE errors
    /\ UNCHANGED <<vq, desc, bh, running, op, total, medium, rerror, werror,
                   epoch, popped_in, uaf>>

(* Mutant: s->bh is deleted but not set to NULL. *)
RestartBhKeepPointer ==
    /\ bh = "scheduled"
    /\ bh' = "deleted"
    /\ Apply(RestartPass(rq))
    /\ uaf' = (uaf \/ RestartPass(rq).uaf)
    /\ UNCHANGED <<vq, desc, running, op, total, medium, rerror, werror, errors,
                   epoch, popped_in>>

(* virtio_blk_dma_restart_bh(): the stopped requests handled again, head *)
(* first, then the buffered writes submitted.  Runs also inside a drain.  *)
RestartBh ==
    /\ bh = "scheduled"
    /\ bh' = "none"
    /\ Apply(RestartPass(rq))
    /\ uaf' = (uaf \/ RestartPass(rq).uaf)
    /\ UNCHANGED <<vq, desc, running, op, total, medium, rerror, werror, errors,
                   epoch, popped_in>>

(* vm_stop(): the run state changes, the change state handlers run, and  *)
(* the block layer is drained.  A stopped VM is left as it is.            *)
StopVm ==
    IF running
    THEN /\ running' = FALSE
         /\ bh' = DmaRestartCb(FALSE)
         /\ op' = [NoOp EXCEPT !.name = "stop"]
    ELSE UNCHANGED <<running, bh, op>>

(* The main loop acts on the stop bdrv_error_action() requested. *)
ProcessStopRequest ==
    /\ op = NoOp
    /\ stop_req
    /\ stop_req' = FALSE
    /\ StopVm
    /\ UNCHANGED <<vq, desc, inflight, rq, used, total, medium, rerror, werror,
                   errors, epoch, popped_in, uaf>>

(* The "stop" monitor command. *)
UserStop ==
    /\ op = NoOp
    /\ running
    /\ StopVm
    /\ UNCHANGED <<vq, desc, inflight, rq, used, stop_req, total, medium, rerror,
                   werror, errors, epoch, popped_in, uaf>>

(* The "cont" monitor command: vm_start() and the change state handlers. *)
Cont ==
    /\ op = NoOp
    /\ ~running
    /\ running' = TRUE
    /\ bh' = DmaRestartCb(TRUE)
    /\ UNCHANGED <<vq, desc, inflight, rq, used, stop_req, op, total, medium,
                   rerror, werror, errors, epoch, popped_in, uaf>>

(* virtio_blk_reset(), from a status write of 0 or a system reset: the   *)
(* drain first.                                                            *)
Reset ==
    /\ op = NoOp
    /\ epoch < MAX_RESETS
    /\ op' = [NoOp EXCEPT !.name = "reset"]
    /\ UNCHANGED <<vq, desc, inflight, rq, used, bh, running, stop_req, total,
                   medium, rerror, werror, errors, epoch, popped_in, uaf>>

(* qmp_block_resize(device, size) on the device's drive: the drain first. *)
BlockResize(n) ==
    /\ op = NoOp
    /\ medium
    /\ op' = [name |-> "resize", size |-> n]
    /\ UNCHANGED <<vq, desc, inflight, rq, used, bh, running, stop_req, total,
                   medium, rerror, werror, errors, epoch, popped_in, uaf>>

(* do_drive_del() on the device's drive: the drain first. *)
DriveDel ==
    /\ op = NoOp
    /\ medium
    /\ op' = [NoOp EXCEPT !.name = "drive_del"]
    /\ UNCHANGED <<vq, desc, inflight, rq, used, bh, running, stop_req, total,
                   medium, rerror, werror, errors, epoch, popped_in, uaf>>

(* The rest of virtio_blk_reset() after the drain: the stopped requests   *)
(* dropped (the drain may have added some), and virtio_reset() empties   *)
(* the rings.                                                              *)
ResetDone ==
    /\ op.name = "reset"
    /\ Drained
    /\ rq' = <<>>
    /\ vq' = <<>>
    /\ used' = <<>>
    /\ desc' = [r \in Req |-> NoDesc]
    /\ epoch' = epoch + 1
    /\ op' = NoOp
    /\ UNCHANGED <<inflight, bh, running, stop_req, total, medium, rerror,
                   werror, errors, popped_in, uaf>>

(* The rest of qmp_block_resize(): bdrv_truncate() succeeds or fails. *)
ResizeDone(ok) ==
    /\ op.name = "resize"
    /\ Drained
    /\ total' = IF ok THEN op.size ELSE total
    /\ op' = NoOp
    /\ UNCHANGED <<vq, desc, inflight, rq, used, bh, running, stop_req, medium,
                   rerror, werror, errors, epoch, popped_in, uaf>>

(* The rest of do_drive_del(): bdrv_close(), and as the device is still  *)
(* attached the drive is made anonymous and set to report errors.        *)
DriveDelDone ==
    /\ op.name = "drive_del"
    /\ Drained
    /\ medium' = FALSE
    /\ total' = 0
    /\ rerror' = "report"
    /\ werror' = "report"
    /\ op' = NoOp
    /\ UNCHANGED <<vq, desc, inflight, rq, used, bh, running, stop_req, errors,
                   epoch, popped_in, uaf>>

(* The rest of vm_stop() after the drain: bdrv_flush_all(). *)
StopDone ==
    /\ op.name = "stop"
    /\ Drained
    /\ op' = NoOp
    /\ UNCHANGED <<vq, desc, inflight, rq, used, bh, running, stop_req, total,
                   medium, rerror, werror, errors, epoch, popped_in, uaf>>

Next ==
    \/ \E r \in Req, d \in Descs : GuestSubmit(r, d)
    \/ GuestReap
    \/ HandleOutput
    \/ \E r \in Req : \E err \in Outcomes(r) : Complete(r, err)
    \/ RestartBh
    \/ ProcessStopRequest
    \/ UserStop
    \/ Cont
    \/ Reset
    \/ \E n \in 1 .. DISK_SECTORS : BlockResize(n)
    \/ DriveDel
    \/ ResetDone
    \/ \E ok \in BOOLEAN : ResizeDone(ok)
    \/ DriveDelDone
    \/ StopDone

(* The main loop delivers every AIO completion, runs every scheduled     *)
(* bottom half and finishes a drain.  It tests for a requested stop on   *)
(* every iteration (main_loop_should_exit), so monitor commands between   *)
(* iterations cannot starve it: strong fairness.  The guest and the       *)
(* monitor are not bound to act.                                          *)
Fairness ==
    /\ \A r \in Req : WF_vars(\E err \in Outcomes(r) : Complete(r, err))
    /\ WF_vars(RestartBh)
    /\ SF_vars(ProcessStopRequest)
    /\ WF_vars(ResetDone \/ \E ok \in BOOLEAN : ResizeDone(ok) \/ DriveDelDone \/ StopDone)

Spec == Init /\ [][Next]_vars /\ Fairness
-----------------------------------------------------------------------------
(* The types of the state.  s->bh is NULL or a bottom half that is still *)
(* scheduled: virtio_blk_dma_restart_bh clears the pointer when it       *)
(* deletes the bottom half, or the next run state change would skip the *)
(* restart.                                                              *)
TypeOK ==
    /\ vq \in Seq(Req)
    /\ desc \in [Req -> Descs \cup {NoDesc}]
    /\ inflight \subseteq Req
    /\ rq \in Seq(Req)
    /\ bh \in {"none", "scheduled"}
    /\ total \in 0 .. DISK_SECTORS
    /\ errors \in 0 .. MAX_ERRORS

(* Every head the guest made available is in one place only: the ring,  *)
(* the block layer, s->rq or the used ring, once.  A completion path that *)
(* both re-queues or reports a request and then completes it again       *)
(* (virtio_blk_rw_complete after virtio_blk_handle_rw_error) would push  *)
(* a head twice, and the guest would reuse a buffer still in use.        *)
RequestOwnedOnce ==
    \A r \in Req :
        Len(SelectSeq(vq, LAMBDA x : x = r)) + (IF r \in inflight THEN 1 ELSE 0)
          + Len(SelectSeq(rq, LAMBDA x : x = r))
          + Len(SelectSeq(used, LAMBDA e : e.id = r)) <= 1

(* After a device reset nothing of the old rings survives: every request *)
(* in flight, stopped or completed was popped since the last reset.  The *)
(* reset drains first and drops s->rq after, as the drain can stop more  *)
(* requests (virtio_blk_reset).                                          *)
ResetQuiesces ==
    \A r \in inflight \cup ToSet(rq) \cup UsedIds(used) : popped_in[r] = epoch

(* In the order a pass hands requests down (issued), a flush comes after *)
(* every write popped before it (s) that went down.                      *)
FlushOrdered(s, issued) ==
    LET At(r) == SelectInSeq(issued, LAMBDA x : x = r) IN
    \A p, q \in DOMAIN s :
        (p < q /\ desc[s[p]].kind = "out" /\ desc[s[q]].kind = "flush" /\ At(s[p]) > 0)
          => At(s[p]) < At(s[q])

(* The next pass of the handler over the ring sends a flush down only    *)
(* after every write the guest made available before it in the ring:     *)
(* writes wait in the MultiReqBuffer, and virtio_blk_handle_flush submits *)
(* them before the flush.  Requests stopped on s->rq are not ordered:    *)
(* they were all outstanding together when they failed.                  *)
FlushAfterWrites == FlushOrdered(vq, OutputPass(vq).issued)

(* A request stopped by an I/O error is never stranded: while s->rq is  *)
(* not empty, the VM is stopped, a stop is pending, a drain is running   *)
(* or the restart bottom half is scheduled (bdrv_error_action,           *)
(* virtio_blk_dma_restart_cb).                                           *)
StoppedRequestsResumable ==
    rq # <<>> => (~running \/ stop_req \/ op # NoOp \/ bh = "scheduled")

(* If the VM runs again and again, every request the device took from   *)
(* the ring leaves the block layer and s->rq: it is completed, or dropped *)
(* by a reset (virtio_blk_dma_restart_cb, virtio_blk_dma_restart_bh).    *)
RequestsSettle ==
    []<>running =>
        \A r \in Req : (r \in inflight \cup ToSet(rq)) ~> (r \notin inflight \cup ToSet(rq))

(* virtio_blk_dma_restart_bh never reads a request it freed. *)
NoUseAfterFree == ~uaf
=============================================================================
