-------------------------- MODULE BlockTransaction --------------------------
(***************************************************************************)
(* qmp_transaction() in blockdev.c: a group of external snapshots taken   *)
(* as a set.  Each action is prepared in list order (the new image is     *)
(* created and opened, and a BlockDriverState allocated for it); the     *)
(* first failure stops the loop, and then every action prepared so far,  *)
(* the failing one included, is aborted (its new BlockDriverState        *)
(* unreferenced).  When all prepares succeed each action is committed:   *)
(* bdrv_append() makes the new image the device's active layer.  The     *)
(* command runs in the main loop as one step.                            *)
(*                                                                         *)
(* An image is named by its file; chain[d] lists the snapshot images of  *)
(* device d over its original image, the active one first.               *)
(***************************************************************************)
EXTENDS Naturals, Sequences, SequencesExt, FiniteSets

CONSTANTS
    Devices,    \* the drives a snapshot can name (bdrv_find)
    Files,      \* snapshot image files
    MAX_LIST,   \* actions in one transaction
    NONE,       \* a NULL BlockDriverState
    NoMedium,   \* devices without a medium (bdrv_is_inserted false)
    InUse,      \* devices a block job holds (bdrv_in_use)
    ReadOnly    \* devices opened read-only (bdrv_is_read_only)

VARIABLES
    chain,      \* each device's snapshot images, the active one first
    loose,      \* BlockDriverStates bdrv_new() made that are neither in a
                \* chain nor unreferenced
    request     \* ghost: the action list of the last command

vars == <<chain, loose, request>>

Abstract == INSTANCE GroupSnapshot

\* How a prepare step ends: it passes, or it fails before bdrv_new()
\* (bdrv_find_format, or bdrv_img_create of a new file: "format"), at the
\* flush of a writable device, or at bdrv_open.
Outcomes == {"ok", "format", "flush", "open"}

\* external_snapshot_prepare(): [ok, new], new being the BlockDriverState
\* allocated by bdrv_new(), NONE if the step failed before it.
SnapshotPrepare(e, o) ==
    IF o = "format" \/ e.dev \in NoMedium \/ e.dev \in InUse
       \/ (o = "flush" /\ e.dev \notin ReadOnly)
    THEN [ok |-> FALSE, new |-> NONE]
    ELSE [ok |-> o # "open", new |-> e.file]

\* Mutant: an action is queued only once its prepare succeeded.
RECURSIVE PrepareLoopQueueOnSuccess(_, _, _)
PrepareLoopQueueOnSuccess(xs, os, r) ==
    IF xs = <<>> THEN r
    ELSE LET p == SnapshotPrepare(Head(xs), Head(os))
             q == [dev |-> Head(xs).dev, file |-> Head(xs).file, new |-> p.new]
             a == [r EXCEPT !.alloc = @ \cup ({p.new} \ {NONE})]
         IN IF ~p.ok THEN [a EXCEPT !.failed = TRUE]
            ELSE PrepareLoopQueueOnSuccess(Tail(xs), Tail(os), [a EXCEPT !.states = Append(@, q)])

\* The first loop of qmp_transaction(): each action's state is queued on
\* snap_bdrv_states, then prepared; a failure ends the loop.  r records
\* the queue, whether a prepare failed, and the BlockDriverStates
\* bdrv_new() allocated.
RECURSIVE PrepareLoop(_, _, _)
PrepareLoop(xs, os, r) ==
    IF xs = <<>> THEN r
    ELSE LET p == SnapshotPrepare(Head(xs), Head(os))
             q == [dev |-> Head(xs).dev, file |-> Head(xs).file, new |-> p.new]
             a == [r EXCEPT !.states = Append(@, q), !.alloc = @ \cup ({p.new} \ {NONE})]
         IN IF ~p.ok THEN [a EXCEPT !.failed = TRUE]
            ELSE PrepareLoop(Tail(xs), Tail(os), a)

\* snap_bdrv_states empty, before the loop.
NoStates == [states |-> <<>>, failed |-> FALSE, alloc |-> {}]

\* external_snapshot_commit(): bdrv_append() swaps the new image in as
\* the device's active layer over the old one.  (The reopen read-only of
\* the old image that follows may fail and is ignored.)
SnapshotCommit(s, q) ==
    [s EXCEPT !.chain[q.dev] = <<q.new>> \o @, !.loose = @ \ {q.new}]

\* external_snapshot_abort(): the new BlockDriverState, if any, is
\* unreferenced.
SnapshotAbort(s, q) ==
    IF q.new # NONE THEN [s EXCEPT !.loose = @ \ {q.new}] ELSE s

\* Mutant: on failure the actions whose prepare passed are committed.
QmpTransactionCommitPrepared(s, req, os) ==
    LET p  == PrepareLoop(req, os, NoStates)
        s1 == [s EXCEPT !.loose = @ \cup p.alloc]
    IN IF p.failed
       THEN FoldLeft(SnapshotAbort,
                     FoldLeft(SnapshotCommit, s1, SubSeq(p.states, 1, Len(p.states) - 1)),
                     <<p.states[Len(p.states)]>>)
       ELSE FoldLeft(SnapshotCommit, s1, p.states)

\* qmp_transaction(): prepare all, then commit all, or abort all that
\* were queued (delete_and_fail).  The states are freed at exit.
QmpTransaction(s, req, os) ==
    LET p  == PrepareLoop(req, os, NoStates)
        s1 == [s EXCEPT !.loose = @ \cup p.alloc]
    IN IF p.failed THEN FoldLeft(SnapshotAbort, s1, p.states)
       ELSE FoldLeft(SnapshotCommit, s1, p.states)

Init ==
    /\ chain = [d \in Devices |-> <<>>]
    /\ loose = {}
    /\ request = <<>>

\* Files already in some device's chain.
Used == UNION {ToSet(chain[d]) : d \in Devices}

\* The QMP command "transaction" with a list of blockdev-snapshot-sync
\* actions, each prepare ending as os says.
Transaction(req, os) ==
    LET s == QmpTransaction([chain |-> chain, loose |-> loose], req, os)
    IN chain' = s.chain /\ loose' = s.loose /\ request' = req

\* blockdev-snapshot-sync: a transaction of one action
\* (blockdev_do_action).
BlockdevSnapshotSync(e, o) == Transaction(<<e>>, <<o>>)

Next ==
    \/ \E req \in Abstract!Requests, os \in [1 .. MAX_LIST -> Outcomes] :
          /\ Len(req) > 1
          /\ \A i \in DOMAIN req : req[i].file \notin Used
          /\ Transaction(req, SubSeq(os, 1, Len(req)))
    \/ \E e \in Abstract!Entries, o \in Outcomes :
          (e.file \notin Used \/ e.dev \in NoMedium) /\ BlockdevSnapshotSync(e, o)

Spec == Init /\ [][Next]_vars

-----------------------------------------------------------------------------
TypeOK ==
    /\ chain \in [Devices -> Seq(Files)]
    /\ loose \subseteq Files
    /\ request \in Seq(Abstract!Entries)

(* No BlockDriverState a transaction allocated outlives it unaccounted:  *)
(* each new image is the active layer of its device or was unreferenced, *)
(* the one whose bdrv_open failed included (the state is queued before   *)
(* prepare runs, so delete_and_fail reaches it).                          *)
NoLeakedBds == loose = {}

(* The transaction implements the group snapshot: every device of the   *)
(* list pivoted to its new image in list order, or, when any prepare     *)
(* fails, no device pivoted (qmp_transaction's all-or-none).             *)
GroupSnapshotRefined == Abstract!Spec
=============================================================================
