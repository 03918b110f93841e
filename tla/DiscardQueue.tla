---------------------------- MODULE DiscardQueue ----------------------------
(***************************************************************************)
(* The discard coalescer of block/qcow2-refcount.c: s->discards, the queue *)
(* of byte ranges whose refcount dropped to zero, filled by                *)
(* update_refcount_discard() and drained by qcow2_process_discards().      *)
(*                                                                         *)
(* The queue is a sequence of regions [offset, bytes] in QTAILQ order.     *)
(* Enqueue is the whole of update_refcount_discard(): the search for a     *)
(* region the new range touches, the append when there is none, and the    *)
(* merge pass that folds further regions into the grown one.              *)
(***************************************************************************)
EXTENDS Naturals, Sequences, SequencesExt

LOCAL MinOf(a, b) == IF a < b THEN a ELSE b
LOCAL MaxOf(a, b) == IF a > b THEN a ELSE b

Region(o, b) == [offset |-> o, bytes |-> b]

\* The first loop of update_refcount_discard(): the index of the first
\* queued region d with new_end - new_start <= length + d->bytes, or 0.
FirstTouching(q, offset, length) ==
    LET hits == {i \in 1..Len(q) :
                   MaxOf(offset + length, q[i].offset + q[i].bytes)
                     - MinOf(offset, q[i].offset) <= length + q[i].bytes}
    IN IF hits = {} THEN 0 ELSE CHOOSE i \in hits : \A j \in hits : i <= j

\* Mutant: regions that only abut are taken to be apart.
ApartOrAbutting(p, d) ==
    p.offset >= d.offset + d.bytes \/ d.offset >= p.offset + p.bytes

\* The skip test of the merge pass: p lies wholly before or after d, with a
\* gap between them.
Apart(p, d) == p.offset > d.offset + d.bytes \/ d.offset > p.offset + p.bytes

\* Mutant: the merged region keeps d's offset.
AbsorbKeepingOffset(d, p) == Region(d.offset, d.bytes + p.bytes)

\* d grown by the region p it touches.
Absorb(d, p) == Region(MinOf(d.offset, p.offset), d.bytes + p.bytes)

\* The merge pass (QTAILQ_FOREACH_SAFE over p): every region p other than d
\* that overlaps or abuts d is removed and added into d.  k walks the queue
\* in order; d is the position of the grown region.
RECURSIVE MergePass(_, _, _)
MergePass(q, d, k) ==
    IF k > Len(q) THEN q
    ELSE IF k = d \/ Apart(q[k], q[d])
         THEN MergePass(q, d, k + 1)
         ELSE LET q1 == RemoveAt([q EXCEPT ![d] = Absorb(q[d], q[k])], k)
              IN MergePass(q1, IF k < d THEN d - 1 ELSE d, k)

\* update_refcount_discard(bs, offset, length)
Enqueue(q, offset, length) ==
    LET i == FirstTouching(q, offset, length)
        merged == IF i = 0 THEN q
                  ELSE [q EXCEPT ![i] =
                          Region(MinOf(offset, q[i].offset),
                                 MaxOf(offset + length, q[i].offset + q[i].bytes)
                                   - MinOf(offset, q[i].offset))]
        q1 == IF i = 0 THEN Append(q, Region(offset, length)) ELSE merged
        d  == IF i = 0 THEN Len(q1) ELSE i
    IN MergePass(q1, d, 1)

\* The bytes a queue covers.
Covered(q) == UNION {q[i].offset .. q[i].offset + q[i].bytes - 1 : i \in 1..Len(q)}

=============================================================================
