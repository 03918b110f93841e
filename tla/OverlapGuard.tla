----------------------------- MODULE OverlapGuard -----------------------------
(***************************************************************************)
(* qcow2_check_metadata_overlap() and qcow2_pre_write_overlap_check(): the *)
(* guard that refuses a write landing on metadata, over the image state   *)
(* of SnapshotRefcount (the engine record st, the active L1 table at      *)
(* cluster l1off and the snapshots, a sequence of [off, l1]).             *)
(*                                                                         *)
(* A section is named by its QCow2MetadataOverlap bit; the guard returns  *)
(* the first section hit, in the order the code tests them, or "none".   *)
(* The image has no snapshot table (s->snapshots_size = 0), so that       *)
(* section is never tested.                                                *)
(***************************************************************************)
EXTENDS SnapshotRefcount, SequencesExt

CONSTANT OVERLAP_CHECK  \* s->overlap_check, the set of sections tested

OlSections == <<"main_header", "active_l1", "refcount_table", "snapshot_table",
                "inactive_l1", "active_l2", "refcount_block", "inactive_l2">>

ASSUME OVERLAP_CHECK \subseteq ToSet(OlSections)

(* Mutant: ranges that only touch count as overlapping. *)
RangesOverlapTouching(first1, len1, first2, len2) ==
    ~(first2 + len2 < first1 \/ first1 + len1 < first2)

(* overlaps_with(ofs, sz): ranges_overlap(offset, size, ofs, sz) *)
RangesOverlap(first1, len1, first2, len2) ==
    ~(first2 + len2 - 1 < first1 \/ first1 + len1 - 1 < first2)

(* The byte ranges <<ofs, sz>> of each section the loops of the guard    *)
(* test: the L1 and refcount tables, each snapshot's L1 table, the L2    *)
(* tables of the active L1 table, the refcount blocks, and the L2 tables *)
(* of each snapshot's L1 table as read from disk.                         *)
Sections(st, l1off, l1, snaps) ==
    [active_l1      |-> {<<l1off * CS, L1_SIZE * 8>>},
     refcount_table |-> {<<st.rto, st.rts * 8>>},
     snapshot_table |-> {},
     inactive_l1    |-> {<<sn.off * CS, L1_SIZE * 8>> : sn \in ToSet(snaps)},
     active_l2      |-> {<<l1[i].off * CS, CS>> : i \in {k \in L1Index : l1[k].off # 0}},
     refcount_block |-> {<<st.rt[i], CS>> : i \in {k \in 0 .. st.rts - 1 : st.rt[k] # 0}},
     inactive_l2    |-> {<<e.off * CS, CS>> :
                          e \in {sn.l1[i] : sn \in ToSet(snaps), i \in L1Index} \ {Unallocated}}]

(* The test of the sections after the header (sections sec), on the     *)
(* range rounded out to whole clusters.                                   *)
SectionHit(sec, chk, offset, size) ==
    LET Hit(s) == s # "main_header" /\ s \in chk
                  /\ \E r \in sec[s] : RangesOverlap(offset, size, r[1], r[2])
        k == SelectInSeq(OlSections, Hit)
    IN IF k = 0 THEN "none" ELSE OlSections[k]

(* Mutant: the size is rounded up without the offset into the cluster. *)
CheckMetadataOverlapUnaligned(sec, ign, offset, size) ==
    LET chk == OVERLAP_CHECK \ ign IN
    IF size = 0 THEN "none"
    ELSE IF "main_header" \in chk /\ offset < CS THEN "main_header"
    ELSE SectionHit(sec, chk, StartOfCluster(offset), SizeToClusters(size) * CS)

(* qcow2_check_metadata_overlap(bs, ign, offset, size) over the sections *)
(* sec of the image: the first section of s->overlap_check \ ign the     *)
(* write hits, or "none".                                                  *)
CheckMetadataOverlap(sec, ign, offset, size) ==
    LET chk == OVERLAP_CHECK \ ign IN
    IF size = 0 THEN "none"
    ELSE IF "main_header" \in chk /\ offset < CS THEN "main_header"
    ELSE SectionHit(sec, chk, StartOfCluster(offset), SizeToClusters((offset % CS) + size) * CS)

(* qcow2_pre_write_overlap_check(): -EIO on an overlap (the image is then *)
(* marked corrupt), else 0.                                               *)
PreWriteOverlapCheck(sec, ign, offset, size) ==
    IF CheckMetadataOverlap(sec, ign, offset, size) # "none" THEN EIO ELSE 0
=============================================================================
