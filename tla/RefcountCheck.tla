---------------------------- MODULE RefcountCheck ----------------------------
(***************************************************************************)
(* The consistency checker of qcow2-refcount.c: qcow2_check_refcounts()   *)
(* with calculate_refcounts(), the walks of the L1/L2 tables, the check   *)
(* of the refcount blocks, compare_refcounts() and check_oflag_copied().  *)
(*                                                                         *)
(* rc is the in-memory refcount table the checker builds, a function      *)
(* from the image's clusters to counts.  res is the BdrvCheckResult.      *)
(* The fix mode is report-only (FALSE) or BDRV_FIX_LEAKS (TRUE); the      *)
(* rebuild of BDRV_FIX_ERRORS is not modelled.  The checker's own reads   *)
(* and writes do not fail here.                                            *)
(***************************************************************************)
EXTENDS SnapshotRefcount, SequencesExt

NoErrors == [corruptions |-> 0, leaks |-> 0, leaks_fixed |-> 0,
             corruptions_fixed |-> 0, check_errors |-> 0, rebuild |-> FALSE]

(* inc_refcounts(): +1 for each cluster of [offset, offset + size) *)
IncRefcounts(rc, offset, size) ==
    IF size <= 0 THEN rc
    ELSE [k \in DOMAIN rc |->
            IF offset \div CS <= k /\ k <= (offset + size - 1) \div CS
            THEN rc[k] + 1 ELSE rc[k]]

(* check_refcounts_l2(): every allocated entry of L2 table l2t *)
CheckRefcountsL2(rc, l2t) ==
    [k \in DOMAIN rc |-> rc[k] + Quantify(L2Index, LAMBDA j : l2t[j].off = k /\ k # 0)]

(* check_refcounts_l1(): the L1 table's own clusters, then each L2 table  *)
(* it points at and that table's entries.                                  *)
RECURSIVE CheckL1Loop(_, _, _, _)
CheckL1Loop(rc, l1, l2, i) ==
    IF i = L1_SIZE THEN rc
    ELSE CheckL1Loop(IF l1[i].off = 0 THEN rc
                     ELSE CheckRefcountsL2(IncRefcounts(rc, l1[i].off * CS, CS),
                                           l2[l1[i].off]),
                     l1, l2, i + 1)

CheckRefcountsL1(rc, l1off, l1, l2) ==
    CheckL1Loop(IncRefcounts(rc, l1off * CS, L1_SIZE * 8), l1, l2, 0)

(* check_refblocks(): each refcount block counted, and flagged (with a    *)
(* rebuild) when its count is not exactly 1 after that.                   *)
RECURSIVE RefblocksLoop(_, _, _, _)
RefblocksLoop(rt, rc, res, i) ==
    IF i = Cardinality(DOMAIN rt) THEN [rc |-> rc, res |-> res]
    ELSE IF rt[i] = 0 THEN RefblocksLoop(rt, rc, res, i + 1)
    ELSE LET rc2 == IncRefcounts(rc, rt[i], CS) IN
         RefblocksLoop(rt, rc2,
                       IF rc2[rt[i] \div CS] # 1
                       THEN [res EXCEPT !.corruptions = @ + 1, !.rebuild = TRUE]
                       ELSE res,
                       i + 1)

(* calculate_refcounts() over an image of nb clusters: the header, the    *)
(* active L1 table, every snapshot's L1 table (snaps, a sequence of       *)
(* [off, l1]), the refcount table and the refcount blocks.  The snapshot  *)
(* table itself is not modelled.                                           *)
CalculateRefcounts(st, l1off, l1, snaps, nb) ==
    LET rc0  == IncRefcounts([k \in 0 .. nb - 1 |-> 0], 0, CS)
        rc1  == CheckRefcountsL1(rc0, l1off, l1, st.l2)
        rc2  == FoldLeft(LAMBDA rc, sn : CheckRefcountsL1(rc, sn.off, sn.l1, st.l2),
                         rc1, snaps)
    IN RefblocksLoop([i \in 0 .. st.rts - 1 |-> st.rt[i]],
                     IncRefcounts(rc2, st.rto, st.rts * 8), NoErrors, 0)

-----------------------------------------------------------------------------
(* A mismatch compare_refcounts() did not fix: a stored count below the  *)
(* computed one is a corruption, one above it a leak.                     *)
Tally(res, r1, r2) ==
    IF r1 < r2 THEN [res EXCEPT !.corruptions = @ + 1]
    ELSE [res EXCEPT !.leaks = @ + 1]

(* Mutant: the repair adds the difference the wrong way round. *)
FixAddendSwapped(r1, r2) == r1 - r2

(* The addend compare_refcounts() repairs a mismatch with. *)
FixAddend(r1, r2) == r2 - r1

RECURSIVE CompareLoop(_, _, _, _, _), CompareCluster(_, _, _, _, _),
          CompareFixed(_, _, _, _, _, _)
CompareFixed(u, rc, fix, res, i, r1) ==
    CompareLoop(u.st, rc, fix,
                IF u.ret >= 0 THEN [res EXCEPT !.leaks_fixed = @ + 1]
                ELSE Tally(res, r1, rc[i]),
                i + 1)

(* One cluster: stored count r (get_refcount) against computed rc[i].  A *)
(* stored 0 asks for a rebuild; with BDRV_FIX_LEAKS a leak is repaired    *)
(* by update_refcount().                                                   *)
CompareCluster(r, rc, fix, res, i) ==
    IF r.ret < 0 THEN CompareLoop(r.st, rc, fix, [res EXCEPT !.check_errors = @ + 1], i + 1)
    ELSE IF r.ret = rc[i] THEN CompareLoop(r.st, rc, fix, res, i + 1)
    ELSE LET res1 == IF r.ret = 0 THEN [res EXCEPT !.rebuild = TRUE] ELSE res IN
         IF r.ret > rc[i] /\ fix
         THEN CompareFixed(UpdateRefcount(r.st, i * CS, 1, FixAddend(r.ret, rc[i]), "always"),
                           rc, fix, res1, i, r.ret)
         ELSE CompareLoop(r.st, rc, fix, Tally(res1, r.ret, rc[i]), i + 1)

(* compare_refcounts(): returns [st, res] *)
CompareLoop(st, rc, fix, res, i) ==
    IF i = Cardinality(DOMAIN rc) THEN [st |-> st, res |-> res]
    ELSE CompareCluster(GetRefcount(st, i), rc, fix, res, i)

(* A COPIED bit that disagrees with refcount == 1: repaired or counted. *)
Flagged(res, bad, repair) ==
    IF ~bad THEN res
    ELSE IF repair THEN [res EXCEPT !.corruptions_fixed = @ + 1]
    ELSE [res EXCEPT !.corruptions = @ + 1]

RECURSIVE OflagL1Loop(_, _, _, _, _), OflagL1Entry(_, _, _, _, _),
          OflagL2Loop(_, _, _, _, _, _), OflagL2Entry(_, _, _, _, _, _)
(* check_oflag_copied(): the L1 entries of the active table ... *)
OflagL1Loop(st, l1, res, repair, i) ==
    IF i = L1_SIZE THEN [st |-> st, l1 |-> l1, res |-> res, ret |-> 0]
    ELSE IF l1[i].off = 0 THEN OflagL1Loop(st, l1, res, repair, i + 1)
    ELSE OflagL1Entry(GetRefcount(st, l1[i].off), l1, res, repair, i)

OflagL1Entry(r, l1, res, repair, i) ==
    IF r.ret < 0 THEN OflagL1Loop(r.st, l1, res, repair, i + 1)
    ELSE LET bad == (r.ret = 1) # l1[i].copied IN
         OflagL2Loop(r.st,
                     IF bad /\ repair THEN [l1 EXCEPT ![i] = WithCopied(@, r.ret)] ELSE l1,
                     Flagged(res, bad, repair), repair, i, 0)

(* ... and the entries of the L2 table each one points at *)
OflagL2Loop(st, l1, res, repair, i, j) ==
    IF j = L2_SIZE THEN OflagL1Loop(st, l1, res, repair, i + 1)
    ELSE IF st.l2[l1[i].off][j].off = 0 THEN OflagL2Loop(st, l1, res, repair, i, j + 1)
    ELSE OflagL2Entry(GetRefcount(st, st.l2[l1[i].off][j].off), l1, res, repair, i, j)

OflagL2Entry(r, l1, res, repair, i, j) ==
    LET t == l1[i].off
        bad == r.ret >= 0 /\ (r.ret = 1) # r.st.l2[t][j].copied
    IN OflagL2Loop(IF bad /\ repair
                   THEN [r.st EXCEPT !.l2[t][j] = WithCopied(@, r.ret)] ELSE r.st,
                   l1, Flagged(res, bad, repair), repair, i, j + 1)

(* check_oflag_copied(bs, res, fix): repairs only when nothing else is    *)
(* left wrong, as refcounts are trusted then.                             *)
CheckOflagCopied(st, l1, fix, res) ==
    OflagL1Loop(st, l1, res,
                fix /\ res.check_errors = 0 /\ res.corruptions = 0 /\ res.leaks = 0, 0)

(* The COPIED bits after the comparison f that repaired the leaks. *)
CheckFixed(f, l1) == CheckOflagCopied(f.st, l1, TRUE, f.res)

(* After the report-only comparison cmp: refuse when a rebuild is needed, *)
(* compare again with the fix when something is wrong, then check the    *)
(* COPIED bits.                                                            *)
CheckFix(cmp, c, l1, fix) ==
    IF ~fix THEN CheckOflagCopied(cmp.st, l1, FALSE, cmp.res)
    ELSE IF cmp.res.rebuild
         THEN [st |-> cmp.st, l1 |-> l1, ret |-> EIO,
               res |-> [cmp.res EXCEPT !.check_errors = @ + 1]]
    ELSE IF cmp.res.leaks > 0 \/ cmp.res.corruptions > 0
         THEN CheckFixed(CompareLoop(cmp.st, c.rc, TRUE, c.res, 0), l1)
    ELSE CheckOflagCopied(cmp.st, l1, TRUE, cmp.res)

(* The comparison of the stored counts with the computed ones c. *)
CheckCompared(st, c, l1, fix) == CheckFix(CompareLoop(st, c.rc, FALSE, c.res, 0), c, l1, fix)

(* qcow2_check_refcounts(bs, res, fix) over an image of nb clusters:      *)
(* returns [st, l1, res, ret].                                            *)
CheckRefcounts(st, l1off, l1, snaps, nb, fix) ==
    CheckCompared(st, CalculateRefcounts(st, l1off, l1, snaps, nb), l1, fix)

=============================================================================
