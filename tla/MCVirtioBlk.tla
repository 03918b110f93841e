----------------------------- MODULE MCVirtioBlk -----------------------------
(* VirtioBlk with two request heads on a disk of two sectors.  Reads   *)
(* and writes of sector 1 fail the range check once the disk shrinks to  *)
(* one sector or loses its medium.                                        *)
EXTENDS VirtioBlk, TLC

CONSTANTS r1, r2

MCReq == {r1, r2}

Rw(k, s) == [kind |-> k, sector |-> s, nb |-> 1, aligned |-> TRUE]

\* a read and a write of each sector, a write not a multiple of the
\* block size, a zero-length write, a flush, GET_ID and a SCSI command
MCDescs == {Rw("in", 1), Rw("out", 0), Rw("out", 1),
            [kind |-> "out", sector |-> 0, nb |-> 1, aligned |-> FALSE],
            [kind |-> "out", sector |-> 0, nb |-> 0, aligned |-> TRUE],
            Rw("flush", 0), Rw("get_id", 0), Rw("scsi", 0)}

MCSymmetry == Permutations(MCReq)
=============================================================================
