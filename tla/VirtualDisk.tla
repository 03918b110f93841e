------------------------------ MODULE VirtualDisk ------------------------------
(***************************************************************************)
(* What a qcow2 image promises its guest: a disk of guest clusters with   *)
(* internal snapshots.  A write changes one cluster of the disk, a        *)
(* snapshot creation keeps a copy of the whole disk, a deletion drops     *)
(* one copy; nothing else ever changes the disk or a copy.  A call that   *)
(* fails is a step that changes nothing here.                             *)
(*                                                                         *)
(* A cluster holds one bit, and a write flips it, which is all the        *)
(* properties of the image tell apart.                                    *)
(***************************************************************************)
EXTENDS Naturals, Sequences, SequencesExt

CONSTANTS
    Guest,          \* the guest clusters
    MAX_SNAPSHOTS   \* the snapshots that may exist at once

VARIABLES
    disk,   \* what the guest reads, by guest cluster
    snaps   \* the snapshots, in creation order: a disk each

Init ==
    /\ disk = [g \in Guest |-> 0]
    /\ snaps = <<>>

Write(g) ==
    /\ disk' = [disk EXCEPT ![g] = 1 - @]
    /\ UNCHANGED snaps

CreateSnapshot ==
    /\ Len(snaps) < MAX_SNAPSHOTS
    /\ snaps' = Append(snaps, disk)
    /\ UNCHANGED disk

DeleteSnapshot(k) ==
    /\ snaps' = RemoveAt(snaps, k)
    /\ UNCHANGED disk

Next ==
    \/ \E g \in Guest : Write(g)
    \/ CreateSnapshot
    \/ \E k \in DOMAIN snaps : DeleteSnapshot(k)

Spec == Init /\ [][Next]_<<disk, snaps>>
=============================================================================
