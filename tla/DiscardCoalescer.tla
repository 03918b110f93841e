-------------------------- MODULE DiscardCoalescer --------------------------
(***************************************************************************)
(* A stand-alone run of the discard coalescer (DiscardQueue): clusters     *)
(* whose refcount drops to zero are queued in any order (update_refcount  *)
(* frees a cluster at most once while it is queued), and the queue is      *)
(* drained by qcow2_process_discards() at any time.                        *)
(***************************************************************************)
EXTENDS DiscardQueue

CONSTANTS
    CLUSTER_SIZE,   \* bytes per cluster
    NB_CLUSTERS     \* clusters of the image the run frees

ASSUME CLUSTER_SIZE \in Nat \ {0} /\ NB_CLUSTERS \in Nat \ {0}

VARIABLES
    discards,   \* s->discards
    freed       \* ghost: the clusters queued since the last drain

vars == <<discards, freed>>

Clusters == 0 .. NB_CLUSTERS - 1

Init ==
    /\ discards = <<>>
    /\ freed = {}

\* update_refcount() brings cluster c to refcount 0 with discard passthrough
QueueCluster(c) ==
    /\ c \notin freed
    /\ discards' = Enqueue(discards, c * CLUSTER_SIZE, CLUSTER_SIZE)
    /\ freed' = freed \cup {c}

\* qcow2_process_discards(bs, ret): every region is removed (and passed to
\* bdrv_discard when ret >= 0, which leaves no state here)
ProcessDiscards ==
    /\ discards # <<>>
    /\ discards' = <<>>
    /\ freed' = {}

Next ==
    \/ \E c \in Clusters : QueueCluster(c)
    \/ ProcessDiscards

Spec == Init /\ [][Next]_vars

-----------------------------------------------------------------------------
\* The queue holds exactly the bytes of the freed clusters: no merge loses or
\* invents a byte (update_refcount_discard, offset/bytes arithmetic).
QueueCoversFreed ==
    Covered(discards) = UNION {c * CLUSTER_SIZE .. (c + 1) * CLUSTER_SIZE - 1 : c \in freed}

\* The queue stays coalesced: no two regions overlap or abut, so each run of
\* freed clusters is one bdrv_discard call, and the two assert()s of
\* update_refcount_discard ("There can't be any overlap") never fire.
QueueCoalesced ==
    \A i, j \in 1..Len(discards) :
        i # j => \/ discards[i].offset + discards[i].bytes < discards[j].offset
                 \/ discards[j].offset + discards[j].bytes < discards[i].offset
=============================================================================
