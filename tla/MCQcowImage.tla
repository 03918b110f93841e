----------------------------- MODULE MCQcowImage -----------------------------
(* QcowImage with 16-byte clusters: 2 entries per L2 table, 8 counters per *)
(* refcount block, so that the image needs a second refcount block.        *)
EXTENDS QcowImage

MCDiscardPassthrough == {"always", "request", "snapshot", "other"}

\* overlap-check=all: every section is tested
MCOverlapCheck == ToSet(OlSections)
=============================================================================
