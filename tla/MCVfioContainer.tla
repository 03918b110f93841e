------------------------- MODULE MCVfioContainer -------------------------
(***************************************************************************)
(* VfioContainer for TLC.  Four host devices in two IOMMU groups:         *)
(*   d1 (g1, bus b1): no reset of its own, needs a bus reset;             *)
(*   d2 (g2, bus b1): function-level reset;                               *)
(*   d3 (g1, bus b1): PM reset only;                                      *)
(*   d4 (g2, bus b2): no reset of its own, alone on its bus.              *)
(* So bus b1's hot reset needs both groups, g1 can be open with d3 not in *)
(* use, and d4's hot reset touches no other device.  Pages of 4 units;    *)
(* the sections cover a page-aligned RAM section, one that ends inside a  *)
(* page, MMIO over the first, an unaligned alias and a sub-page piece.   *)
(***************************************************************************)
EXTENDS VfioContainer

CONSTANTS d1, d2, d3, d4, g1, g2, b1, b2

MCGroupOf == (d1 :> g1) @@ (d2 :> g2) @@ (d3 :> g1) @@ (d4 :> g2)
MCBusOf == (d1 :> b1) @@ (d2 :> b1) @@ (d3 :> b1) @@ (d4 :> b2)
MCDevOrder == <<d1, d2, d3, d4>>

MCSections ==
    { [start |-> 0, size |-> 6, ram |-> TRUE, roff |-> 0],
      [start |-> 6, size |-> 10, ram |-> TRUE, roff |-> 2],
      [start |-> 0, size |-> 6, ram |-> FALSE, roff |-> 0],
      [start |-> 8, size |-> 8, ram |-> TRUE, roff |-> 1],
      [start |-> 6, size |-> 3, ram |-> TRUE, roff |-> 6] }
=============================================================================
