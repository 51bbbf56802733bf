--------------------------- MODULE MCDataMovers ---------------------------
(* A file in two extents, the second one before the first on the device,  *)
(* and a page file of two blocks.                                         *)
EXTENDS DataMovers

MCFileExtents == <<[begin |-> 7, count |-> 3], [begin |-> 2, count |-> 2]>>

MCPageExtents == <<[begin |-> 4, count |-> 2]>>
=============================================================================
