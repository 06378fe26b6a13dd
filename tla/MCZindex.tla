------------------------------ MODULE MCZindex ------------------------------
(* A file of ten bytes in five blocks, the last of them empty; an index that  *)
(* takes an access point after more than five bytes has one at the start and *)
(* one at position 8.                                                        *)
EXTENDS Zindex

MCBlocks == <<[out |-> 3, in |-> 3], [out |-> 4, in |-> 4],
              [out |-> 8, in |-> 7], [out |-> 10, in |-> 8],
              [out |-> 10, in |-> 9]>>
=============================================================================
