---------------------------- MODULE MCAuPipeline ----------------------------
(* Two strings long enough to be interned. *)
EXTENDS AuPipeline

CONSTANTS price, venue

MCStr == {price, venue}
MCStrLen == [s \in MCStr |-> 5]
MCStrOrd == [s \in MCStr |-> IF s = price THEN 1 ELSE 2]
=============================================================================
