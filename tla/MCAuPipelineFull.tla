-------------------------- MODULE MCAuPipelineFull --------------------------
(* Three strings long enough to be interned, for a vector that fills up. *)
EXTENDS AuPipeline

CONSTANTS price, symbol, venue

MCStr == {price, symbol, venue}
MCStrLen == [s \in MCStr |-> 6]
MCStrOrd == [s \in MCStr |->
  CASE s = price -> 1 [] s = symbol -> 2 [] OTHER -> 3]
=============================================================================
