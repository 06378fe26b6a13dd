---------------------------- MODULE MCAuEncoder ----------------------------
(* Two strings that one dictionary record cannot hold, and a shorter one.    *)
EXTENDS AuEncoder

CONSTANTS price, symbol, venue

MCStr == {price, symbol, venue}
MCStrLen == [s \in MCStr |-> IF s = venue THEN 5 ELSE 12]
MCStrOrd == [s \in MCStr |-> CASE s = price -> 1 [] s = symbol -> 2 [] OTHER -> 3]
===========================================================================
