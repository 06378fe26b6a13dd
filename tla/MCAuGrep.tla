------------------------------ MODULE MCAuGrep ------------------------------
(* Command lines in which contexts overlap, follow, stop and count. *)
EXTENDS AuGrep

Opt(b, a, m, f, c, d) ==
  [before |-> b, after |-> a, matches |-> m, follow |-> f, count |-> c, dated |-> d]

MCOptions ==
  {Opt(1, 1, 9, FALSE, FALSE, FALSE), Opt(2, 0, 9, FALSE, FALSE, TRUE),
   Opt(0, 2, 1, FALSE, FALSE, FALSE), Opt(1, 0, 1, TRUE, FALSE, FALSE),
   Opt(0, 1, 9, TRUE, FALSE, TRUE), Opt(0, 0, 1, TRUE, TRUE, FALSE)}
=============================================================================
