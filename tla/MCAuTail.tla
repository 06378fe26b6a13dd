------------------------------ MODULE MCAuTail ------------------------------
(* How TLC uses AuTail: tail and tail -f, which enter once a file that may    *)
(* hold a false start; and the bisection of grep, which enters a file         *)
(* several times and does not expect it to grow.                              *)
EXTENDS AuTail

TailUse(follow) ==
  [follow |-> follow, grows |-> TRUE, records |-> 6, falses |-> 1,
   entries |-> 1, enterAt |-> {1, 4}]
BisectUse ==
  [follow |-> FALSE, grows |-> FALSE, records |-> 7, falses |-> 0,
   entries |-> 2, enterAt |-> {4}]
MCUses == {TailUse(FALSE), TailUse(TRUE), BisectUse}

MCTornUses ==
  {[follow |-> FALSE, grows |-> TRUE, records |-> 4, falses |-> 0,
    entries |-> 1, enterAt |-> {1, 4}]}
=============================================================================
