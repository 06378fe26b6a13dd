----------------------------- MODULE RecordLog -----------------------------
(***************************************************************************)
(* What writing and following an au file promises: values are delivered    *)
(* exactly as they were written, in order, each once, and eventually.      *)
(***************************************************************************)
EXTENDS Naturals, Sequences

CONSTANT Values     \* what a caller may write as one record

VARIABLES written, received

logVars == <<written, received>>

LogInit == written = <<>> /\ received = <<>>

Write == \E v \in Values : written' = Append(written, v) /\ UNCHANGED received

Deliver ==
  /\ Len(received) < Len(written)
  /\ received' = Append(received, written[Len(received) + 1])
  /\ UNCHANGED written

LogNext == Write \/ Deliver

LogSafety == LogInit /\ [][LogNext]_logVars
LogSpec == LogSafety /\ WF_logVars(Deliver)
=============================================================================
