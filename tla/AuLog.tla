------------------------------- MODULE AuLog -------------------------------
(***************************************************************************)
(* A log file and its reader: the file is what module AuEncoder is shown to *)
(* produce, without the encoder's own state.  It begins with a header and  *)
(* a C; every backref lands on the nearest A or C before it.               *)
(*                                                                         *)
(* Every record takes RecSize positions.  The string an A adds is named by *)
(* the position of that A, so that no two dictionaries can be taken for    *)
(* each other.  A value is some literals and everything its dictionary     *)
(* holds.                                                                  *)
(***************************************************************************)
EXTENDS AuReader, FiniteSetsExt

VARIABLES
  sent,  \* history: for each value record, where it is and its value
  known  \* history: the writer's dictionary after each record, oldest string
         \* first

fileVars == <<file, sent, known>>

RecSize == 6

Rec(kind, backref, content) ==
  [kind |-> kind, sor |-> Len(file) * RecSize, backref |-> backref,
   content |-> content]

LogInit ==
  /\ file = <<[kind |-> "H", sor |-> 0, backref |-> 0, content |-> <<>>],
              [kind |-> "C", sor |-> RecSize, backref |-> 0, content |-> <<>>]>>
  /\ sent = <<>>
  /\ known = <<<<>>, <<>>>>

DictRecs == {i \in DOMAIN file : file[i].kind \in {"A", "C"}}
LastDict == Max(DictRecs)
Name(sor) == [addedAt |-> sor]

\* What the writer's dictionary holds at the end of the file.
Strings == known[Len(file)]

Backref == (Len(file) - (LastDict - 1)) * RecSize

\* An A is written together with the value that needs it.
ValueOwed == file[Len(file)].kind = "A"

WriteClear ==
  /\ ~ValueOwed
  /\ file' = Append(file, Rec("C", 0, <<>>))
  /\ known' = Append(known, <<>>)
  /\ UNCHANGED sent

WriteAdd ==
  /\ ~ValueOwed
  /\ LET string == Name(Len(file) * RecSize)
     IN /\ file' = Append(file, Rec("A", Backref, <<string>>))
        /\ known' = Append(known, Append(Strings, string))
  /\ UNCHANGED sent

AllRefs(n) == [i \in 1..n |-> [kind |-> "ref", idx |-> i - 1]]
Literals(lits) == [i \in DOMAIN lits |-> [kind |-> "literal", value |-> lits[i]]]

WriteValue(lits) ==
  /\ file' = Append(file, Rec("V", Backref,
                               Literals(lits) \o AllRefs(Len(Strings))))
  /\ known' = Append(known, Strings)
  /\ sent' = Append(sent, [sor |-> Len(file) * RecSize,
                           value |-> lits \o Strings])
=============================================================================
