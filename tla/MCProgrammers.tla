--------------------------- MODULE MCProgrammers ---------------------------
(***************************************************************************)
(* Instances of Programmers for TLC: two or three programmers, calls with  *)
(* and without a serial number.                                           *)
(***************************************************************************)
EXTENDS Programmers

MCSerial == [p \in Prog |-> CASE p = "p1" -> "s1" [] p = "p2" -> "s2" [] OTHER -> "s3"]
MCFilters == {AnySerial, "s1"}
MCOpen == [op: {"open"}, filter: MCFilters]

\* Every call, the one that does all the others do with both filters.
MCRequests == MCOpen \cup
  {[op |-> "find", filter |-> AnySerial], [op |-> "switch_rv", filter |-> "s1"],
   [op |-> "eject_iap", filter |-> AnySerial]}
=============================================================================
