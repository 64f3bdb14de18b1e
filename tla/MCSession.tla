----------------------------- MODULE MCSession -----------------------------
(***************************************************************************)
(* An instance of Session for TLC.                                         *)
(***************************************************************************)
EXTENDS Session

\* Two parts, one of which cannot be flashed; revisions differ in the low nibble.
V003 == [family |-> 9, model |-> 48, flash |-> TRUE]
V203 == [family |-> 5, model |-> 8240, flash |-> FALSE]
MCChips == {V003, V203}
MCParts == {[family |-> 9, model |-> 51], [family |-> 5, model |-> 8240],
            [family |-> 9, model |-> 128]}
\* A version reply that could pass for a part.
MCVersion == [family |-> 5, model |-> 8242]

Line(n, c, v, f) == [name |-> n, chip |-> c, verify |-> v, fits |-> f]
MCCommands ==
  {Line(n, NoChip, FALSE, TRUE) : n \in {"info", "read", "halt", "resume", "version",
                                         "reset", "terminal"}}
  \cup {Line(n, V003, FALSE, TRUE) : n \in {"read32", "gdbserver", "terminal"}}
  \cup {Line("flash", NoChip, v, f) : v, f \in BOOLEAN}
  \cup {Line("flash", V203, TRUE, TRUE)}
=============================================================================
