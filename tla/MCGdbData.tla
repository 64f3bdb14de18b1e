---------------------------- MODULE MCGdbData ----------------------------
(***************************************************************************)
(* Instances of DebugModule and GdbData for TLC: two words of four 1-bit   *)
(* bytes, three general registers and pc.                                  *)
(***************************************************************************)
EXTENDS GdbData

MCRegisters == <<"x8", "x9", "x10", "pc">>
MCInitRegs == [r \in Regs |-> CASE r = "x8" -> 3 [] r = "x9" -> 5 [] r = "x10" -> 8 [] OTHER -> 6]

\* Every word differs from its reverse and from the other.
MCInitMem ==
  {[a \in Addr |-> IF a \in {0, 1, 3, 4} THEN 1 ELSE 0],
   [a \in Addr |-> IF a \in {2, 5, 7} THEN 1 ELSE 0]}

Arg(n, p) == [number |-> n, prefix |-> p]

\* Words and halfwords, as the flash routines and the breakpoints store them; the
\* address behind memory, and one in the middle of a word.
MCOps ==
  {[kind |-> "write", addr |-> 0, size |-> WordBytes, val |-> 6],
   [kind |-> "write", addr |-> NBytes, size |-> WordBytes, val |-> 6],
   [kind |-> "write", addr |-> 6, size |-> 2, val |-> 1],
   [kind |-> "read", addr |-> 4, size |-> WordBytes],
   [kind |-> "read", addr |-> 2, size |-> WordBytes],
   [kind |-> "read", addr |-> 2, size |-> 2]}

MCWordRequests ==
  {[kind |-> "g"], [kind |-> "p", reg |-> "x10"], [kind |-> "p", reg |-> "pc"],
   [kind |-> "P", reg |-> "x10", text |-> <<1, 1, 0, 0>>],
   [kind |-> "P", reg |-> "pc", text |-> <<1, 0, 1, 0, 0>>],
   [kind |-> "read32", addr |-> Arg(4, FALSE)],
   [kind |-> "write32", addr |-> Arg(4, FALSE), val |-> Arg(9, FALSE)]}

\* Blocks of every start and length, some of which run over the end of memory.
MCBlocks == {[kind |-> "m", addr |-> a, len |-> n] : a \in 0 .. NBytes, n \in 1 .. NBytes + 1}
MCStores == {[kind |-> "M", addr |-> a, text |-> t] :
               a \in {1, 6}, t \in {<<0>>, <<0, 1, 1>>, [i \in 1 .. NBytes + 1 |-> 0]}}
MCRequests == MCWordRequests \cup MCBlocks \cup MCStores

\* The operations that are tried one after the other.
Short == MCOps \cup {OpOf(r) : r \in MCWordRequests}
MCFollows(p, o) == p = NoOp \/ {p, o} \subseteq Short

\* The README's examples, "monitor read32 0x..." and "monitor write32 0x... 0x...".
MCMonitor ==
  {[kind |-> "read32", addr |-> Arg(4, p)] : p \in BOOLEAN} \cup
  {[kind |-> "write32", addr |-> Arg(4, p), val |-> Arg(9, p)] : p \in BOOLEAN}
=============================================================================
