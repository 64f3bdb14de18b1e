----------------------------- MODULE MCTerminal -----------------------------
(***************************************************************************)
(* Instances of Terminal for TLC: enough bytes for a packet that needs     *)
(* DATA1 to follow another that does.                                      *)
(***************************************************************************)
EXTENDS Terminal

\* 0x80: below the offset of 4; 0x84: an empty payload; 0x8c: one byte too many.
MCReplies == {128, 132, 140}
=============================================================================
