--------------------------- MODULE MCFlashWriter ---------------------------
(***************************************************************************)
(* Instances of FlashWriter for TLC: four pages of two 2-byte words, two   *)
(* bits a byte, images that cover pages in part, whole, and not at all.    *)
(***************************************************************************)
EXTENDS FlashWriter

\* Every offset of the part holds something that differs from its neighbours.
MCInitFlash ==
  {[p \in Pages |-> [o \in Offs |-> IF (p + o) % 2 = 0 THEN {0} ELSE {0, 1}]]}

ImageOf(a, n) == [i \in 0 .. n - 1 |-> IF (a + i) % 3 = 0 THEN {} ELSE {1}]
Write(a, n, v) == [address |-> a, length |-> n, image |-> ImageOf(a, n),
                   supported |-> TRUE, verify |-> v]

\* Part of two pages; a whole page, through the alias; the tail of the last
\* page; the whole part.
MCWrites ==
  {Write(FlashBase + 1, 6, TRUE), Write(FlashBase + 1, 6, FALSE),
   Write(4, 4, FALSE), Write(FlashBase + 14, 2, FALSE), Write(0, 16, FALSE)}

\* Empty, unsupported, past the end, below the base.
MCRefused ==
  {Write(0, 0, FALSE), Write(FlashBase + 15, 2, FALSE), Write(AliasSpan, 1, TRUE),
   [Write(0, 1, FALSE) EXCEPT !.supported = FALSE]}

\* Writes of every start and length in the pages that are not protected, with
\* and without read-back.
MCAllRanges ==
  {w \in {Write(a, n, v) : a \in 0 .. 11, n \in 1 .. 12, v \in BOOLEAN} :
     w.address + w.length <= 12}

MCCalls == MCWrites \cup MCRefused \cup MCAllRanges

\* The first call is any of them; one of MCWrites may be followed by another.
MCFollows(c, d) == c = NoCall \/ {c, d} \subseteq MCWrites
=============================================================================
