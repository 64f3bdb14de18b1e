--------------------------- MODULE MCRspFraming ---------------------------
(***************************************************************************)
(* Instances of RspFraming for TLC.                                        *)
(***************************************************************************)
EXTENDS RspFraming

\* The longest packet that fits, and the longest that is offered.
MCLengths == {PacketMax - 1, PacketSize}

\* The document in two equal parts, in three, and at once.
MCWants == {DocLen \div 2, (DocLen \div 2) - 1, PacketSize}
=============================================================================
