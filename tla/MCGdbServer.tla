---------------------------- MODULE MCGdbServer ----------------------------
(***************************************************************************)
(* An instance of GdbServer for TLC: two flash pages of two halfwords and  *)
(* a halfword of RAM; breakpoints of both lengths in one page, aligned and *)
(* not, one in the other page and one in RAM.                              *)
(***************************************************************************)
EXTENDS GdbServer

MCFlashUnits == 0 .. 3
MCPlaces == {<<0, 1>>, <<0, 2>>, <<1, 1>>, <<1, 2>>, <<2, 1>>, <<4, 1>>}
=============================================================================
