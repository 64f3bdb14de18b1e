---------------------------- MODULE RequestReply ----------------------------
(***************************************************************************)
(* What the packet layer under gdb_server.c promises the layers above it:  *)
(* requests are handled one at a time, each exactly once and in order, and *)
(* the client's next request follows the reply to its last, unless a       *)
(* damaged packet ends the session.                                        *)
(***************************************************************************)
EXTENDS Naturals

VARIABLES
  asked,     \* requests the client has sent
  handled,   \* requests the server has handled
  answered,  \* replies the client has taken
  closed     \* the server has given up

vars == <<asked, handled, answered, closed>>

Init == asked = 0 /\ handled = 0 /\ answered = 0 /\ closed = FALSE

Ask ==
  /\ answered = asked /\ ~closed
  /\ asked' = asked + 1 /\ UNCHANGED <<handled, answered, closed>>

Handle ==
  /\ handled < asked /\ ~closed
  /\ handled' = handled + 1 /\ UNCHANGED <<asked, answered, closed>>

Answer ==
  /\ answered < handled
  /\ answered' = answered + 1 /\ UNCHANGED <<asked, handled, closed>>

Refuse ==
  /\ handled < asked /\ ~closed
  /\ closed' = TRUE /\ UNCHANGED <<asked, handled, answered>>

Next == Ask \/ Handle \/ Answer \/ Refuse

Spec == Init /\ [][Next]_vars
=============================================================================
