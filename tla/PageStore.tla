----------------------------- MODULE PageStore -----------------------------
(***************************************************************************)
(* What a caller of wl_linke_write_flash is promised: the pages the image  *)
(* overlaps are replaced one after the other, each by erasing it and       *)
(* programming it with the image over what it held, and the call returns   *)
(* an error wherever it has got to, or success behind the last page.       *)
(*                                                                         *)
(* A page is a function from offsets to the set of the 1 bits of a byte.   *)
(***************************************************************************)
EXTENDS Naturals

CONSTANTS
  Pages,           \* the pages of the part
  Blank,           \* an erased page
  Calls,           \* the arguments a call may have
  First(_),        \* the first page a call replaces
  InLoop(_, _),    \* is the page one that the call still has to replace?
  Wanted(_, _, _), \* the page as the call is to leave it, given what it held
  Errors           \* what a call that fails returns

VARIABLES
  store,   \* the pages
  before,  \* the pages when the call began
  call,    \* the arguments
  at,      \* the page the call is at; 0 between two calls
  busy,    \* a call runs
  outcome, \* what the last call returned
  sound    \* the call found the controller idle and has met no failed access
           \* after which it could go on

vars == <<store, before, call, at, busy, outcome, sound>>

Init ==
  /\ before = store /\ at = 0 /\ busy = FALSE /\ outcome = "none" /\ sound = TRUE

Begin(c) ==
  /\ ~busy /\ busy' = TRUE /\ call' = c /\ at' = First(c) /\ before' = store
  /\ outcome' = "none" /\ sound' \in BOOLEAN /\ UNCHANGED store

\* Programming clears bits, erasing sets all of them.
Over(old, new) == [o \in DOMAIN old |-> old[o] \cap new[o]]
Goal == Wanted(call, at, before[at])
Working == busy /\ busy' /\ InLoop(call, at)
            /\ UNCHANGED <<before, call, outcome, sound>>
Erase == Working /\ store' = [store EXCEPT ![at] = Blank] /\ UNCHANGED at
Program ==
  Working /\ store' = [store EXCEPT ![at] = Over(store[at], Goal)] /\ UNCHANGED at
Advance == Working /\ store[at] = Goal /\ at' = at + 1 /\ UNCHANGED store

Return ==
  /\ busy /\ ~busy' /\ at' = 0
  /\ \/ outcome' \in Errors
     \/ outcome' = "ok" /\ ~InLoop(call, at)
  /\ UNCHANGED <<store, before, call, sound>>

\* An access failed and the next one did not, or the controller was not idle:
\* the pages may then hold anything until the call has returned.
Unsound ==
  /\ busy /\ ~sound' /\ UNCHANGED <<before, call>>
  /\ busy' => UNCHANGED outcome

Next == (\E c \in Calls : Begin(c)) \/ Erase \/ Program \/ Advance \/ Return \/ Unsound

Spec == Init /\ [][Next]_vars
=============================================================================
