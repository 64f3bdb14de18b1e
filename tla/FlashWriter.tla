---------------------------- MODULE FlashWriter ----------------------------
(***************************************************************************)
(* wl_linke_write_flash: attach, wl_flash_write (unlock, then erase and    *)
(* program page by page), optional read-back, resume; and the CH32V00x     *)
(* flash controller it drives through debug-module accesses, any of which  *)
(* may fail before or after it took effect.                                *)
(*                                                                         *)
(* A byte is the set of its 1 bits, so an erased byte is Bits and          *)
(* programming, which can only clear bits, is intersection.  A flash       *)
(* address is a page and an offset in it.                                  *)
(***************************************************************************)
EXTENDS Integers, FiniteSets

CONSTANTS
  Bits,        \* the bits of a byte
  PageSize,    \* chip->erase_size, also the controller's page buffer
  WordSize,    \* bytes of one buffer_load
  NPages,      \* chip->flash_size / PageSize
  FlashBase,   \* chip->flash_base
  AliasSpan,   \* addresses below this are the alias of flash at zero
  Chunk,       \* bytes wl_flash_verify reads at a time
  Protected,   \* pages the controller refuses to erase or program
  InitFlash,   \* the contents the part may start with
  CallSet,     \* the arguments wl_linke_write_flash may be called with
  Follows(_, _), \* bound: the calls that may come after a given one
  MaxFaults,   \* bound: how often an access fails while the link is up
  MaxCalls     \* bound: how often the tool is run

Byte == SUBSET Bits
Erased == Bits
Pages == 0 .. NPages - 1
Offs == 0 .. PageSize - 1
Words == 0 .. (PageSize \div WordSize) - 1
Page == [Offs -> Byte]
ErasedPage == [o \in Offs |-> Erased]
At(p, o) == p * PageSize + o

\* What wl_linke_write_flash is given; supported is chip->algo.
IsCall(c) ==
  /\ c.address \in Nat /\ c.length \in Nat
  /\ c.image \in [0 .. c.length - 1 -> Byte]
  /\ c.supported \in BOOLEAN /\ c.verify \in BOOLEAN

ASSUME SizeAssumption ==
  /\ PageSize \in Nat \ {0} /\ WordSize \in Nat \ {0}
  /\ PageSize % WordSize = 0
  /\ NPages \in Nat \ {0}
  /\ Chunk \in Nat \ {0}

ASSUME AddressAssumption ==
  /\ FlashBase \in Nat /\ AliasSpan \in Nat /\ AliasSpan <= FlashBase

ASSUME FaultAssumption ==
  /\ MaxFaults \in Nat /\ MaxCalls \in Nat
  /\ Protected \subseteq Pages

ASSUME InputAssumption ==
  /\ InitFlash \subseteq [Pages -> Page]
  /\ \A c \in CallSet : IsCall(c)

VARIABLES
  \* the flash controller
  flash,    \* the array
  ctlr,     \* the CTLR bits that are set
  addr,     \* ADDR: the page an erase or a program applies to
  buf,      \* the page buffer
  busy,     \* STATR.BSY
  wrperr,   \* STATR.WRPRTERR; nothing in the code clears it
  keys,     \* key stage of KEYR ("main") and MODEKEYR ("fast"); 2 is unlocked
  \* the tool
  pc,       \* the routine that runs; "idle" between two calls
  step,     \* where in that routine
  status,   \* its `status` local
  call,     \* the arguments
  page, word, merged,  \* the loops of wl_flash_ch32v0_write
  done,     \* the loop of wl_flash_verify
  result,   \* what the last call returned
  \* the link
  link, faults,
  bumpy,    \* an access of this call failed and the link stayed up
  \* observations, read by the properties only
  before,   \* flash when the call began
  stale,    \* the page ADDR named when the call began, if STRT was set then
  excused,  \* something outside the tool's control went wrong in this call
  ncalls

hw == <<flash, ctlr, addr, buf, busy, wrperr, keys>>
loops == <<call, page, word, merged, done>>
env == <<link, faults, bumpy>>
obs == <<before, stale, ncalls>>
vars == <<hw, pc, step, status, loops, result, env, obs, excused>>

CtlrBits == {"STRT", "PAGE_PG", "PAGE_ER", "BUF_LOAD", "BUF_RST"}
Routines == {"erase", "reset", "load", "program"}
Steps == {"ready", "mode", "arg", "trigger", "wait", "cleanup"}
Locs == Routines \cup {"idle", "attach", "unlock", "merge", "verify", "resume"}
NoCall == [address |-> 0, length |-> 0, image |-> [i \in 0 .. 0 - 1 |-> Erased],
           supported |-> FALSE, verify |-> FALSE]

---------------------------------------------------------------------------
(* Addresses *)

\* Flash is aliased at zero and at its base; both forms name the same byte.
normalise(a) == IF a < AliasSpan THEN FlashBase + a ELSE a

wl_flash_range_ok(c) ==
  /\ normalise(c.address) >= FlashBase
  /\ normalise(c.address) + c.length <= FlashBase + NPages * PageSize

\* The image's first byte and the byte after its last, as offsets in flash.
start(c) == normalise(c.address) - FlashBase
end(c) == start(c) + c.length

InRange(c, p, o) == start(c) <= At(p, o) /\ At(p, o) < end(c)
Img(c, p, o) == c.image[At(p, o) - start(c)]

\* start & ~(page_size - 1), and the loop condition page < end.
FirstPage(c) == start(c) \div PageSize
PageInLoop(c, p) == p * PageSize < end(c)
CallPages(c) == {p \in Pages : FirstPage(c) <= p /\ PageInLoop(c, p)}

\* The checks wl_flash_write makes before it touches the part.
Refusal(c) ==
  CASE c.length = 0 -> "usage"
    [] c.length # 0 /\ ~c.supported -> "not_implemented"
    [] c.length # 0 /\ c.supported /\ ~wl_flash_range_ok(c) -> "usage"
    [] OTHER -> "ok"

\* The page as it is to be: what the image covers over what is there.
whole_page(c, p) == At(p, 0) >= start(c) /\ At(p + 1, 0) <= end(c)
Merge(c, p) ==
  [o \in Offs |-> IF InRange(c, p, o) THEN Img(c, p, o)
                  ELSE IF whole_page(c, p) THEN Erased ELSE flash[p][o]]

---------------------------------------------------------------------------
(* The controller.  A CTLR write starts whatever its value asks for, so a  *)
(* bit left set by an earlier write counts.                                *)

FastUnlocked == keys["fast"] = 2

Refuse == wrperr' = TRUE /\ UNCHANGED <<flash, buf, busy>>

EraseAtAddr ==
  /\ flash' = IF addr \in Protected THEN flash
              ELSE [flash EXCEPT ![addr] = ErasedPage]
  /\ wrperr' = (wrperr \/ addr \in Protected)
  /\ busy' = TRUE /\ UNCHANGED buf

Programmed(old) == [o \in Offs |-> old[o] \cap buf[o]]
ProgramAtAddr ==
  /\ flash' = IF addr \in Protected THEN flash
              ELSE [flash EXCEPT ![addr] = Programmed(flash[addr])]
  /\ wrperr' = (wrperr \/ addr \in Protected \/ Programmed(flash[addr]) # buf)
  /\ busy' = TRUE /\ UNCHANGED buf

CtlrWrite(v) ==
  /\ ctlr' = v
  /\ UNCHANGED <<addr, keys>>
  /\ \/ /\ "BUF_RST" \in v /\ FastUnlocked
        /\ buf' = ErasedPage /\ busy' = TRUE /\ UNCHANGED <<flash, wrperr>>
     \/ /\ "BUF_RST" \in v /\ ~FastUnlocked
        /\ wrperr' = TRUE /\ busy' = TRUE /\ UNCHANGED <<flash, buf>>
     \/ /\ "BUF_RST" \notin v /\ "STRT" \notin v
        /\ UNCHANGED <<flash, buf, busy, wrperr>>
     \/ /\ "BUF_RST" \notin v /\ "STRT" \in v
        /\ IF "PAGE_ER" \in v
           THEN IF FastUnlocked THEN EraseAtAddr ELSE Refuse
           ELSE IF "PAGE_PG" \in v
                THEN IF FastUnlocked THEN ProgramAtAddr ELSE Refuse
                ELSE busy' = TRUE /\ UNCHANGED <<flash, buf, wrperr>>

\* Mutants: the address of the page after; no address at all.
AddrWrite_NextPage(p) ==
  addr' = p + 1 /\ UNCHANGED <<flash, ctlr, buf, busy, wrperr, keys>>
AddrWrite_Missing(p) == UNCHANGED hw

AddrWrite(p) == addr' = p /\ UNCHANGED <<flash, ctlr, buf, busy, wrperr, keys>>

\* A word stored into flash: with PAGE_PG set it goes to the page buffer,
\* otherwise (PG is never set) it is a program error.
WordOffs(w) == {o \in Offs : o \div WordSize = w}
StoreWord(w) ==
  /\ IF FastUnlocked /\ "PAGE_PG" \in ctlr
     THEN /\ buf' = [o \in Offs |-> IF o \in WordOffs(w) THEN merged[o] ELSE buf[o]]
          /\ busy' = TRUE /\ UNCHANGED wrperr
     ELSE /\ wrperr' = TRUE /\ UNCHANGED <<buf, busy>>
  /\ UNCHANGED <<flash, ctlr, addr, keys>>

KeyStage(stage, key) ==
  CASE stage = 2 -> 2
    [] stage # 2 /\ key = "KEY1" -> 1
    [] stage = 1 /\ key = "KEY2" -> 2
    [] OTHER -> 0
KeyWrite(reg, key) ==
  /\ keys' = [keys EXCEPT ![reg] = KeyStage(@, key)]
  /\ UNCHANGED <<flash, ctlr, addr, buf, busy, wrperr>>

\* The operation that runs in the controller ends.
ControllerIdle ==
  /\ busy /\ busy' = FALSE
  /\ UNCHANGED <<flash, ctlr, addr, buf, wrperr, keys>>
  /\ UNCHANGED <<pc, step, status, loops, result, env, obs, excused>>

---------------------------------------------------------------------------
(* Debug-module accesses.  An access that fails may have taken effect      *)
(* (the reply was lost) or not (the request was).                          *)

Fault ==
  /\ excused' = TRUE
  /\ \/ link = "down" /\ UNCHANGED env
     \/ /\ link = "up" /\ faults < MaxFaults
        /\ faults' = faults + 1
        /\ link' \in {"up", "down"}
        /\ bumpy' = (bumpy \/ link' = "up")

Access(effect, ok, failed) ==
  \/ link = "up" /\ effect /\ ok /\ UNCHANGED <<env, excused>>
  \/ link = "up" /\ effect /\ failed /\ Fault
  \/ UNCHANGED hw /\ failed /\ Fault

---------------------------------------------------------------------------
(* The tool *)

Return(s) ==
  /\ pc' = "idle" /\ result' = s
  /\ UNCHANGED <<step, status, loops>>

Goto(l, s) == pc' = l /\ step' = s /\ UNCHANGED result

\* The page loop's header, after the page before it has been programmed.
LoopTop(p) ==
  /\ page' = p
  /\ UNCHANGED <<call, word, merged>>
  /\ IF PageInLoop(call, p) THEN Goto("merge", "ready") /\ UNCHANGED <<done, status>>
     ELSE /\ Goto(IF call.verify THEN "verify" ELSE "resume", "ready")
          /\ done' = 0 /\ UNCHANGED status

\* wl_linke_write_flash is called, by a new run of the tool.
Begin(c) ==
  /\ pc = "idle" /\ ncalls < MaxCalls /\ Follows(call, c)
  /\ ncalls' = ncalls + 1
  /\ call' = c /\ page' = 0 /\ word' = 0 /\ done' = 0
  /\ status' = "ok" /\ result' = "none"
  /\ pc' = "attach" /\ step' = "ready"
  /\ link' = "up" /\ bumpy' = FALSE /\ UNCHANGED faults
  /\ before' = flash /\ stale' = (IF "STRT" \in ctlr THEN {addr} ELSE {})
  /\ excused' = (ctlr # {} \/ wrperr)
  /\ UNCHANGED <<hw, merged>>

\* wl_linke_set_interface, wl_linke_halt and wl_flash_write's checks.
Attach ==
  /\ pc = "attach"
  /\ UNCHANGED obs
  /\ Access(UNCHANGED hw,
            \/ Refusal(call) # "ok" /\ Return(Refusal(call))
            \/ /\ Refusal(call) = "ok" /\ Goto("unlock", "ready") /\ word' = 0
               /\ UNCHANGED <<status, call, page, merged, done>>,
            Return("target"))

\* Mutant: the second pair of keys in the wrong order; LOCK does not show it.
UnlockKeys_Swapped == <<<<"main", "KEY1">>, <<"main", "KEY2">>,
                        <<"fast", "KEY2">>, <<"fast", "KEY1">>>>

\* unlock: two keys to each key register, then LOCK is read back; word counts
\* the accesses.
UnlockKeys == <<<<"main", "KEY1">>, <<"main", "KEY2">>,
                <<"fast", "KEY1">>, <<"fast", "KEY2">>>>
unlock ==
  /\ pc = "unlock"
  /\ UNCHANGED obs
  /\ \/ /\ word < 4
        /\ Access(KeyWrite(UnlockKeys[word + 1][1], UnlockKeys[word + 1][2]),
                  word' = word + 1
                  /\ UNCHANGED <<pc, step, status, call, page, merged, done, result>>,
                  Return("target"))
     \/ /\ word = 4
        /\ Access(UNCHANGED hw,
                  IF keys["main"] # 2 THEN Return("target")
                  ELSE LoopTop(FirstPage(call)),
                  Return("target"))

\* A page the image covers in part is read before it is erased.
MergePage ==
  /\ pc = "merge"
  /\ UNCHANGED <<hw, obs>>
  /\ \/ /\ link = "up" \/ whole_page(call, page)
        /\ merged' = Merge(call, page)
        /\ Goto("erase", "ready")
        /\ UNCHANGED <<status, call, page, word, done, env, excused>>
     \/ ~whole_page(call, page) /\ Fault /\ Return("target")

---------------------------------------------------------------------------
(* erase_page_fast, buffer_reset, buffer_load and program_page_fast: select*)
(* a mode in CTLR, supply the argument, set the trigger bit, wait, and     *)
(* clear both bits again whatever happened.                                *)

Mode(r) == IF r = "erase" THEN "PAGE_ER" ELSE "PAGE_PG"
Trigger(r) == CASE r = "reset" -> "BUF_RST"
                [] r = "load" -> "BUF_LOAD"
                [] OTHER -> "STRT"
\* Mutant: the mode bit is left set.
ClearMask_TriggerOnly(r) == {Trigger(r)}

ClearMask(r) == {Mode(r), Trigger(r)}

\* Only the erase waits for the operation before it.
FirstStep(r) == IF r = "erase" THEN "ready" ELSE "mode"
StepAfter(r, s) ==
  CASE s = "ready" -> "mode"
    [] s = "mode" -> IF r = "reset" THEN "trigger" ELSE "arg"
    [] s = "arg" -> "trigger"
    [] s = "trigger" -> "wait"
    [] OTHER -> "cleanup"

Proceed ==
  step' = StepAfter(pc, step) /\ UNCHANGED <<pc, status, loops, result>>
Abandon ==
  step' = "cleanup" /\ status' = "target" /\ UNCHANGED <<pc, loops, result>>

InStep(s) == pc \in Routines /\ step = s /\ UNCHANGED obs

SetMode == InStep("mode") /\ Access(CtlrWrite(ctlr \cup {Mode(pc)}), Proceed, Abandon)

SetTrigger ==
  InStep("trigger") /\ Access(CtlrWrite(ctlr \cup {Trigger(pc)}), Proceed, Abandon)

Argument ==
  /\ InStep("arg")
  /\ Access(IF pc = "load" THEN StoreWord(word) ELSE AddrWrite(page),
            Proceed, Abandon)

\* Mutant: polling has no limit.
wait_ready_NoLimit ==
  /\ InStep("ready") \/ InStep("wait")
  /\ UNCHANGED hw
  /\ \/ link = "up" /\ ~busy /\ ~wrperr /\ Proceed /\ UNCHANGED <<env, excused>>
     \/ link = "up" /\ ~busy /\ wrperr /\ Abandon /\ UNCHANGED <<env, excused>>
     \/ Fault /\ Abandon

\* Poll STATR until it is idle, has been busy for FLASH_POLL_LIMIT polls, or
\* cannot be read.
wait_ready ==
  /\ InStep("ready") \/ InStep("wait")
  /\ UNCHANGED hw
  /\ \/ link = "up" /\ ~busy /\ ~wrperr /\ Proceed /\ UNCHANGED <<env, excused>>
     \/ link = "up" /\ ~busy /\ wrperr /\ Abandon /\ UNCHANGED <<env, excused>>
     \/ link = "up" /\ busy /\ Abandon /\ excused' = TRUE /\ UNCHANGED env
     \/ Fault /\ Abandon

Enter(r, w) ==
  /\ Goto(r, FirstStep(r)) /\ word' = w
  /\ UNCHANGED <<status, call, page, merged, done>>

\* Mutant: the page is programmed after its first word was loaded.
RoutineReturns_OneWord ==
  IF status # "ok" THEN Return(status)
  ELSE CASE pc = "erase" -> Enter("reset", word)
         [] pc = "reset" -> Enter("load", 0)
         [] pc = "load" -> Enter("program", word)
         [] pc = "program" -> LoopTop(page + 1)

\* What wl_flash_ch32v0_write does when the routine returns `status`.
RoutineReturns ==
  IF status # "ok" THEN Return(status)
  ELSE CASE pc = "erase" -> Enter("reset", word)
         [] pc = "reset" -> Enter("load", 0)
         [] pc = "load" -> IF word + 1 \in Words THEN Enter("load", word + 1)
                           ELSE Enter("program", word)
         [] pc = "program" -> LoopTop(page + 1)

\* The result of this access is thrown away.
Cleanup ==
  /\ InStep("cleanup")
  /\ Access(CtlrWrite(ctlr \ ClearMask(pc)), RoutineReturns, RoutineReturns)

---------------------------------------------------------------------------
(* wl_flash_verify, one chunk at a time, and the resume that follows it.   *)

ChunkEnd == IF done + Chunk < call.length THEN done + Chunk ELSE call.length
Matches(i) ==
  flash[(start(call) + i) \div PageSize][(start(call) + i) % PageSize] = call.image[i]

verify ==
  /\ pc = "verify"
  /\ UNCHANGED <<hw, obs, call, page, word, merged, step>>
  /\ \/ /\ link = "up" /\ UNCHANGED <<env, excused>>
        /\ IF \A i \in done .. ChunkEnd - 1 : Matches(i)
           THEN /\ done' = ChunkEnd /\ UNCHANGED status
                /\ pc' = IF ChunkEnd < call.length THEN "verify" ELSE "resume"
           ELSE status' = "verify" /\ pc' = "resume" /\ UNCHANGED done
     \/ Fault /\ status' = "target" /\ pc' = "resume" /\ UNCHANGED done
  /\ UNCHANGED result

\* wl_linke_resume; its result is thrown away.
resume ==
  /\ pc = "resume"
  /\ UNCHANGED obs
  /\ Access(UNCHANGED hw, Return(status), Return(status))

\* Between two runs of the tool the part may be reset or lose power.
TargetReset ==
  /\ pc = "idle"
  /\ ctlr' = {} /\ addr' = 0 /\ buf' = ErasedPage /\ busy' = FALSE
  /\ wrperr' = FALSE /\ keys' = [r \in {"main", "fast"} |-> 0]
  /\ UNCHANGED <<flash, pc, step, status, loops, result, env, obs, excused>>

---------------------------------------------------------------------------

Init ==
  /\ flash \in InitFlash
  /\ ctlr = {} /\ addr = 0 /\ buf = ErasedPage /\ busy = FALSE /\ wrperr = FALSE
  /\ keys = [r \in {"main", "fast"} |-> 0]
  /\ pc = "idle" /\ step = "ready" /\ status = "ok" /\ call = NoCall
  /\ page = 0 /\ word = 0 /\ merged = ErasedPage /\ done = 0 /\ result = "none"
  /\ link = "up" /\ faults = 0 /\ bumpy = FALSE
  /\ before = flash /\ stale = {} /\ excused = FALSE /\ ncalls = 0

Tool == \/ Attach \/ unlock \/ MergePage
        \/ SetMode \/ Argument \/ SetTrigger \/ wait_ready \/ Cleanup
        \/ verify \/ resume

Next == Tool \/ ControllerIdle \/ TargetReset \/ \E c \in CallSet : Begin(c)

\* The tool is one thread that never blocks for ever: every poll loop is
\* bounded, and it does not need an access to fail to go on.  Nothing is assumed
\* of the controller.
Spec == Init /\ [][Next]_vars /\ WF_vars(Tool /\ UNCHANGED faults)
---------------------------------------------------------------------------
(* Properties *)

ControllerTypeOK ==
  /\ flash \in [Pages -> Page] /\ buf \in Page
  /\ ctlr \subseteq CtlrBits /\ addr \in Pages
  /\ busy \in BOOLEAN /\ wrperr \in BOOLEAN
  /\ keys \in [{"main", "fast"} -> 0 .. 2]

ToolTypeOK ==
  /\ pc \in Locs /\ step \in Steps
  /\ status \in {"ok", "target", "verify"}
  /\ result \in {"none", "ok", "usage", "not_implemented", "target", "verify"}
  /\ IsCall(call) /\ page \in Nat /\ word \in Nat /\ merged \in Page /\ done \in Nat

TypeOK ==
  /\ ControllerTypeOK /\ ToolTypeOK
  /\ link \in {"up", "down"} /\ faults \in 0 .. MaxFaults /\ bumpy \in BOOLEAN
  /\ before \in [Pages -> Page]
  /\ stale \subseteq Pages /\ excused \in BOOLEAN /\ ncalls \in 0 .. MaxCalls

Returned(s) == pc = "idle" /\ result = s

HoldsImage ==
  \A p \in Pages, o \in Offs : InRange(call, p, o) => flash[p][o] = Img(call, p, o)

\* wl_linke_write_flash's WL_OK means that the part holds the image, from
\* whatever state an earlier, interrupted call left the controller in.  Only a
\* call that does not read the image back may be wrong, when an access failed
\* whose result is thrown away and the next one succeeded.
ImageWritten ==
  Returned("ok") /\ (call.verify \/ ~bumpy) => HoldsImage

\* A successful write keeps every byte that shares a page with the image, from
\* any controller state: "flashing a few bytes at an offset does not wipe the
\* rest of the page".
SuccessKeepsRest ==
  Returned("ok") =>
    \A p \in CallPages(call), o \in Offs : ~InRange(call, p, o) => flash[p][o] = before[p][o]

\* Whatever access fails, and also while the call runs, no page is touched but
\* those the image overlaps and the one ADDR names if an earlier call left STRT
\* set; and what this call leaves in its turn, a set STRT with an ADDR, is
\* aimed at one of these pages again.
Exposed == CallPages(call) \cup stale
Confined ==
  /\ \A p \in Pages \ Exposed : flash[p] = before[p]
  /\ "STRT" \in ctlr => addr \in Exposed

\* The sequence is one the controller accepts: a call that starts from an idle
\* controller fails only if an access failed, the controller hung or a page is
\* write-protected.
FailureExplained ==
  Returned("target") => excused \/ CallPages(call) \cap Protected # {}

\* STRT was clear when the call began.
clean == stale = {}
Overlay(c, p, old) == [o \in Offs |-> IF InRange(c, p, o) THEN Img(c, p, o) ELSE old[o]]
Store == INSTANCE PageStore WITH
  Blank <- ErasedPage, Calls <- CallSet,
  First <- FirstPage, InLoop <- PageInLoop, Wanted <- Overlay,
  Errors <- {"usage", "not_implemented", "target", "verify"},
  store <- flash, busy <- (pc # "idle"), outcome <- result, sound <- (clean /\ ~bumpy),
  at <- CASE pc = "idle" -> 0
          [] pc \in {"attach", "unlock"} -> FirstPage(call)
          [] OTHER -> page

\* wl_linke_write_flash implements the page store: at every moment, also when it
\* has failed, the pages behind the one it is at are as the call wants them,
\* those ahead are untouched, and the one it is at has only ever been erased and
\* programmed with what belongs there, never with part of the page buffer.
StoreSpec == Store!Spec

\* wl_linke_write_flash always returns, also when the controller hangs or the
\* link is lost: every poll loop gives up.
CallReturns == (pc # "idle") ~> (pc = "idle")
=============================================================================
