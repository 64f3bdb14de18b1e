------------------------- MODULE FlashWriterProofs -------------------------
(***************************************************************************)
(* Proofs about FlashWriter, for every page size, part size, set of calls  *)
(* and number of faults.                                                   *)
(***************************************************************************)
EXTENDS FlashWriter, TLAPS

---------------------------------------------------------------------------
(* Arithmetic of pages *)

\* Page numbers are ordered as their first bytes are.
LEMMA PageOrder ==
  ASSUME NEW a \in Int, NEW b \in Int, NEW k \in Nat \ {0}, a * k < b * k
  PROVE  a < b
<1> SUFFICES ASSUME a >= b PROVE FALSE
  OBVIOUS
<1>1. PICK d \in Nat : a = b + d
  <2> WITNESS a - b \in Nat
  <2> QED OBVIOUS
<1>2. a * k = b * k + d * k
  BY <1>1
<1>3. d * k >= 0
  OBVIOUS
<1> QED BY <1>2, <1>3

\* The page a byte is in.
LEMMA PageOf ==
  ASSUME NEW n \in Nat, NEW k \in Nat \ {0}
  PROVE  n \div k \in Nat
OBVIOUS

---------------------------------------------------------------------------
(* Type correctness *)

\* A call whose checks passed lies in the part, and its page loop visits only
\* pages of the part.
InPart ==
  /\ pc \notin {"idle", "attach"} => Refusal(call) = "ok"
  /\ pc \in Routines \cup {"merge"} =>
       FirstPage(call) <= page /\ PageInLoop(call, page)

\* A call that wl_flash_write does not refuse lies within the part.
LEMMA AcceptedRange ==
  ASSUME NEW c, IsCall(c), Refusal(c) = "ok"
  PROVE  /\ start(c) \in Nat /\ end(c) \in Nat /\ FirstPage(c) \in Nat
         /\ end(c) <= NPages * PageSize
         /\ c.length # 0 /\ wl_flash_range_ok(c)
<1>1. c.length # 0 /\ wl_flash_range_ok(c)
  BY DEF Refusal
<1>2. normalise(c.address) \in Nat /\ c.length \in Nat
  BY AddressAssumption DEF normalise, IsCall
<1>3. start(c) \in Nat /\ end(c) \in Nat
  BY <1>1, <1>2, AddressAssumption DEF wl_flash_range_ok, start, end
<1>4. NPages * PageSize \in Int
  BY SizeAssumption
<1>5. end(c) <= NPages * PageSize
  BY <1>1, <1>2, <1>4, AddressAssumption DEF wl_flash_range_ok, start, end
<1>6. FirstPage(c) \in Nat
  BY <1>3, PageOf, SizeAssumption DEF FirstPage
<1> QED BY <1>1, <1>3, <1>5, <1>6

\* The pages the loop of such a call visits are pages of the part.
LEMMA LoopPage ==
  ASSUME NEW c, IsCall(c), Refusal(c) = "ok", NEW p \in Nat, PageInLoop(c, p)
  PROVE  p \in Pages
<1>1. end(c) \in Nat /\ end(c) <= NPages * PageSize
  BY AcceptedRange
<1>2. p * PageSize \in Int /\ NPages * PageSize \in Int
  BY SizeAssumption
<1>3. p * PageSize < NPages * PageSize
  BY <1>1, <1>2 DEF PageInLoop
<1>4. p < NPages
  BY <1>3, PageOrder, SizeAssumption
<1> QED BY <1>4, SizeAssumption DEF Pages

\* An erased page is a page.
LEMMA ErasedPageType == ErasedPage \in Page
BY DEF ErasedPage, Page, Erased, Byte

\* So is a page with the bytes of the image laid over it.
LEMMA MergeType ==
  ASSUME TypeOK, NEW p \in Pages
  PROVE  Merge(call, p) \in Page
<1> SUFFICES ASSUME NEW o \in Offs
             PROVE  (IF InRange(call, p, o) THEN Img(call, p, o)
                     ELSE IF whole_page(call, p) THEN Erased ELSE flash[p][o]) \in Byte
  BY DEF Merge, Page
<1>1. flash[p][o] \in Byte /\ Erased \in Byte
  BY DEF TypeOK, ControllerTypeOK, Page, Erased, Byte
<1>2. ASSUME InRange(call, p, o) PROVE Img(call, p, o) \in Byte
  <2>1. call.image \in [0 .. call.length - 1 -> Byte] /\ call.length \in Nat /\ call.address \in Nat
    BY DEF TypeOK, ToolTypeOK, IsCall
  <2>2. At(p, o) \in Int
    BY SizeAssumption DEF At, Pages, Offs
  <2>3. start(call) \in Int
    BY <2>1, AddressAssumption DEF start, normalise
  <2>4. At(p, o) - start(call) \in 0 .. call.length - 1
    BY <1>2, <2>1, <2>2, <2>3 DEF InRange, end
  <2> QED BY <2>1, <2>4 DEF Img
<1> QED BY <1>1, <1>2

\* A write to CTLR, with the erasing and programming it starts, keeps the types of the
\* controller.
LEMMA CtlrWriteType ==
  ASSUME ControllerTypeOK, NEW v \in SUBSET CtlrBits, CtlrWrite(v)
  PROVE  ControllerTypeOK'
<1>1. ErasedPage \in Page
  BY ErasedPageType
<1>2. Programmed(flash[addr]) \in Page
  BY DEF ControllerTypeOK, Programmed, Page, Byte
<1> QED BY <1>1, <1>2
        DEF ControllerTypeOK, CtlrWrite, EraseAtAddr, ProgramAtAddr, Refuse

\* So does loading a word into the page buffer.
LEMMA StoreWordType ==
  ASSUME ControllerTypeOK, merged \in Page, NEW w, StoreWord(w)
  PROVE  ControllerTypeOK'
<1>1. [o \in Offs |-> IF o \in WordOffs(w) THEN merged[o] ELSE buf[o]] \in Page
  BY DEF ControllerTypeOK, Page
<1> QED BY <1>1 DEF ControllerTypeOK, StoreWord

\* So does writing a key.
LEMMA KeyWriteType ==
  ASSUME ControllerTypeOK, NEW r \in {"main", "fast"}, NEW k, KeyWrite(r, k)
  PROVE  ControllerTypeOK'
<1>1. KeyStage(keys[r], k) \in 0 .. 2
  BY DEF KeyStage
<1> QED BY <1>1 DEF ControllerTypeOK, KeyWrite

\* What an access may do, whatever the tool does next.
LEMMA AccessCases ==
  ASSUME NEW ACTION effect, NEW ACTION ok, NEW ACTION failed,
         Access(effect, ok, failed)
  PROVE  /\ effect \/ UNCHANGED hw
         /\ ok \/ failed
         /\ UNCHANGED <<env, excused>> \/ Fault
BY DEF Access

\* A failing access keeps the types of the link and of what is observed.
LEMMA FaultType ==
  ASSUME link \in {"up", "down"}, faults \in 0 .. MaxFaults, bumpy \in BOOLEAN,
         excused \in BOOLEAN,
         UNCHANGED <<env, excused>> \/ Fault
  PROVE  /\ link' \in {"up", "down"} /\ faults' \in 0 .. MaxFaults
         /\ bumpy' \in BOOLEAN /\ excused' \in BOOLEAN
<1>1. excused' \in BOOLEAN
  BY DEF Fault
<1>2. link' \in {"up", "down"}
  BY DEF Fault, env
<1>3. faults' \in 0 .. MaxFaults
  BY FaultAssumption DEF Fault, env
<1>4. bumpy' \in BOOLEAN
  BY DEF Fault, env
<1> QED BY <1>1, <1>2, <1>3, <1>4

\* Returning to the caller keeps the types of the tool.
LEMMA ReturnType ==
  ASSUME ToolTypeOK, NEW s \in {"ok", "usage", "not_implemented", "target", "verify"}, Return(s)
  PROVE  ToolTypeOK' /\ pc' = "idle"
BY DEF ToolTypeOK, Return, loops, Locs, IsCall

\* So does going round the loop, to a page of the loop or past its end.
LEMMA LoopTopType ==
  ASSUME ToolTypeOK, Refusal(call) = "ok", NEW p \in Nat, LoopTop(p)
  PROVE  /\ ToolTypeOK' /\ call' = call /\ page' = p
         /\ pc' \in {"merge", "verify", "resume"}
         /\ pc' = "merge" => PageInLoop(call, p)
BY DEF ToolTypeOK, LoopTop, Goto, Locs, Steps, IsCall

TInv == TypeOK /\ InPart

\* The type invariant holds initially.
LEMMA TInvInit == Init => TInv
<1> SUFFICES ASSUME Init PROVE TInv
  OBVIOUS
<1>1. ControllerTypeOK
  <2>1. flash \in [Pages -> Page] /\ buf \in Page
    BY InputAssumption, ErasedPageType DEF Init
  <2>2. addr \in Pages /\ keys \in [{"main", "fast"} -> 0 .. 2]
    BY SizeAssumption DEF Init, Pages
  <2>3. busy \in BOOLEAN /\ wrperr \in BOOLEAN /\ ctlr \subseteq CtlrBits
    BY DEF Init
  <2> QED BY <2>1, <2>2, <2>3 DEF ControllerTypeOK
<1>2. IsCall(NoCall)
  <2>0. Erased \in Byte
    BY DEF Erased, Byte
  <2>1. NoCall.image \in [0 .. NoCall.length - 1 -> Byte]
    BY <2>0 DEF NoCall
  <2> QED BY <2>1 DEF IsCall, NoCall
<1>3. ToolTypeOK
  BY <1>2, ErasedPageType DEF Init, ToolTypeOK, Locs, Steps
<1>4. before \in [Pages -> Page]
  BY InputAssumption DEF Init
<1>5. faults \in 0 .. MaxFaults /\ ncalls \in 0 .. MaxCalls
  BY FaultAssumption DEF Init
<1>6. stale \subseteq Pages /\ excused \in BOOLEAN /\ link \in {"up", "down"} /\ bumpy \in BOOLEAN
  BY DEF Init
<1>7. InPart
  BY DEF Init, InPart, Routines
<1> QED BY <1>1, <1>3, <1>4, <1>5, <1>6, <1>7 DEF TInv, TypeOK

\* It is kept by every step.
LEMMA TInvNext == TInv /\ [Next]_vars => TInv'
<1> SUFFICES ASSUME TInv, [Next]_vars PROVE TInv'
  OBVIOUS
<1> USE DEF TInv
<1>1. CASE UNCHANGED vars
  BY <1>1 DEF vars, hw, loops, env, obs, TypeOK, ControllerTypeOK, ToolTypeOK, InPart, IsCall
<1>2. ASSUME NEW c \in CallSet, Begin(c) PROVE TInv'
  <2>1. IsCall(c)
    BY InputAssumption
  <2>2. ControllerTypeOK'
    BY <1>2 DEF Begin, hw, TypeOK, ControllerTypeOK
  <2>3. ToolTypeOK'
    BY <1>2, <2>1 DEF Begin, TypeOK, ToolTypeOK, Locs, Steps, IsCall
  <2>4. link' \in {"up", "down"} /\ faults' \in 0 .. MaxFaults /\ before' \in [Pages -> Page]
    BY <1>2 DEF Begin, TypeOK, ControllerTypeOK
  <2>5. ncalls' \in 0 .. MaxCalls
    BY <1>2, FaultAssumption DEF Begin, TypeOK
  <2>6. stale' \subseteq Pages /\ excused' \in BOOLEAN /\ bumpy' \in BOOLEAN
    BY <1>2 DEF Begin, TypeOK, ControllerTypeOK
  <2>7. InPart'
    BY <1>2 DEF Begin, InPart, Routines
  <2> QED BY <2>2, <2>3, <2>4, <2>5, <2>6, <2>7 DEF TypeOK
\* A step of the tool: the link and the observations keep their types, so the
\* controller's part, the tool's part and InPart are left.
<1>3. ASSUME UNCHANGED obs, UNCHANGED <<env, excused>> \/ Fault,
             ControllerTypeOK', ToolTypeOK', InPart'
      PROVE  TInv'
  <2>1. /\ link' \in {"up", "down"} /\ faults' \in 0 .. MaxFaults
        /\ bumpy' \in BOOLEAN /\ excused' \in BOOLEAN
    BY <1>3, FaultType DEF TypeOK
  <2>2. before' \in [Pages -> Page] /\ stale' \subseteq Pages /\ ncalls' \in 0 .. MaxCalls
    BY <1>3 DEF obs, TypeOK
  <2> QED BY <1>3, <2>1, <2>2 DEF TypeOK
<1>4. ASSUME UNCHANGED hw PROVE ControllerTypeOK'
  BY <1>4 DEF hw, TypeOK, ControllerTypeOK
<1>5. ASSUME NEW s \in {"ok", "usage", "not_implemented", "target", "verify"}, Return(s)
      PROVE  ToolTypeOK' /\ InPart'
  BY <1>5, ReturnType DEF InPart, Routines, TypeOK
<1>6. ASSUME Refusal(call) = "ok", NEW p \in Nat, LoopTop(p), FirstPage(call) <= p
      PROVE  ToolTypeOK' /\ InPart'
  BY <1>6, LoopTopType DEF InPart, Routines, TypeOK
<1>7. CASE Attach
  <2>1. UNCHANGED hw /\ UNCHANGED obs /\ (UNCHANGED <<env, excused>> \/ Fault)
    BY <1>7 DEF Attach, Access
  <2>2. Refusal(call) \in {"ok", "usage", "not_implemented"}
    BY DEF Refusal
  <2>3. CASE Return("target")
    BY <2>1, <2>3, <1>3, <1>4, <1>5
  <2>5. CASE Return(Refusal(call))
    BY <2>1, <2>2, <2>5, <1>3, <1>4, <1>5
  <2>4. CASE /\ Refusal(call) = "ok" /\ Goto("unlock", "ready") /\ word' = 0
             /\ UNCHANGED <<status, call, page, merged, done>>
    <3>1. ToolTypeOK' /\ InPart'
      BY <2>4 DEF Goto, TypeOK, ToolTypeOK, InPart, Locs, Steps, Routines, IsCall
    <3> QED BY <2>1, <3>1, <1>3, <1>4
  <2>6. \/ Return("target")
        \/ Refusal(call) # "ok" /\ Return(Refusal(call))
        \/ /\ Refusal(call) = "ok" /\ Goto("unlock", "ready") /\ word' = 0
           /\ UNCHANGED <<status, call, page, merged, done>>
    BY <1>7 DEF Attach, Access
  <2> QED BY <2>3, <2>4, <2>5, <2>6
<1>8. CASE unlock
  <2>1. UNCHANGED obs /\ (UNCHANGED <<env, excused>> \/ Fault) /\ Refusal(call) = "ok"
    BY <1>8 DEF unlock, Access, InPart
  <2>2. CASE word < 4
    <3>1. word + 1 \in 1 .. 4
      BY <2>2 DEF TypeOK, ToolTypeOK
    <3>2. UnlockKeys[word + 1][1] \in {"main", "fast"}
      BY <3>1 DEF UnlockKeys
    <3>3. ControllerTypeOK'
      BY <1>8, <2>2, <3>2, <1>4, KeyWriteType DEF unlock, Access, TypeOK
    <3>4. CASE word' = word + 1 /\ UNCHANGED <<pc, step, status, call, page, merged, done, result>>
      <4>1. ToolTypeOK' /\ InPart'
        BY <3>4 DEF TypeOK, ToolTypeOK, InPart, IsCall
      <4> QED BY <4>1, <3>3, <2>1, <1>3
    <3>5. CASE Return("target")
      BY <3>5, <3>3, <2>1, <1>3, <1>5
    <3>6. ~(word = 4)
      BY <2>2 DEF TypeOK, ToolTypeOK
    <3> QED BY <1>8, <3>4, <3>5, <3>6 DEF unlock, Access
  <2>3. CASE word = 4
    <3>1. UNCHANGED hw /\ (Return("target") \/ LoopTop(FirstPage(call)))
      BY <1>8, <2>3 DEF unlock, Access
    <3>2. FirstPage(call) \in Nat
      BY <2>1, AcceptedRange DEF TypeOK, ToolTypeOK
    <3> QED BY <3>1, <3>2, <2>1, <1>3, <1>4, <1>5, <1>6
  <2> QED BY <1>8, <2>2, <2>3 DEF unlock
<1>9. CASE MergePage
  <2>1. page \in Pages /\ pc = "merge"
    BY <1>9, LoopPage DEF MergePage, InPart, TypeOK, ToolTypeOK, Routines
  <2>2. UNCHANGED hw /\ UNCHANGED obs /\ (UNCHANGED <<env, excused>> \/ Fault)
    BY <1>9 DEF MergePage
  <2>3. CASE merged' = Merge(call, page) /\ Goto("erase", "ready")
             /\ UNCHANGED <<status, call, page, word, done>>
    <3>1. ToolTypeOK'
      BY <2>1, <2>3, MergeType DEF Goto, TypeOK, ToolTypeOK, Locs, Routines, Steps, IsCall
    <3>2. InPart'
      BY <2>1, <2>3 DEF Goto, InPart, Routines
    <3> QED BY <2>2, <3>1, <3>2, <1>3, <1>4
  <2> QED BY <1>9, <2>2, <2>3, <1>3, <1>4, <1>5 DEF MergePage
<1>10. ASSUME Proceed \/ Abandon, pc \in Routines PROVE ToolTypeOK' /\ InPart'
  <2>1. StepAfter(pc, step) \in Steps
    BY DEF StepAfter, Steps
  <2> QED BY <1>10, <2>1
          DEF Proceed, Abandon, loops, TypeOK, ToolTypeOK, InPart, Steps, Routines, IsCall
<1>11. ASSUME pc \in Routines PROVE page \in Pages /\ Refusal(call) = "ok"
  BY <1>11, LoopPage DEF InPart, TypeOK, ToolTypeOK, Routines
<1>12. ASSUME pc \in Routines PROVE {Mode(pc), Trigger(pc)} \subseteq CtlrBits
  BY <1>12 DEF Mode, Trigger, CtlrBits, Routines
<1>13. CASE SetMode
  <2>1. pc \in Routines /\ UNCHANGED obs /\ (UNCHANGED <<env, excused>> \/ Fault)
        /\ (Proceed \/ Abandon) /\ (CtlrWrite(ctlr \cup {Mode(pc)}) \/ UNCHANGED hw)
    BY <1>13 DEF SetMode, InStep, Access
  <2>2. ctlr \cup {Mode(pc)} \in SUBSET CtlrBits
    BY <2>1, <1>12 DEF TypeOK, ControllerTypeOK
  <2>3. ControllerTypeOK'
    BY <2>1, <2>2, <1>4, CtlrWriteType DEF TypeOK
  <2> QED BY <2>1, <2>3, <1>3, <1>10
<1>14. CASE SetTrigger
  <2>1. pc \in Routines /\ UNCHANGED obs /\ (UNCHANGED <<env, excused>> \/ Fault)
        /\ (Proceed \/ Abandon) /\ (CtlrWrite(ctlr \cup {Trigger(pc)}) \/ UNCHANGED hw)
    BY <1>14 DEF SetTrigger, InStep, Access
  <2>2. ctlr \cup {Trigger(pc)} \in SUBSET CtlrBits
    BY <2>1, <1>12 DEF TypeOK, ControllerTypeOK
  <2>3. ControllerTypeOK'
    BY <2>1, <2>2, <1>4, CtlrWriteType DEF TypeOK
  <2> QED BY <2>1, <2>3, <1>3, <1>10
<1>15. CASE Argument
  <2>1. pc \in Routines /\ UNCHANGED obs /\ (UNCHANGED <<env, excused>> \/ Fault)
        /\ (Proceed \/ Abandon) /\ (StoreWord(word) \/ AddrWrite(page) \/ UNCHANGED hw)
    BY <1>15 DEF Argument, InStep, Access
  <2>2. ControllerTypeOK'
    <3>1. CASE AddrWrite(page)
      BY <2>1, <3>1, <1>11 DEF AddrWrite, TypeOK, ControllerTypeOK
    <3>2. CASE StoreWord(word)
      BY <3>2, StoreWordType DEF TypeOK, ToolTypeOK
    <3> QED BY <2>1, <3>1, <3>2, <1>4
  <2> QED BY <2>1, <2>2, <1>3, <1>10
<1>16. CASE wait_ready
  <2>1. /\ pc \in Routines /\ UNCHANGED obs /\ UNCHANGED hw /\ (Proceed \/ Abandon)
        /\ (UNCHANGED <<env, excused>> \/ Fault \/ (UNCHANGED env /\ excused' = TRUE))
    BY <1>16 DEF wait_ready, InStep
  <2>2. ControllerTypeOK' /\ ToolTypeOK' /\ InPart'
    BY <2>1, <1>4, <1>10
  <2>3. CASE UNCHANGED env /\ excused' = TRUE
    BY <2>1, <2>2, <2>3 DEF TypeOK, env, obs
  <2> QED BY <2>1, <2>2, <2>3, <1>3
<1>17. CASE Cleanup
  <2>1. pc \in Routines /\ UNCHANGED obs /\ (UNCHANGED <<env, excused>> \/ Fault)
        /\ RoutineReturns /\ (CtlrWrite(ctlr \ ClearMask(pc)) \/ UNCHANGED hw)
    BY <1>17 DEF Cleanup, InStep, Access
  <2>2. ControllerTypeOK'
    BY <2>1, <1>4, CtlrWriteType DEF TypeOK, ControllerTypeOK
  <2>3. page \in Nat /\ word \in Nat /\ Refusal(call) = "ok" /\ FirstPage(call) <= page
        /\ FirstPage(call) \in Nat
    BY <2>1, <1>11, AcceptedRange DEF TypeOK, ToolTypeOK, InPart
  <2>4. ASSUME NEW r \in Routines, NEW w \in Nat, Enter(r, w) PROVE ToolTypeOK' /\ InPart'
    <3>1. FirstStep(r) \in Steps
      BY DEF FirstStep, Steps
    <3> QED BY <2>1, <2>4, <3>1
            DEF Enter, Goto, TypeOK, ToolTypeOK, InPart, Locs, Routines, IsCall
  <2>5. CASE status # "ok"
    BY <2>1, <2>2, <2>5, <1>3, <1>5 DEF RoutineReturns, TypeOK, ToolTypeOK
  <2>6. CASE status = "ok" /\ pc \in {"erase", "reset", "load"}
    <3>1. \E r \in Routines, w \in Nat : Enter(r, w)
      <4>1. Enter("reset", word) \/ Enter("load", 0) \/ Enter("load", word + 1) \/ Enter("program", word)
        BY <2>1, <2>6 DEF RoutineReturns
      <4>2. word + 1 \in Nat
        BY <2>3
      <4> QED BY <4>1, <4>2, <2>3 DEF Routines
    <3> QED BY <2>1, <2>2, <2>4, <3>1, <1>3
  <2>7. CASE status = "ok" /\ pc = "program"
    <3>1. LoopTop(page + 1)
      BY <2>1, <2>7 DEF RoutineReturns
    <3>2. page + 1 \in Nat /\ FirstPage(call) <= page + 1
      BY <2>3
    <3> QED BY <2>1, <2>2, <2>3, <3>1, <3>2, <1>3, <1>6
  <2> QED BY <2>1, <2>5, <2>6, <2>7 DEF Routines
<1>18. CASE verify
  <2>1. UNCHANGED hw /\ UNCHANGED obs /\ (UNCHANGED <<env, excused>> \/ Fault)
    BY <1>18 DEF verify
  <2>2. ChunkEnd \in Nat
    BY SizeAssumption DEF ChunkEnd, TypeOK, ToolTypeOK, IsCall
  <2>3. ToolTypeOK'
    BY <1>18, <2>2 DEF verify, TypeOK, ToolTypeOK, Locs, IsCall
  <2>4. InPart'
    BY <1>18 DEF verify, InPart, Routines
  <2> QED BY <2>1, <2>3, <2>4, <1>3, <1>4
<1>19. CASE resume
  <2>1. UNCHANGED hw /\ UNCHANGED obs /\ (UNCHANGED <<env, excused>> \/ Fault) /\ Return(status)
    BY <1>19 DEF resume, Access
  <2> QED BY <2>1, <1>3, <1>4, <1>5 DEF TypeOK, ToolTypeOK
<1>20. CASE ControllerIdle
  <2>1. ControllerTypeOK'
    BY <1>20 DEF ControllerIdle, TypeOK, ControllerTypeOK
  <2>2. ToolTypeOK' /\ InPart'
    BY <1>20 DEF ControllerIdle, loops, TypeOK, ToolTypeOK, InPart, IsCall
  <2>3. UNCHANGED obs /\ UNCHANGED <<env, excused>>
    BY <1>20 DEF ControllerIdle
  <2> QED BY <2>1, <2>2, <2>3, <1>3
<1>21. CASE TargetReset
  <2>1. ControllerTypeOK'
    <3>1. addr' \in Pages /\ keys' \in [{"main", "fast"} -> 0 .. 2]
      BY <1>21, SizeAssumption DEF TargetReset, Pages
    <3> QED BY <1>21, <3>1, ErasedPageType DEF TargetReset, TypeOK, ControllerTypeOK
  <2> QED BY <1>21, <2>1 DEF TargetReset, loops, env, obs, TypeOK, ToolTypeOK, InPart, IsCall
<1> QED BY <1>1, <1>2, <1>7, <1>8, <1>9, <1>13, <1>14, <1>15, <1>16, <1>17,
           <1>18, <1>19, <1>20, <1>21 DEF Next, Tool

\* Every state of the writer and its controller is well typed; in particular
\* ADDR only ever names a page of the part.
THEOREM TypeCorrect == Spec => []TypeOK
<1>1. Spec => []TInv
  BY TInvInit, TInvNext, PTL DEF Spec
<1> QED BY <1>1, PTL DEF TInv

---------------------------------------------------------------------------
(* Confinement.  Confined alone is not inductive: a CTLR write erases or   *)
(* programs whatever page ADDR names if STRT is set, so by the time the    *)
(* tool sets STRT, ADDR must name the page it is at.                       *)

Aimed == pc \in {"erase", "program"} /\ step = "trigger" => addr = page

CInv == TInv /\ Aimed /\ Confined

\* A CTLR write changes no page but the one ADDR names, and that only if STRT
\* is set in the value written.
LEMMA CtlrWriteFlash ==
  ASSUME ControllerTypeOK, NEW v, CtlrWrite(v), NEW p \in Pages,
         p # addr \/ "STRT" \notin v
  PROVE  flash'[p] = flash[p]
BY DEF ControllerTypeOK, CtlrWrite, EraseAtAddr, ProgramAtAddr, Refuse

\* Confinement, and ADDR's page when the tool is about to set STRT, are kept by
\* every step.
LEMMA CInvNext == CInv /\ [Next]_vars => CInv'
<1> SUFFICES ASSUME CInv, [Next]_vars PROVE CInv'
  OBVIOUS
<1>1. TInv' /\ TInv
  BY TInvNext DEF CInv
<1>2. TypeOK /\ InPart /\ ControllerTypeOK /\ ToolTypeOK
  BY <1>1 DEF TInv, TypeOK
<1>3. ASSUME pc \in Routines PROVE page \in CallPages(call) /\ page \in Pages
  BY <1>2, <1>3, LoopPage DEF InPart, ToolTypeOK, Routines, CallPages
\* A step of the tool that leaves the controller alone and does not arrive at
\* a trigger.
<1>4. ASSUME UNCHANGED <<hw, obs, call>>,
             ~(pc' \in {"erase", "program"} /\ step' = "trigger")
      PROVE  CInv'
  BY <1>1, <1>4 DEF CInv, Aimed, Confined, Exposed, CallPages, hw, obs
\* A CTLR write whose value has STRT only if ADDR names an exposed page.
<1>5. ASSUME NEW v, CtlrWrite(v), "STRT" \in v => addr \in Exposed,
             UNCHANGED <<obs, call>>,
             ~(pc' \in {"erase", "program"} /\ step' = "trigger")
      PROVE  CInv'
  <2>1. Aimed'
    BY <1>5 DEF Aimed, CtlrWrite, obs, CallPages
  <2>2. Confined'
    <3>1. Exposed' = Exposed /\ ctlr' = v /\ addr' = addr
      BY <1>5 DEF Exposed, CallPages, CtlrWrite, obs
    <3>2. ASSUME NEW p \in Pages \ Exposed
          PROVE  flash'[p] = before[p]
      <4>1. p # addr \/ "STRT" \notin v
        BY <1>5
      <4> QED BY <1>2, <1>5, <4>1, CtlrWriteFlash DEF CInv, Confined
    <3> QED BY <1>5, <3>1, <3>2 DEF Confined, obs
  <2> QED BY <1>1, <2>1, <2>2 DEF CInv
<1>6. CASE UNCHANGED vars
  BY <1>1, <1>6 DEF CInv, Aimed, Confined, Exposed, CallPages, vars, hw, loops, obs
<1>7. ASSUME NEW c \in CallSet, Begin(c) PROVE CInv'
  <2>1. Aimed'
    BY <1>7 DEF Begin, Aimed, hw
  <2>2. Confined'
    BY <1>7 DEF Begin, Confined, Exposed, hw
  <2> QED BY <1>1, <2>1, <2>2 DEF CInv
<1>8. CASE Attach
  BY <1>4, <1>8 DEF Attach, Access, Return, Goto, loops
<1>9. CASE unlock
  <2>1. CASE word < 4
    <3>1. ~(word = 4)
      BY <1>2, <2>1 DEF ToolTypeOK
    <3>2. UNCHANGED <<flash, ctlr, addr, obs, call>> /\ pc' \notin {"erase", "program"}
      BY <1>9, <2>1, <3>1 DEF unlock, Access, KeyWrite, Return, loops, hw
    <3> QED BY <1>1, <3>2 DEF CInv, Aimed, Confined, Exposed, CallPages, obs
  <2>2. CASE word = 4
    <3>1. UNCHANGED <<hw, obs, call>> /\ pc' \notin {"erase", "program"}
      BY <1>9, <2>2 DEF unlock, Access, LoopTop, Goto, Return, loops
    <3> QED BY <1>4, <3>1
  <2> QED BY <1>9, <2>1, <2>2 DEF unlock
<1>10. CASE MergePage
  BY <1>4, <1>10 DEF MergePage, Goto, Return, loops
<1>11. CASE SetMode
  <2>1. ~(pc' \in {"erase", "program"} /\ step' = "trigger")
    BY <1>11 DEF SetMode, InStep, Access, Proceed, Abandon, StepAfter, loops
  <2>2. UNCHANGED <<obs, call>> /\ (CtlrWrite(ctlr \cup {Mode(pc)}) \/ UNCHANGED hw)
    BY <1>11 DEF SetMode, InStep, Access, Proceed, Abandon, loops
  <2>3. Mode(pc) # "STRT"
    BY DEF Mode
  <2> QED BY <2>1, <2>2, <2>3, <1>4, <1>5 DEF CInv, Confined
<1>12. CASE SetTrigger
  <2>1. /\ pc \in Routines /\ step = "trigger" /\ UNCHANGED <<obs, call>> /\ step' # "trigger"
        /\ (CtlrWrite(ctlr \cup {Trigger(pc)}) \/ UNCHANGED hw)
    BY <1>12 DEF SetTrigger, InStep, Access, Proceed, Abandon, StepAfter, loops
  <2>2. Trigger(pc) = "STRT" => addr \in Exposed
    BY <2>1, <1>3 DEF Trigger, Routines, CInv, Aimed, Exposed
  <2> QED BY <2>1, <2>2, <1>4, <1>5 DEF CInv, Confined
<1>13. CASE Argument
  <2>1. /\ pc \in Routines /\ UNCHANGED <<obs, call, page, pc>>
        /\ UNCHANGED <<flash, ctlr>> /\ addr' \in {addr, page}
        /\ (addr' = page \/ step' = "cleanup" \/ pc = "load")
    BY <1>13 DEF Argument, InStep, Access, Proceed, Abandon, StoreWord, AddrWrite, hw, loops
  <2>2. Aimed'
    BY <2>1, <1>3 DEF CInv, Aimed
  <2>3. Confined'
    BY <2>1, <1>3 DEF CInv, Confined, Exposed, CallPages, obs
  <2> QED BY <1>1, <2>2, <2>3 DEF CInv
<1>14. CASE wait_ready
  BY <1>4, <1>14 DEF wait_ready, InStep, Proceed, Abandon, StepAfter, loops
<1>15. CASE Cleanup
  <2>1. /\ pc \in Routines /\ UNCHANGED <<obs, call>>
        /\ (CtlrWrite(ctlr \ ClearMask(pc)) \/ UNCHANGED hw)
        /\ RoutineReturns /\ step = "cleanup"
    BY <1>15 DEF Cleanup, InStep, Access, RoutineReturns, Return, Enter, LoopTop, Routines, loops
  <2>2. ~(pc' \in {"erase", "program"} /\ step' = "trigger")
    BY <2>1 DEF RoutineReturns, Return, Enter, LoopTop, Goto, FirstStep, Routines, loops
  <2> QED BY <2>1, <2>2, <1>4, <1>5 DEF CInv, Confined
<1>16. CASE verify
  BY <1>4, <1>16 DEF verify
<1>17. CASE resume
  BY <1>4, <1>17 DEF resume, Access, Return, loops
<1>18. CASE ControllerIdle
  BY <1>1, <1>18 DEF ControllerIdle, CInv, Aimed, Confined, Exposed, CallPages, loops, obs
<1>19. CASE TargetReset
  BY <1>1, <1>19 DEF TargetReset, CInv, Aimed, Confined, Exposed, CallPages, loops, obs
<1> QED BY <1>6, <1>7, <1>8, <1>9, <1>10, <1>11, <1>12, <1>13, <1>14, <1>15,
           <1>16, <1>17, <1>18, <1>19 DEF Next, Tool

\* No access failure, in whatever place and whether or not it took effect,
\* makes a write touch a page the image does not overlap, save the one ADDR names
\* if STRT was left set before the write began, or leave STRT set for another.
THEOREM WriteIsConfined == Spec => []Confined
<1>1. Init => CInv
  <2> SUFFICES ASSUME Init PROVE Aimed /\ Confined
    BY TInvInit DEF CInv
  <2> QED BY DEF Init, Aimed, Confined, Exposed
<1>2. Spec => []CInv
  BY <1>1, CInvNext, PTL DEF Spec
<1> QED BY <1>2, PTL DEF CInv

=============================================================================
