-------------------------- MODULE FlashImageProofs --------------------------
(***************************************************************************)
(* Further proofs about FlashWriter: what a successful write leaves in the *)
(* part, why a write fails, and that the writer implements PageStore.      *)
(* FlashWriterProofs shows the types and the confinement they build on.    *)
(***************************************************************************)
EXTENDS FlashWriterProofs

---------------------------------------------------------------------------
(* Arithmetic of pages and words *)

\* The page and the offset of a byte are those its offset in flash is made of.
LEMMA PageAndOffset ==
  ASSUME NEW k \in Nat \ {0}, NEW p \in Nat, NEW o \in 0 .. k - 1
  PROVE  (p * k + o) \div k = p /\ (p * k + o) % k = o
OBVIOUS

\* A byte of the image lies in no page before the first one.
LEMMA FirstIsFirst ==
  ASSUME NEW k \in Nat \ {0}, NEW p \in Nat, NEW o \in 0 .. k - 1, NEW s \in Nat,
         s <= p * k + o
  PROVE  s \div k <= p
<1>1. s \div k \in Nat /\ (s \div k) * k <= s
  BY PageOf
<1>2. (p + 1) * k = p * k + k
  OBVIOUS
<1>3. (s \div k) * k < (p + 1) * k
  BY <1>1, <1>2
<1>4. s \div k < p + 1
  BY <1>1, <1>3, PageOrder
<1> QED BY <1>1, <1>4

\* Every byte of a page belongs to one of its words.
LEMMA LastWord ==
  ASSUME NEW w \in Nat, w + 1 \notin Words, NEW o \in Offs
  PROVE  o \div WordSize < w + 1
<1> DEFINE n == PageSize \div WordSize
           q == o \div WordSize
<1>1. n \in Nat /\ q \in Nat /\ o \in Nat
  BY SizeAssumption, PageOf DEF Offs
<1>2. PageSize = n * WordSize
  BY SizeAssumption
<1>3. q * WordSize <= o
  BY <1>1, SizeAssumption
<1>4. q * WordSize < n * WordSize
  BY <1>1, <1>2, <1>3, SizeAssumption DEF Offs
<1>5. q < n
  BY <1>1, <1>4, PageOrder, SizeAssumption
<1>6. n <= w + 1
  BY <1>1 DEF Words
<1> QED BY <1>1, <1>5, <1>6

---------------------------------------------------------------------------
(* Accesses *)

\* No access of this call has failed.
Unfailed == link = "up" /\ ~bumpy

\* An access after which that is still so has done what it was to do.
LEMMA AccessUnfailed ==
  ASSUME NEW ACTION effect, NEW ACTION ok, NEW ACTION failed,
         Access(effect, ok, failed), link' = "up", ~bumpy'
  PROVE  link = "up" /\ ~bumpy /\ effect /\ ok /\ UNCHANGED <<env, excused>>
<1>1. ~Fault
  BY DEF Fault, env
<1>2. link = "up" /\ effect /\ ok /\ UNCHANGED <<env, excused>>
  BY <1>1 DEF Access
<1> QED BY <1>2 DEF env

\* A call that meets a failure after which it could go on remembers it.
LEMMA BumpyGrows ==
  ASSUME Tool \/ ControllerIdle, ~bumpy'
  PROVE  ~bumpy /\ (link' = "up" => link = "up")
<1>1. ASSUME Fault PROVE ~bumpy /\ (link' = "up" => link = "up")
  <2>1. CASE UNCHANGED env
    BY <2>1 DEF env
  <2>2. CASE link = "up" /\ bumpy' = (bumpy \/ link' = "up")
    BY <2>2, Zenon
  <2> QED BY <1>1, <2>1, <2>2 DEF Fault
<1>2. UNCHANGED env => ~bumpy /\ (link' = "up" => link = "up")
  BY DEF env
<1>3. Fault \/ UNCHANGED env
  BY DEF Tool, ControllerIdle, Attach, unlock, MergePage, SetMode, Argument, SetTrigger,
         wait_ready, Cleanup, verify, resume, Access, InStep
<1> QED BY <1>1, <1>2, <1>3

---------------------------------------------------------------------------
(* The tool's flow of control: `status` is "ok" except where a routine is    *)
(* about to clean up after a failure, and the page loop is left only when    *)
(* the image ends.                                                           *)

Flow ==
  /\ pc \in {"attach", "unlock", "merge", "verify"} => status = "ok"
  /\ pc \in Routines => status \in {"ok", "target"} /\ (step # "cleanup" => status = "ok")
  /\ pc \in Routines /\ step = "cleanup" /\ link = "down" => status = "target"
  /\ pc \in {"reset", "load", "program"} => step # "ready"
  /\ pc = "reset" => step # "arg"
  /\ pc \in {"verify", "resume"} => ~PageInLoop(call, page)

\* One step of a routine: the next step, or the clean-up.
LEMMA RoutineStepFlow ==
  ASSUME TInv, Flow, SetMode \/ Argument \/ SetTrigger \/ wait_ready
  PROVE  Flow'
<1>1. pc \in Routines /\ step # "cleanup" /\ (Proceed \/ Abandon)
  BY DEF SetMode, Argument, SetTrigger, wait_ready, InStep, Access
<1>2. CASE Abandon
  BY <1>1, <1>2 DEF Abandon, Flow, Routines, loops
<1>3. CASE Proceed
  <2>1. UNCHANGED <<pc, status, call, page>> /\ step' = StepAfter(pc, step)
    BY <1>3 DEF Proceed, loops
  <2>2. step' # "ready" /\ (pc = "reset" => step' # "arg")
    BY <2>1, <1>1 DEF StepAfter, Flow, Routines
  <2>3. step' = "cleanup" /\ status = "ok" => link' = "up"
    <3>1. ASSUME step' = "cleanup" PROVE step = "wait"
      BY <1>1, <2>1, <3>1 DEF StepAfter, TInv, TypeOK, ToolTypeOK, Steps
    <3>2. CASE step = "wait" /\ status = "ok"
      <4>1. wait_ready
        BY <3>2 DEF SetMode, Argument, SetTrigger, InStep
      <4>2. ~Abandon
        BY <3>2, <1>3 DEF Abandon, Proceed
      <4> QED BY <4>1, <4>2 DEF wait_ready, env
    <3> QED BY <3>1, <3>2
  <2>4. status = "ok"
    BY <1>1 DEF Flow
  <2> QED BY <1>1, <2>1, <2>2, <2>3, <2>4 DEF Flow, Routines, TInv, TypeOK
<1> QED BY <1>1, <1>2, <1>3

\* A routine returns to wl_flash_ch32v0_write.
LEMMA RoutineReturnsCases ==
  ASSUME TInv, pc \in Routines, RoutineReturns
  PROVE  \/ status # "ok" /\ Return(status)
         \/ status = "ok" /\ pc = "erase" /\ Enter("reset", word)
         \/ status = "ok" /\ pc = "reset" /\ Enter("load", 0)
         \/ status = "ok" /\ pc = "load" /\ word + 1 \in Words /\ Enter("load", word + 1)
         \/ status = "ok" /\ pc = "load" /\ word + 1 \notin Words /\ Enter("program", word)
         \/ status = "ok" /\ pc = "program" /\ LoopTop(page + 1)
BY DEF RoutineReturns, Routines

\* The clean-up of a routine leads where the order of the routines says.
LEMMA CleanupFlow ==
  ASSUME TInv, Flow, Cleanup
  PROVE  Flow'
<1>1. pc \in Routines /\ RoutineReturns
  BY DEF Cleanup, InStep, Access
<1>2. CASE status # "ok" /\ Return(status)
  BY <1>2 DEF Return, Flow, Routines
<1>3. ASSUME NEW r \in {"reset", "load", "program"}, NEW w, status = "ok", Enter(r, w)
      PROVE  Flow'
  BY <1>3 DEF Enter, Goto, FirstStep, Flow, Routines
<1>4. CASE status = "ok" /\ LoopTop(page + 1)
  BY <1>4 DEF LoopTop, Goto, Flow, Routines
<1> QED BY <1>1, <1>2, <1>3, <1>4, RoutineReturnsCases

\* The order of the routines is kept by every step.
LEMMA FlowNext == TInv /\ Flow /\ [Next]_vars => Flow'
<1> SUFFICES ASSUME TInv, Flow, [Next]_vars PROVE Flow'
  OBVIOUS
<1>1. CASE UNCHANGED vars
  BY <1>1 DEF vars, loops, env, Flow
<1>2. ASSUME NEW c \in CallSet, Begin(c) PROVE Flow'
  BY <1>2 DEF Begin, Flow, Routines
<1>3. CASE Attach
  BY <1>3 DEF Attach, Access, Return, Goto, Flow, Routines
<1>4. CASE unlock
  <2>1. \/ UNCHANGED <<pc, status>>
        \/ pc' = "idle"
        \/ LoopTop(FirstPage(call))
    BY <1>4 DEF unlock, Access, Return
  <2> QED BY <1>4, <2>1 DEF unlock, LoopTop, Goto, Flow, Routines
<1>5. CASE MergePage
  BY <1>5 DEF MergePage, Goto, Return, Flow, Routines
<1>6. CASE verify
  BY <1>6 DEF verify, Flow, Routines
<1>7. CASE resume
  BY <1>7 DEF resume, Access, Return, Flow, Routines
<1>8. CASE ControllerIdle
  BY <1>8 DEF ControllerIdle, loops, env, Flow
<1>9. CASE TargetReset
  BY <1>9 DEF TargetReset, loops, env, Flow
<1> QED BY <1>1, <1>2, <1>3, <1>4, <1>5, <1>6, <1>7, <1>8, <1>9, RoutineStepFlow, CleanupFlow
        DEF Next, Tool

---------------------------------------------------------------------------
(* The controller's bits.  As long as no access has failed, a trigger or a   *)
(* mode bit is set only while the routine that owns it runs; the bits an     *)
(* earlier call left behind are gone after the first erase and the first     *)
(* buffer reset.                                                             *)

\* clean is a matter of an observation that no step but Begin changes.
USE DEF clean

Control ==
  Unfailed /\ pc # "idle" =>
    /\ "STRT" \in ctlr =>
         \/ pc \in {"erase", "program"} /\ step \in {"wait", "cleanup"}
         \/ ~clean /\ pc \in {"attach", "unlock"}
         \/ ~clean /\ pc \in {"merge", "erase"} /\ page = FirstPage(call)
    /\ pc \in {"load", "program"} => "BUF_RST" \notin ctlr
    /\ pc \in {"reset", "load", "program"} => "PAGE_ER" \notin ctlr
    /\ pc \in {"erase", "program"} /\ step \in {"arg", "trigger"} => Mode(pc) \in ctlr

\* An accepted call has a page to write.
LEMMA FirstInLoop ==
  ASSUME NEW c, IsCall(c), Refusal(c) = "ok"
  PROVE  PageInLoop(c, FirstPage(c))
<1>1. start(c) \in Nat /\ end(c) \in Nat /\ c.length # 0
  BY AcceptedRange
<1>2. c.length \in Nat /\ end(c) = start(c) + c.length
  BY DEF IsCall, end
<1>3. FirstPage(c) * PageSize <= start(c)
  BY <1>1, SizeAssumption DEF FirstPage
<1>4. FirstPage(c) * PageSize \in Int
  BY <1>1, SizeAssumption, PageOf DEF FirstPage
<1> QED BY <1>1, <1>2, <1>3, <1>4 DEF PageInLoop

\* The tool's steps after which no access has failed, one by one.
LEMMA SetModeUnfailed ==
  ASSUME SetMode, Unfailed'
  PROVE  /\ Unfailed /\ pc \in Routines /\ step = "mode" /\ UNCHANGED obs
         /\ CtlrWrite(ctlr \cup {Mode(pc)}) /\ Proceed
BY AccessUnfailed DEF SetMode, InStep, Unfailed

\* A trigger after which nothing has failed has set the trigger bit.
LEMMA SetTriggerUnfailed ==
  ASSUME SetTrigger, Unfailed'
  PROVE  /\ Unfailed /\ pc \in Routines /\ step = "trigger" /\ UNCHANGED obs
         /\ CtlrWrite(ctlr \cup {Trigger(pc)}) /\ Proceed
BY AccessUnfailed DEF SetTrigger, InStep, Unfailed

\* So has an argument write written its argument.
LEMMA ArgumentUnfailed ==
  ASSUME Argument, Unfailed'
  PROVE  /\ Unfailed /\ pc \in Routines /\ step = "arg" /\ UNCHANGED obs
         /\ (IF pc = "load" THEN StoreWord(word) ELSE AddrWrite(page)) /\ Proceed
BY AccessUnfailed DEF Argument, InStep, Unfailed

\* A clean-up after which nothing has failed has cleared its bits.
LEMMA CleanupUnfailed ==
  ASSUME Cleanup, Unfailed'
  PROVE  /\ Unfailed /\ pc \in Routines /\ step = "cleanup" /\ UNCHANGED obs
         /\ CtlrWrite(ctlr \ ClearMask(pc)) /\ RoutineReturns
BY AccessUnfailed DEF Cleanup, InStep, Unfailed

\* A wait changes nothing of the controller, and goes on only if no write error is set.
LEMMA WaitUnfailed ==
  ASSUME wait_ready, Unfailed'
  PROVE  /\ Unfailed /\ pc \in Routines /\ step \in {"ready", "wait"} /\ UNCHANGED <<hw, obs>>
         /\ (Proceed /\ ~wrperr) \/ Abandon
<1>1. ~Fault
  BY DEF Fault, env, Unfailed
<1> QED BY <1>1 DEF wait_ready, InStep, Unfailed, env

\* The steps of the tool outside its routines leave flash, CTLR, ADDR and the
\* page buffer alone.
LEMMA OtherSteps ==
  ASSUME Attach \/ unlock \/ MergePage \/ verify \/ resume \/ ControllerIdle
  PROVE  UNCHANGED <<flash, ctlr, addr, buf, wrperr, obs>>
<1>1. CASE unlock
  BY <1>1 DEF unlock, Access, KeyWrite, hw
<1>2. CASE Attach \/ MergePage \/ verify \/ resume
  BY <1>2 DEF Attach, MergePage, verify, resume, Access, hw
<1>3. CASE ControllerIdle
  BY <1>3 DEF ControllerIdle
<1> QED BY <1>1, <1>2, <1>3

\* How they change what the tool is doing.
LEMMA OtherFlow ==
  ASSUME TInv, Flow, Attach \/ unlock \/ MergePage \/ verify \/ resume \/ ControllerIdle
  PROVE  \/ UNCHANGED <<pc, step, call, page, word, merged, status, result>>
         \/ pc \notin {"idle", "merge"} \cup Routines /\ pc' = "idle" /\ call' = call
         \/ pc = "merge" /\ Return("target")
         \/ pc = "attach" /\ pc' = "unlock" /\ UNCHANGED <<call, page, merged, status>>
         \/ pc = "unlock" /\ pc' = "unlock" /\ UNCHANGED <<call, page, merged, status>>
         \/ pc = "unlock" /\ LoopTop(FirstPage(call)) /\ pc' = "merge"
         \/ pc = "merge" /\ merged' = Merge(call, page) /\ Goto("erase", "ready")
            /\ UNCHANGED <<status, call, page, word, done>>
         \/ pc = "verify" /\ pc' \in {"verify", "resume"} /\ UNCHANGED <<call, page, merged>>
<1>1. CASE unlock
  <2>1. PageInLoop(call, FirstPage(call))
    BY <1>1, FirstInLoop DEF unlock, TInv, InPart, TypeOK, ToolTypeOK
  <2> QED BY <1>1, <2>1 DEF unlock, Access, Return, LoopTop, Goto, loops, Routines
<1>2. CASE Attach
  BY <1>2 DEF Attach, Access, Return, Goto, loops, Routines
<1>3. CASE MergePage
  BY <1>3 DEF MergePage
<1>4. CASE verify
  BY <1>4 DEF verify
<1>5. CASE resume
  BY <1>5 DEF resume, Access, Return, loops, Routines
<1>6. CASE ControllerIdle
  BY <1>6 DEF ControllerIdle, loops
<1> QED BY <1>1, <1>2, <1>3, <1>4, <1>5, <1>6

\* What CTLR holds at each step of a routine is kept by every step of a call in which
\* nothing fails.
LEMMA ControlNext == CInv /\ Flow /\ Control /\ [Next]_vars => Control'
<1> SUFFICES ASSUME CInv, Flow, Control, [Next]_vars, Unfailed', pc' # "idle"
             PROVE  /\ "STRT" \in ctlr' =>
                         \/ pc' \in {"erase", "program"} /\ step' \in {"wait", "cleanup"}
                         \/ ~clean' /\ pc' \in {"attach", "unlock"}
                         \/ ~clean' /\ pc' \in {"merge", "erase"} /\ page' = FirstPage(call')
                    /\ pc' \in {"load", "program"} => "BUF_RST" \notin ctlr'
                    /\ pc' \in {"reset", "load", "program"} => "PAGE_ER" \notin ctlr'
                    /\ pc' \in {"erase", "program"} /\ step' \in {"arg", "trigger"} =>
                         Mode(pc') \in ctlr'
  BY DEF Control, Mode
<1>0. TInv /\ TypeOK
  BY DEF CInv, TInv
<1>1. CASE UNCHANGED vars
  BY <1>1 DEF vars, hw, loops, env, obs, Control, Unfailed
<1>2. ASSUME NEW c \in CallSet, Begin(c) PROVE Control'
  BY <1>2 DEF Begin, hw, Control
<1>3. CASE SetMode
  BY <1>3, SetModeUnfailed
     DEF CtlrWrite, Proceed, StepAfter, loops, obs, Mode, Control, Routines
<1>4. CASE SetTrigger
  BY <1>4, SetTriggerUnfailed
     DEF CtlrWrite, Proceed, StepAfter, loops, obs, Mode, Trigger, Control, Routines
<1>5. CASE Argument
  <2>1. /\ Unfailed /\ pc \in Routines /\ step = "arg" /\ step' = "trigger"
        /\ UNCHANGED <<ctlr, pc, call, page, clean>>
    BY <1>5, ArgumentUnfailed DEF StoreWord, AddrWrite, Proceed, StepAfter, loops, obs
  <2> QED BY <2>1 DEF Control, Mode, Routines
<1>6. CASE wait_ready
  BY <1>6, WaitUnfailed
     DEF Proceed, Abandon, StepAfter, hw, loops, obs, Control, Routines
<1>7. CASE Cleanup
  <2>1. /\ Unfailed /\ pc \in Routines /\ step = "cleanup" /\ UNCHANGED obs
        /\ ctlr' = ctlr \ {Mode(pc), Trigger(pc)} /\ RoutineReturns
    BY <1>7, CleanupUnfailed DEF CtlrWrite, ClearMask
  <2>2. "STRT" \notin ctlr'
    BY <2>1 DEF Control, Mode, Trigger, Routines
  <2>3. pc' \in {"reset", "load", "program"} => "PAGE_ER" \notin ctlr'
    BY <2>1, <1>0, RoutineReturnsCases
       DEF Control, Mode, Routines, Enter, LoopTop, Goto, Return
  <2>4. pc' \in {"load", "program"} => "BUF_RST" \notin ctlr'
    BY <2>1, <1>0, RoutineReturnsCases
       DEF Control, Trigger, Routines, Enter, LoopTop, Goto, Return
  <2>5. step' \notin {"arg", "trigger"}
    BY <2>1, <1>0, RoutineReturnsCases DEF Enter, LoopTop, Goto, Return, FirstStep
  <2> QED BY <2>2, <2>3, <2>4, <2>5
<1>8. CASE Attach \/ unlock \/ MergePage \/ verify \/ resume \/ ControllerIdle
  <2>1. UNCHANGED <<ctlr, obs>> /\ Unfailed
    BY <1>8, OtherSteps, BumpyGrows DEF Tool, Unfailed
  <2>2. pc # "idle"
    BY <1>8 DEF Attach, unlock, MergePage, verify, resume, ControllerIdle
  <2>3. CASE UNCHANGED <<pc, step, call, page>>
    BY <2>1, <2>2, <2>3 DEF Control, obs
  <2>4. CASE pc = "unlock" /\ LoopTop(FirstPage(call)) /\ pc' = "merge"
    BY <2>1, <2>4 DEF LoopTop, Control, obs
  <2>5. CASE pc = "merge" /\ Goto("erase", "ready") /\ UNCHANGED <<call, page>>
    BY <2>1, <2>5 DEF Goto, Control, obs
  <2>6. CASE pc \in {"attach", "unlock"} /\ pc' = "unlock"
    BY <2>1, <2>6 DEF Control, obs
  <2>7. CASE pc = "verify" /\ pc' \in {"verify", "resume"}
    BY <2>1, <2>7 DEF Control
  <2> QED BY <1>0, <1>8, <2>3, <2>4, <2>5, <2>6, <2>7, OtherFlow DEF Return
<1>9. CASE TargetReset
  BY <1>9 DEF TargetReset
<1> QED BY <1>1, <1>2, <1>3, <1>4, <1>5, <1>6, <1>7, <1>8, <1>9 DEF Next, Tool, Control, Unfailed

---------------------------------------------------------------------------
(* The page buffer.  As long as no access has failed, the words loaded so    *)
(* far are in the buffer, and a program that the controller did not complain *)
(* about left the merged page in flash.                                      *)

Loaded(n) == \A o \in Offs : o \div WordSize < n => buf[o] = merged[o]

Buffer ==
  Unfailed =>
    /\ pc = "load" => Loaded(word)
    /\ pc = "load" /\ step \in {"trigger", "wait"} => wrperr \/ Loaded(word + 1)
    /\ pc = "load" /\ step = "cleanup" /\ status = "ok" => Loaded(word + 1)
    /\ pc = "program" /\ step \in {"mode", "arg", "trigger"} => buf = merged
    /\ pc = "program" /\ step = "wait" => wrperr \/ flash[page] = merged
    /\ pc = "program" /\ step = "cleanup" /\ status = "ok" => flash[page] = merged

\* A CTLR write that triggers nothing.
LEMMA CtlrWriteIdle ==
  ASSUME NEW v, CtlrWrite(v), "STRT" \notin v, "BUF_RST" \notin v
  PROVE  UNCHANGED <<flash, buf, wrperr, addr, keys>> /\ ctlr' = v
BY DEF CtlrWrite

\* The program operation leaves the buffer's contents in the page or complains.
LEMMA ProgramComplains ==
  ASSUME ControllerTypeOK, NEW v, CtlrWrite(v), "STRT" \in v, "BUF_RST" \notin v,
         "PAGE_ER" \notin v, "PAGE_PG" \in v
  PROVE  wrperr' \/ flash'[addr] = buf
<1>1. CASE ~FastUnlocked
  BY <1>1 DEF CtlrWrite, Refuse
<1>2. CASE FastUnlocked /\ ProgramAtAddr
  <2>1. CASE addr \in Protected \/ Programmed(flash[addr]) # buf
    BY <1>2, <2>1 DEF ProgramAtAddr
  <2>2. CASE addr \notin Protected /\ Programmed(flash[addr]) = buf
    BY <1>2, <2>2 DEF ProgramAtAddr, ControllerTypeOK
  <2> QED BY <2>1, <2>2
<1> QED BY <1>1, <1>2 DEF CtlrWrite

\* Once the last word is loaded the page buffer holds the merged page.
LEMMA LoadedAll ==
  ASSUME TypeOK, Loaded(word + 1), word + 1 \notin Words
  PROVE  buf = merged
<1>1. \A o \in Offs : buf[o] = merged[o]
  BY LastWord DEF Loaded, TypeOK, ToolTypeOK
<1>2. buf = [o \in Offs |-> buf[o]] /\ merged = [o \in Offs |-> merged[o]]
  BY DEF TypeOK, ControllerTypeOK, ToolTypeOK, Page
<1> QED BY <1>1, <1>2

\* How far the page buffer agrees with the merged page is kept by every step.
LEMMA BufferNext == CInv /\ Flow /\ Control /\ Buffer /\ [Next]_vars => Buffer'
<1> SUFFICES ASSUME CInv, Flow, Control, Buffer, [Next]_vars, Unfailed',
                    pc' \in {"load", "program"}
             PROVE  Buffer'
  BY DEF Buffer
<1>0. TInv /\ TypeOK /\ ControllerTypeOK /\ ToolTypeOK
  BY DEF CInv, TInv, TypeOK
\* A step that leaves the buffer, the page and the tool's place alone.
<1>1. ASSUME Unfailed,
             UNCHANGED <<flash, buf, wrperr, pc, step, status, page, word, merged>>
      PROVE  Buffer'
  BY <1>1 DEF Buffer, Loaded
<1>2. CASE UNCHANGED vars
  BY <1>1, <1>2 DEF vars, hw, loops, env, Unfailed
<1>3. ASSUME NEW c \in CallSet, Begin(c) PROVE FALSE
  BY <1>3 DEF Begin
<1>4. CASE SetMode
  <2>1. /\ Unfailed /\ pc \in {"load", "program"} /\ step = "mode" /\ step' = "arg"
        /\ CtlrWrite(ctlr \cup {"PAGE_PG"})
        /\ UNCHANGED <<pc, status, page, word, merged>>
    BY <1>4, SetModeUnfailed DEF Proceed, StepAfter, loops, Mode
  <2>2. UNCHANGED <<flash, buf, wrperr>>
    BY <2>1, CtlrWriteIdle DEF Control
  <2> QED BY <2>1, <2>2 DEF Buffer, Loaded
<1>5. CASE Argument
  <2>1. /\ Unfailed /\ pc \in {"load", "program"} /\ step = "arg" /\ step' = "trigger"
        /\ (IF pc = "load" THEN StoreWord(word) ELSE AddrWrite(page))
        /\ UNCHANGED <<pc, status, page, word, merged>>
    BY <1>5, ArgumentUnfailed DEF Proceed, StepAfter, loops
  <2>2. CASE pc = "program"
    BY <2>1, <2>2 DEF AddrWrite, Buffer
  <2>3. CASE pc = "load" /\ wrperr' /\ UNCHANGED buf
    BY <2>1, <2>3 DEF Buffer, Loaded
  <2>4. CASE pc = "load" /\ buf' = [o \in Offs |-> IF o \in WordOffs(word) THEN merged[o] ELSE buf[o]]
    <3>1. Loaded(word) /\ word \in Nat
      BY <1>0, <2>1, <2>4 DEF Buffer, ToolTypeOK
    <3>2. Loaded(word + 1)'
      <4> SUFFICES ASSUME NEW o \in Offs, o \div WordSize < word + 1
                   PROVE  buf'[o] = merged[o]
        BY <2>1 DEF Loaded
      <4>1. o \div WordSize \in Nat
        BY SizeAssumption, PageOf DEF Offs
      <4>2. o \div WordSize = word \/ o \div WordSize < word
        BY <3>1, <4>1
      <4> QED BY <2>4, <3>1, <4>2 DEF Loaded, WordOffs
    <3>3. Loaded(word)'
      BY <2>1, <2>4, <3>1 DEF Loaded
    <3> QED BY <2>1, <2>4, <3>2, <3>3 DEF Buffer
  <2> QED BY <2>1, <2>2, <2>3, <2>4 DEF StoreWord
<1>6. CASE SetTrigger
  <2>1. /\ Unfailed /\ pc \in {"load", "program"} /\ step = "trigger" /\ step' = "wait"
        /\ CtlrWrite(ctlr \cup {Trigger(pc)})
        /\ UNCHANGED <<pc, status, page, word, merged>>
    BY <1>6, SetTriggerUnfailed DEF Proceed, StepAfter, loops
  <2>2. CASE pc = "load"
    <3>1. UNCHANGED <<flash, buf, wrperr>>
      BY <2>1, <2>2, CtlrWriteIdle DEF Control, Trigger
    <3> QED BY <2>1, <2>2, <3>1 DEF Buffer, Loaded
  <2>3. CASE pc = "program"
    <3>1. addr = page /\ buf = merged
      BY <2>1, <2>3 DEF CInv, Aimed, Buffer
    <3>2. wrperr' \/ flash'[page] = merged
      BY <1>0, <2>1, <2>3, <3>1, ProgramComplains DEF Control, Trigger, Mode
    <3> QED BY <2>1, <2>3, <3>2 DEF Buffer
  <2> QED BY <2>1, <2>2, <2>3
<1>7. CASE wait_ready
  <2>1. /\ Unfailed /\ step = "wait" /\ step' = "cleanup" /\ UNCHANGED hw
        /\ UNCHANGED <<pc, page, word, merged>>
        /\ status' = "ok" => ~wrperr
    BY <1>7, WaitUnfailed DEF Proceed, Abandon, StepAfter, loops, Flow
  <2> QED BY <2>1 DEF hw, Buffer, Loaded
<1>8. CASE Cleanup
  <2>1. /\ Unfailed /\ pc \in Routines /\ step = "cleanup"
        /\ CtlrWrite(ctlr \ {Mode(pc), Trigger(pc)}) /\ RoutineReturns
    BY <1>8, CleanupUnfailed DEF ClearMask
  <2>2. CASE status = "ok" /\ pc = "reset" /\ Enter("load", 0)
    <3>1. Loaded(0)'
      BY SizeAssumption, PageOf DEF Loaded, Offs
    <3> QED BY <2>2, <3>1 DEF Enter, Goto, FirstStep, Buffer
  <2>3. ASSUME status = "ok", pc = "load", NEW r \in {"load", "program"}, NEW w, Enter(r, w)
        PROVE  UNCHANGED <<buf, merged>> /\ Loaded(word + 1) /\ pc' = r /\ step' = "mode" /\ word' = w
    BY <2>1, <2>3, CtlrWriteIdle
       DEF Control, Mode, Trigger, Buffer, Enter, Goto, FirstStep
  <2>4. CASE status = "ok" /\ pc = "load" /\ word + 1 \in Words /\ Enter("load", word + 1)
    BY <2>3, <2>4 DEF Buffer, Loaded
  <2>5. CASE status = "ok" /\ pc = "load" /\ word + 1 \notin Words /\ Enter("program", word)
    BY <1>0, <2>3, <2>5, LoadedAll DEF Buffer
  <2> QED BY <1>0, <2>1, <2>2, <2>4, <2>5, RoutineReturnsCases
          DEF Enter, Goto, LoopTop, Return
<1>9. CASE Attach \/ unlock \/ MergePage \/ verify \/ resume \/ ControllerIdle
  <2>1. UNCHANGED <<flash, buf, wrperr>> /\ Unfailed
    BY <1>9, OtherSteps, BumpyGrows DEF Tool, Unfailed
  <2>2. UNCHANGED <<pc, step, page, word, merged, status>>
    BY <1>0, <1>9, OtherFlow DEF Return, Goto
  <2> QED BY <2>1, <2>2, <1>1
<1>10. CASE TargetReset
  BY <1>10 DEF TargetReset
<1> QED BY <1>2, <1>3, <1>4, <1>5, <1>6, <1>7, <1>8, <1>9, <1>10 DEF Next, Tool

---------------------------------------------------------------------------
(* The image.  The pages behind the one the tool is at hold their part of    *)
(* the image as long as no access has failed; what is read back holds it     *)
(* whatever has failed.                                                      *)

MergedImage ==
  pc \in Routines => \A o \in Offs : InRange(call, page, o) => merged[o] = Img(call, page, o)

ImageAt(p) == \A o \in Offs : InRange(call, p, o) => flash[p][o] = Img(call, p, o)

Behind ==
  Unfailed /\ pc \in Routines \cup {"merge"} =>
    \A p \in Pages : FirstPage(call) <= p /\ p < page => ImageAt(p)

Final ==
  ~bumpy /\ ((pc \in {"verify", "resume"} /\ status = "ok") \/ Returned("ok")) => HoldsImage

ReadBack ==
  /\ pc = "verify" => \A i \in 0 .. done - 1 : i < call.length => Matches(i)
  /\ call.verify /\ ((pc = "resume" /\ status = "ok") \/ Returned("ok")) => HoldsImage

\* Every byte of the image is in one of the pages the loop visits.
LEMMA BehindIsAll ==
  ASSUME TypeOK, Refusal(call) = "ok", NEW q \in Nat, ~PageInLoop(call, q),
         \A p \in Pages : FirstPage(call) <= p /\ p < q => ImageAt(p)
  PROVE  HoldsImage
<1> SUFFICES ASSUME NEW p \in Pages, NEW o \in Offs, InRange(call, p, o)
             PROVE  flash[p][o] = Img(call, p, o)
  BY DEF HoldsImage
<1>1. start(call) \in Nat /\ end(call) \in Nat
  BY AcceptedRange DEF TypeOK, ToolTypeOK
<1>2. p \in Nat /\ o \in 0 .. PageSize - 1 /\ PageSize \in Nat \ {0}
  BY SizeAssumption DEF Pages, Offs
<1>3. start(call) <= p * PageSize + o /\ p * PageSize + o < end(call)
  BY DEF InRange, At
<1>4. FirstPage(call) <= p
  BY <1>1, <1>2, <1>3, FirstIsFirst DEF FirstPage
<1>5. p * PageSize \in Int /\ q * PageSize \in Int
  BY <1>2
<1>6. p * PageSize < q * PageSize
  BY <1>1, <1>2, <1>3, <1>5 DEF PageInLoop
<1>7. p < q
  BY <1>2, <1>6, PageOrder
<1> QED BY <1>4, <1>7 DEF ImageAt

\* An image that was read back byte by byte is there.
LEMMA ReadBackIsAll ==
  ASSUME TypeOK, Refusal(call) = "ok", \A i \in 0 .. call.length - 1 : Matches(i)
  PROVE  HoldsImage
<1> SUFFICES ASSUME NEW p \in Pages, NEW o \in Offs, InRange(call, p, o)
             PROVE  flash[p][o] = Img(call, p, o)
  BY DEF HoldsImage
<1> DEFINE i == At(p, o) - start(call)
<1>1. start(call) \in Nat /\ call.length \in Nat
  BY AcceptedRange DEF TypeOK, ToolTypeOK, IsCall
<1>2. p \in Nat /\ o \in 0 .. PageSize - 1 /\ PageSize \in Nat \ {0}
  BY SizeAssumption DEF Pages, Offs
<1>3. At(p, o) \in Int /\ At(p, o) = p * PageSize + o
  BY <1>2 DEF At
<1>4. i \in 0 .. call.length - 1 /\ start(call) + i = p * PageSize + o
  BY <1>1, <1>3 DEF InRange, end
<1>5. (start(call) + i) \div PageSize = p /\ (start(call) + i) % PageSize = o
  BY <1>2, <1>4, PageAndOffset
<1>6. Matches(i)
  BY <1>4
<1> QED BY <1>5, <1>6 DEF Matches, Img

\* The merged page has the bytes of the image that fall into it.
LEMMA MergedImageNext == CInv /\ Flow /\ MergedImage /\ [Next]_vars => MergedImage'
<1> SUFFICES ASSUME CInv, Flow, MergedImage, [Next]_vars, pc' \in Routines
             PROVE  MergedImage'
  BY DEF MergedImage
<1>0. TInv
  BY DEF CInv
<1>1. CASE pc \in Routines /\ UNCHANGED <<call, page, merged>>
  BY <1>1 DEF MergedImage, InRange, Img
<1>2. CASE UNCHANGED vars
  BY <1>1, <1>2 DEF vars, loops
<1>3. CASE SetMode \/ Argument \/ SetTrigger \/ wait_ready
  BY <1>1, <1>3
     DEF SetMode, Argument, SetTrigger, wait_ready, InStep, Access, Proceed, Abandon, loops
<1>4. CASE Cleanup
  <2>1. pc \in Routines /\ RoutineReturns
    BY <1>4 DEF Cleanup, InStep, Access
  <2>2. UNCHANGED <<call, page, merged>>
    BY <1>0, <2>1, RoutineReturnsCases DEF Enter, Goto, LoopTop, Return, Routines
  <2> QED BY <1>1, <2>1, <2>2
<1>5. CASE Attach \/ unlock \/ MergePage \/ verify \/ resume \/ ControllerIdle
  <2>1. CASE UNCHANGED <<pc, call, page, merged>>
    BY <1>1, <2>1
  <2>2. CASE merged' = Merge(call, page) /\ UNCHANGED <<call, page>>
    BY <2>2 DEF MergedImage, Merge, InRange, Img
  <2> QED BY <1>0, <1>5, <2>1, <2>2, OtherFlow DEF Return, Routines
<1>6. CASE TargetReset \/ \E c \in CallSet : Begin(c)
  BY <1>6 DEF TargetReset, Begin, Routines
<1> QED BY <1>2, <1>3, <1>4, <1>5, <1>6 DEF Next, Tool

\* The page before this one has just been programmed.
LEMMA PageDone ==
  ASSUME CInv, Flow, Control, Buffer, MergedImage, Behind, Cleanup, ~bumpy',
         LoopTop(page + 1), status = "ok", pc = "program"
  PROVE  /\ UNCHANGED <<flash, call>> /\ Refusal(call) = "ok" /\ page \in Pages
         /\ flash[page] = merged
         /\ \A p \in Pages : FirstPage(call) <= p /\ p < page + 1 => ImageAt(p)
<1>1. pc \in Routines /\ step = "cleanup"
  BY DEF Cleanup, InStep
<1>2. Unfailed
  BY <1>1, BumpyGrows DEF Unfailed, Flow, CInv, TInv, TypeOK, Tool
<1>3. CtlrWrite(ctlr \ {"PAGE_PG", "STRT"}) \/ UNCHANGED hw
  BY DEF Cleanup, Access, ClearMask, Mode, Trigger
<1>4. UNCHANGED flash
  BY <1>2, <1>3, CtlrWriteIdle DEF Control, hw
<1>5. flash[page] = merged /\ Refusal(call) = "ok" /\ page \in Pages
  <2>1. ToolTypeOK /\ InPart /\ Refusal(call) = "ok"
    BY <1>1 DEF CInv, TInv, TypeOK, InPart, Routines
  <2>2. page \in Pages
    BY <2>1, <1>1, LoopPage DEF ToolTypeOK, InPart
  <2> QED BY <1>1, <1>2, <2>1, <2>2 DEF Buffer
<1>6. ImageAt(page)
  BY <1>1, <1>5 DEF ImageAt, MergedImage
<1>7. ASSUME NEW p \in Pages, FirstPage(call) <= p, p < page + 1 PROVE ImageAt(p)
  <2>1. p = page \/ p < page
    BY <1>5, <1>7, SizeAssumption DEF Pages
  <2> QED BY <1>1, <1>2, <1>6, <1>7, <2>1 DEF Behind
<1> QED BY <1>4, <1>5, <1>7 DEF LoopTop

\* The pages behind the loop hold the image, and stay as they are.
LEMMA BehindNext ==
  CInv /\ Flow /\ Control /\ Buffer /\ MergedImage /\ Behind /\ [Next]_vars => Behind'
<1> SUFFICES ASSUME CInv, Flow, Control, Buffer, MergedImage, Behind, [Next]_vars,
                    Unfailed', pc' \in Routines \cup {"merge"},
                    NEW p \in Pages, FirstPage(call') <= p, p < page'
             PROVE  ImageAt(p)'
  BY DEF Behind
<1>0. TInv /\ TypeOK /\ ControllerTypeOK /\ ToolTypeOK
  BY DEF CInv, TInv, TypeOK
\* A step in which the tool stays at the page and that page p keeps.
<1>1. ASSUME Unfailed, pc \in Routines \cup {"merge"}, UNCHANGED <<call, page>>,
             flash'[p] = flash[p]
      PROVE  ImageAt(p)'
  BY <1>1 DEF Behind, ImageAt, InRange, Img
<1>2. CASE UNCHANGED vars
  BY <1>1, <1>2 DEF vars, hw, loops, env, Unfailed
<1>3. CASE SetMode
  <2>1. /\ Unfailed /\ pc \in Routines /\ step = "mode" /\ CtlrWrite(ctlr \cup {Mode(pc)})
        /\ UNCHANGED <<call, page>>
    BY <1>3, SetModeUnfailed DEF Proceed, loops
  <2>2. "STRT" \notin ctlr \cup {Mode(pc)} \/ page = FirstPage(call)
    BY <2>1 DEF Control, Mode, Routines
  <2>3. page \in Nat /\ p \in Nat /\ FirstPage(call) \in Nat
    BY <1>0, <2>1, AcceptedRange, SizeAssumption DEF ToolTypeOK, TInv, InPart, Pages, Routines
  <2>4. flash'[p] = flash[p]
    BY <1>0, <2>1, <2>2, <2>3, CtlrWriteFlash
  <2> QED BY <1>1, <2>1, <2>4
<1>4. CASE SetTrigger
  <2>1. /\ Unfailed /\ pc \in Routines /\ step = "trigger" /\ CtlrWrite(ctlr \cup {Trigger(pc)})
        /\ UNCHANGED <<call, page>>
    BY <1>4, SetTriggerUnfailed DEF Proceed, loops
  <2>2. "STRT" \notin ctlr \cup {Trigger(pc)} \/ addr = page
    BY <2>1 DEF Control, Trigger, Routines, CInv, Aimed
  <2>3. p # page
    BY <1>0, <2>1, SizeAssumption DEF ToolTypeOK, Pages
  <2>4. flash'[p] = flash[p]
    BY <1>0, <2>1, <2>2, <2>3, CtlrWriteFlash
  <2> QED BY <1>1, <2>1, <2>4
<1>5. CASE Argument
  BY <1>1, <1>5, ArgumentUnfailed DEF StoreWord, AddrWrite, Proceed, loops
<1>6. CASE wait_ready
  BY <1>1, <1>6, WaitUnfailed DEF Proceed, Abandon, hw, loops
<1>7. CASE Cleanup
  <2>1. /\ Unfailed /\ pc \in Routines /\ step = "cleanup"
        /\ CtlrWrite(ctlr \ {Mode(pc), Trigger(pc)}) /\ RoutineReturns
    BY <1>7, CleanupUnfailed DEF ClearMask
  <2>2. CASE status = "ok" /\ pc = "program" /\ LoopTop(page + 1)
    <3>1. UNCHANGED <<flash, call>> /\ page' = page + 1 /\ ImageAt(p)
      BY <1>7, <2>2, PageDone DEF Unfailed, LoopTop
    <3> QED BY <3>1 DEF ImageAt, InRange, Img
  <2>3. CASE pc # "program" /\ UNCHANGED <<call, page>>
    <3>1. "STRT" \notin ctlr \ {Mode(pc), Trigger(pc)}
      BY <2>1 DEF Control, Mode, Trigger, Routines
    <3>2. flash'[p] = flash[p]
      BY <1>0, <2>1, <3>1, CtlrWriteFlash
    <3> QED BY <1>1, <2>1, <2>3, <3>2
  <2> QED BY <1>0, <2>1, <2>2, <2>3, RoutineReturnsCases DEF Enter, Return, Routines
<1>8. CASE Attach \/ unlock \/ MergePage \/ verify \/ resume \/ ControllerIdle
  <2>1. UNCHANGED flash /\ Unfailed
    BY <1>8, OtherSteps, BumpyGrows DEF Tool, Unfailed
  <2>2. CASE pc \in Routines \cup {"merge"} /\ UNCHANGED <<call, page>>
    BY <1>1, <2>1, <2>2
  <2>3. CASE pc = "unlock" /\ LoopTop(FirstPage(call))
    <3>1. page' = FirstPage(call) /\ call' = call
      BY <2>3 DEF LoopTop
    <3>2. FirstPage(call) \in Nat /\ p \in Nat
      BY <1>0, <2>3, AcceptedRange, SizeAssumption DEF ToolTypeOK, TInv, InPart, Pages
    <3> QED BY <3>1, <3>2
  <2> QED BY <1>0, <1>8, <2>2, <2>3, OtherFlow DEF Return, Routines
<1>9. CASE TargetReset \/ \E c \in CallSet : Begin(c)
  BY <1>9 DEF TargetReset, Begin, Routines
<1> QED BY <1>2, <1>3, <1>4, <1>5, <1>6, <1>7, <1>8, <1>9 DEF Next, Tool

\* Every page of the call holds the image once the loop is over.
LEMMA FinalNext ==
  CInv /\ Flow /\ Control /\ Buffer /\ MergedImage /\ Behind /\ Final /\ [Next]_vars => Final'
<1> SUFFICES ASSUME CInv, Flow, Control, Buffer, MergedImage, Behind, Final, [Next]_vars,
                    ~bumpy', (pc' \in {"verify", "resume"} /\ status' = "ok") \/ Returned("ok")'
             PROVE  HoldsImage'
  BY DEF Final
<1>0. TInv /\ TypeOK /\ ToolTypeOK
  BY DEF CInv, TInv, TypeOK
<1>1. ASSUME HoldsImage, UNCHANGED <<flash, call>> PROVE HoldsImage'
  BY <1>1 DEF HoldsImage, InRange, Img
<1>2. CASE UNCHANGED vars
  BY <1>1, <1>2 DEF vars, hw, loops, env, Final, Returned
<1>3. CASE SetMode \/ Argument \/ SetTrigger \/ wait_ready
  <2>1. pc' \in Routines
    BY <1>3 DEF SetMode, Argument, SetTrigger, wait_ready, InStep, Access, Proceed, Abandon
  <2> QED BY <2>1 DEF Routines, Returned
<1>4. CASE Cleanup
  <2>1. pc \in Routines /\ RoutineReturns
    BY <1>4 DEF Cleanup, InStep, Access
  <2>2. status = "ok" /\ pc = "program" /\ LoopTop(page + 1) /\ pc' # "merge"
    BY <1>0, <2>1, RoutineReturnsCases DEF Enter, Goto, Return, Returned
  <2>3. ~PageInLoop(call, page + 1)
    BY <2>2 DEF LoopTop, Goto
  <2>4. /\ UNCHANGED <<flash, call>> /\ Refusal(call) = "ok"
        /\ \A p \in Pages : FirstPage(call) <= p /\ p < page + 1 => ImageAt(p)
    BY <1>4, <2>2, PageDone
  <2>5. page + 1 \in Nat
    BY <1>0 DEF ToolTypeOK
  <2>6. HoldsImage
    BY <1>0, <2>3, <2>4, <2>5, BehindIsAll
  <2> QED BY <1>1, <2>4, <2>6
<1>5. CASE Attach
  BY <1>5 DEF Attach, Access, Return, Goto, Returned
<1>6. CASE unlock
  <2>1. PageInLoop(call, FirstPage(call))
    BY <1>0, <1>6, FirstInLoop DEF unlock, TInv, InPart, ToolTypeOK
  <2> QED BY <1>6, <2>1 DEF unlock, Access, Return, LoopTop, Goto, Returned
<1>7. CASE MergePage
  BY <1>7 DEF MergePage, Return, Goto, Returned
<1>8. CASE verify \/ resume
  <2>1. ~bumpy /\ UNCHANGED <<flash, call>>
    BY <1>8, BumpyGrows DEF Tool, verify, resume, Access, Return, hw, loops
  <2>2. pc \in {"verify", "resume"} /\ status = "ok"
    BY <1>8 DEF verify, resume, Access, Return, Returned, Flow
  <2> QED BY <1>1, <2>1, <2>2 DEF Final
<1>9. CASE ControllerIdle \/ TargetReset
  BY <1>1, <1>9 DEF ControllerIdle, TargetReset, loops, env, Final, Returned
<1>10. CASE \E c \in CallSet : Begin(c)
  BY <1>10 DEF Begin, Returned
<1> QED BY <1>2, <1>3, <1>4, <1>5, <1>6, <1>7, <1>8, <1>9, <1>10 DEF Next, Tool

\* What was verified before the page at hand has been found equal.
LEMMA ReadBackNext == TInv /\ Flow /\ ReadBack /\ [Next]_vars => ReadBack'
<1> SUFFICES ASSUME TInv, Flow, ReadBack, [Next]_vars PROVE ReadBack'
  OBVIOUS
<1>0. TypeOK /\ ToolTypeOK
  BY DEF TInv, TypeOK
<1>1. ASSUME pc' \notin {"verify", "resume"}, pc' = "idle" => result' # "ok" PROVE ReadBack'
  BY <1>1 DEF ReadBack, Returned
<1>2. ASSUME UNCHANGED <<flash, call, pc, status, result, done>> PROVE ReadBack'
  BY <1>2 DEF ReadBack, Returned, HoldsImage, Matches, InRange, Img
\* The page loop ends: the read-back starts at the first byte.
<1>3. ASSUME NEW p, LoopTop(p) PROVE ReadBack'
  <2>1. pc' = "verify" => done' = 0
    BY <1>3 DEF LoopTop, Goto
  <2>2. pc' = "resume" => ~call.verify /\ call' = call
    BY <1>3 DEF LoopTop, Goto
  <2>3. pc' \in {"merge", "verify", "resume"}
    BY <1>3 DEF LoopTop, Goto
  <2> QED BY <2>1, <2>2, <2>3 DEF ReadBack, Returned
<1>4. CASE UNCHANGED vars
  BY <1>2, <1>4 DEF vars, hw, loops
<1>5. CASE SetMode \/ Argument \/ SetTrigger \/ wait_ready
  <2>1. pc' \in Routines
    BY <1>5 DEF SetMode, Argument, SetTrigger, wait_ready, InStep, Access, Proceed, Abandon
  <2> QED BY <1>1, <2>1 DEF Routines
<1>6. CASE Cleanup
  <2>1. pc \in Routines /\ RoutineReturns
    BY <1>6 DEF Cleanup, InStep, Access
  <2> QED BY <1>1, <1>3, <2>1, RoutineReturnsCases DEF Enter, Goto, Return
<1>7. CASE Attach
  BY <1>1, <1>7 DEF Attach, Access, Return, Goto
<1>8. CASE unlock
  BY <1>1, <1>3, <1>8 DEF unlock, Access, Return
<1>9. CASE MergePage
  BY <1>1, <1>9 DEF MergePage, Return, Goto
<1>10. CASE verify
  <2>1. UNCHANGED <<flash, call, result>> /\ pc' \in {"verify", "resume"} /\ pc = "verify"
    BY <1>10 DEF verify, hw
  <2>2. CASE status' # "ok" /\ pc' = "resume"
    BY <2>2 DEF ReadBack, Returned
  <2>3. CASE /\ \A i \in done .. ChunkEnd - 1 : Matches(i)
             /\ done' = ChunkEnd
             /\ pc' = IF ChunkEnd < call.length THEN "verify" ELSE "resume"
    <3>1. call.length \in Nat /\ done \in Nat /\ ChunkEnd \in Nat
      BY <1>0, SizeAssumption DEF ChunkEnd, ToolTypeOK, IsCall
    <3>2. \A i \in 0 .. ChunkEnd - 1 : i < call.length => Matches(i)
      BY <2>1, <2>3, <3>1 DEF ReadBack
    <3>3. \A i \in Int : Matches(i)' <=> Matches(i)
      BY <2>1 DEF Matches, start
    <3>4. CASE pc' = "verify"
      BY <2>1, <2>3, <3>1, <3>2, <3>3, <3>4 DEF ReadBack, Returned
    <3>5. CASE pc' = "resume"
      <4>1. \A i \in 0 .. call.length - 1 : Matches(i)
        BY <2>3, <3>1, <3>2, <3>5
      <4>2. HoldsImage
        BY <1>0, <2>1, <4>1, ReadBackIsAll DEF TInv, InPart
      <4>3. HoldsImage'
        BY <2>1, <4>2 DEF HoldsImage, InRange, Img
      <4> QED BY <3>5, <4>3 DEF ReadBack, Returned
    <3> QED BY <2>1, <3>4, <3>5
  <2> QED BY <1>10, <2>2, <2>3 DEF verify
<1>11. CASE resume
  <2>1. pc = "resume" /\ UNCHANGED <<flash, call>> /\ pc' = "idle" /\ result' = status
    BY <1>11 DEF resume, Access, Return, hw, loops
  <2>2. HoldsImage => HoldsImage'
    BY <2>1 DEF HoldsImage, InRange, Img
  <2> QED BY <2>1, <2>2 DEF ReadBack, Returned
<1>12. CASE ControllerIdle \/ TargetReset
  BY <1>2, <1>12 DEF ControllerIdle, TargetReset, loops
<1>13. CASE \E c \in CallSet : Begin(c)
  BY <1>1, <1>13 DEF Begin
<1> QED BY <1>4, <1>5, <1>6, <1>7, <1>8, <1>9, <1>10, <1>11, <1>12, <1>13 DEF Next, Tool

ImageInv ==
  /\ CInv /\ Flow /\ Control /\ Buffer /\ MergedImage
  /\ Behind /\ Final /\ ReadBack

\* The inductive invariant behind ImageWritten.
LEMMA ImageInductive == Spec => []ImageInv
<1>1. Init => ImageInv
  <2> SUFFICES ASSUME Init PROVE ImageInv
    OBVIOUS
  <2>1. CInv
    BY TInvInit DEF Init, CInv, Aimed, Confined
  <2>2. pc = "idle" /\ result # "ok"
    BY DEF Init
  <2> QED BY <2>1, <2>2 DEF ImageInv, Flow, Control, Buffer, MergedImage, Behind, Final,
                            ReadBack, Returned, Routines
<1>2. ImageInv /\ [Next]_vars => ImageInv'
  BY CInvNext, FlowNext, ControlNext, BufferNext, MergedImageNext, BehindNext, FinalNext,
     ReadBackNext DEF ImageInv, CInv
<1> QED BY <1>1, <1>2, PTL DEF Spec

\* A write that returns WL_OK has left the image in the part, from whatever state
\* an earlier call left the controller in, if it read the image back or met no
\* failed access after which it could go on.
THEOREM ImageIsWritten == Spec => []ImageWritten
<1>1. ImageInv => ImageWritten
  BY DEF ImageInv, Final, ReadBack, ImageWritten
<1> QED BY <1>1, ImageInductive, PTL

---------------------------------------------------------------------------
(* Refinement.  PageStore promises more than the image: the pages ahead are  *)
(* untouched and the one the tool is at is only erased or programmed with    *)
(* what belongs there.  That needs the merged page to be the image over what *)
(* the page held when the call began.                                        *)

Sound == clean /\ ~bumpy

Ahead ==
  Sound /\ pc # "idle" =>
    \A p \in Pages : pc \in {"attach", "unlock"} \/ p > page \/ (pc = "merge" /\ p = page)
                       => flash[p] = before[p]

MergedGoal == Sound /\ pc \in Routines => merged = Overlay(call, page, before[page])

\* A routine's step changes flash only when it sets its trigger, and then only
\* the page the tool is at.
LEMMA SoundFlash ==
  ASSUME CInv, Control, Sound, SetMode \/ Argument \/ SetTrigger \/ wait_ready \/ Cleanup
  PROVE  /\ SetTrigger \/ UNCHANGED flash
         /\ \A p \in Pages : p # page => flash'[p] = flash[p]
<1>0. ControllerTypeOK
  BY DEF CInv, TInv, TypeOK
<1>1. ASSUME link = "up", pc \in Routines, step \in {"mode", "trigger", "cleanup"}
      PROVE  "STRT" \in ctlr => pc \in {"erase", "program"} /\ step = "cleanup"
  BY <1>1 DEF Control, Sound, Unfailed, Routines
<1>2. ASSUME NEW v, CtlrWrite(v), "STRT" \notin v PROVE UNCHANGED flash
  BY <1>2 DEF CtlrWrite
<1>3. CASE SetMode
  <2>1. UNCHANGED hw \/ (link = "up" /\ pc \in Routines /\ step = "mode"
                           /\ CtlrWrite(ctlr \cup {Mode(pc)}))
    BY <1>3 DEF SetMode, InStep, Access
  <2> QED BY <1>1, <1>2, <2>1 DEF hw, Mode
<1>4. CASE Argument \/ wait_ready
  BY <1>4 DEF Argument, wait_ready, InStep, Access, StoreWord, AddrWrite, hw
<1>5. CASE Cleanup
  <2>1. UNCHANGED hw \/ (link = "up" /\ pc \in Routines /\ step = "cleanup"
                           /\ CtlrWrite(ctlr \ {Mode(pc), Trigger(pc)}))
    BY <1>5 DEF Cleanup, InStep, Access, ClearMask
  <2>2. CASE UNCHANGED hw
    BY <2>2 DEF hw
  <2>3. CASE link = "up" /\ pc \in Routines /\ step = "cleanup"
             /\ CtlrWrite(ctlr \ {Mode(pc), Trigger(pc)})
    <3>1. "STRT" \notin ctlr \ {Mode(pc), Trigger(pc)}
      BY <1>1, <2>3 DEF Mode, Trigger
    <3> QED BY <1>2, <2>3, <3>1
  <2> QED BY <2>1, <2>2, <2>3
<1>6. CASE SetTrigger
  <2>1. UNCHANGED hw \/ (link = "up" /\ pc \in Routines /\ step = "trigger"
                           /\ CtlrWrite(ctlr \cup {Trigger(pc)}))
    BY <1>6 DEF SetTrigger, InStep, Access
  <2>2. CASE UNCHANGED hw
    BY <1>6, <2>2 DEF hw
  <2>3. CASE link = "up" /\ pc \in Routines /\ step = "trigger"
             /\ CtlrWrite(ctlr \cup {Trigger(pc)})
    <3>1. "STRT" \notin ctlr \cup {Trigger(pc)} \/ addr = page
      BY <1>1, <2>3 DEF Trigger, Routines, CInv, Aimed
    <3> QED BY <1>0, <1>6, <2>3, <3>1, CtlrWriteFlash
  <2> QED BY <2>1, <2>2, <2>3
<1> QED BY <1>3, <1>4, <1>5, <1>6

\* Where the tool may go from a routine.
LEMMA RoutineFlow ==
  ASSUME TInv, SetMode \/ Argument \/ SetTrigger \/ wait_ready \/ Cleanup
  PROVE  /\ pc \in Routines /\ UNCHANGED <<call, obs>>
         /\ \/ pc' \in Routines /\ UNCHANGED <<page, merged, result>>
            \/ Cleanup /\ pc = "program" /\ status = "ok" /\ LoopTop(page + 1)
            \/ Cleanup /\ status # "ok" /\ Return(status)
<1>1. CASE SetMode \/ Argument \/ SetTrigger \/ wait_ready
  BY <1>1 DEF SetMode, Argument, SetTrigger, wait_ready, InStep, Access, Proceed, Abandon, loops
<1>2. CASE Cleanup
  <2>1. pc \in Routines /\ RoutineReturns /\ UNCHANGED obs
    BY <1>2 DEF Cleanup, InStep, Access
  <2> QED BY <1>2, <2>1, RoutineReturnsCases DEF Enter, Goto, LoopTop, Return, Routines, loops
<1> QED BY <1>1, <1>2

\* The pages the loop has not reached hold what they held when the call began.
LEMMA AheadNext == CInv /\ Flow /\ Control /\ Ahead /\ [Next]_vars => Ahead'
<1> SUFFICES ASSUME CInv, Flow, Control, Ahead, [Next]_vars, Sound', pc' # "idle", NEW p \in Pages,
                    pc' \in {"attach", "unlock"} \/ p > page' \/ (pc' = "merge" /\ p = page')
             PROVE  flash'[p] = before'[p]
  BY DEF Ahead
<1>0. TInv /\ page \in Nat /\ p \in Nat
  BY SizeAssumption DEF CInv, TInv, TypeOK, ToolTypeOK, Pages
<1>1. CASE UNCHANGED vars
  BY <1>1 DEF vars, hw, loops, env, obs, Ahead, Sound
<1>2. CASE \E c \in CallSet : Begin(c)
  BY <1>2 DEF Begin, hw
<1>3. CASE SetMode \/ Argument \/ SetTrigger \/ wait_ready \/ Cleanup
  <2>1. Sound /\ UNCHANGED before /\ pc \in Routines
    BY <1>0, <1>3, RoutineFlow, BumpyGrows DEF Sound, obs, Tool
  <2>2. p > page
    <3>1. CASE pc' \in Routines /\ UNCHANGED page
      BY <3>1 DEF Routines
    <3>2. CASE LoopTop(page + 1)
      <4>1. page' = page + 1 /\ pc' \in {"merge", "verify", "resume"}
        BY <3>2 DEF LoopTop, Goto
      <4> QED BY <1>0, <4>1
    <3> QED BY <1>0, <1>3, <3>1, <3>2, RoutineFlow DEF Return
  <2>3. flash'[p] = flash[p]
    BY <1>0, <1>3, <2>1, <2>2, SoundFlash
  <2> QED BY <2>1, <2>2, <2>3 DEF Ahead, Routines
<1>4. CASE Attach \/ unlock \/ MergePage \/ verify \/ resume \/ ControllerIdle
  <2>1. Sound /\ UNCHANGED <<flash, before>> /\ pc # "idle"
    <3>1. UNCHANGED <<flash, obs>> /\ ~bumpy
      BY <1>4, OtherSteps, BumpyGrows DEF Tool, Sound
    <3>2. pc # "idle"
      BY <1>4 DEF Attach, unlock, MergePage, verify, resume, ControllerIdle
    <3> QED BY <3>1, <3>2 DEF obs, Sound
  <2>2. pc \in {"attach", "unlock"} \/ p > page \/ (pc = "merge" /\ p = page)
    BY <1>0, <1>4, OtherFlow DEF Return, Goto, LoopTop
  <2> QED BY <2>1, <2>2 DEF Ahead
<1>5. CASE TargetReset
  BY <1>5 DEF TargetReset
<1> QED BY <1>1, <1>2, <1>3, <1>4, <1>5 DEF Next, Tool

\* The merged page, when nothing has touched the page since the call began.
LEMMA MergeIsOverlay ==
  ASSUME TypeOK, NEW p \in Pages, flash[p] = before[p], Refusal(call) = "ok"
  PROVE  Merge(call, p) = Overlay(call, p, before[p])
<1> SUFFICES ASSUME NEW o \in Offs, whole_page(call, p) PROVE InRange(call, p, o)
  BY DEF Merge, Overlay
<1>1. start(call) \in Nat /\ end(call) \in Nat
  BY AcceptedRange DEF TypeOK, ToolTypeOK
<1>2. p \in Nat /\ o \in 0 .. PageSize - 1 /\ PageSize \in Nat \ {0}
  BY SizeAssumption DEF Pages, Offs
<1>3. (p + 1) * PageSize = p * PageSize + PageSize /\ p * PageSize \in Int
  BY <1>2
<1> QED BY <1>1, <1>2, <1>3 DEF whole_page, InRange, At

\* The merged page is the goal of PageStore for the page at hand.
LEMMA MergedGoalNext == CInv /\ Flow /\ Ahead /\ MergedGoal /\ [Next]_vars => MergedGoal'
<1> SUFFICES ASSUME CInv, Flow, Ahead, MergedGoal, [Next]_vars, Sound', pc' \in Routines
             PROVE  merged' = Overlay(call', page', before'[page'])
  BY DEF MergedGoal
<1>0. TInv /\ TypeOK /\ ToolTypeOK /\ InPart
  BY DEF CInv, TInv, TypeOK
<1>1. CASE Sound /\ pc \in Routines /\ UNCHANGED <<call, page, merged, before>>
  BY <1>1 DEF MergedGoal, Overlay, InRange, Img
<1>2. CASE UNCHANGED vars
  BY <1>1, <1>2 DEF vars, loops, obs, env, Sound
<1>3. CASE SetMode \/ Argument \/ SetTrigger \/ wait_ready \/ Cleanup
  <2>1. Sound /\ pc \in Routines /\ UNCHANGED <<call, before>>
    BY <1>0, <1>3, RoutineFlow, BumpyGrows DEF Sound, obs, Tool
  <2>2. UNCHANGED <<page, merged>>
    BY <1>0, <1>3, RoutineFlow DEF LoopTop, Goto, Return, Routines
  <2> QED BY <1>1, <2>1, <2>2
<1>4. CASE Attach \/ unlock \/ MergePage \/ verify \/ resume \/ ControllerIdle
  <2>1. Sound /\ UNCHANGED <<before, flash>>
    BY <1>4, OtherSteps, BumpyGrows DEF Tool, Sound, obs
  <2>2. CASE pc = "merge" /\ merged' = Merge(call, page) /\ UNCHANGED <<call, page>>
    <3>1. page \in Pages /\ Refusal(call) = "ok"
      BY <1>0, <2>2, LoopPage DEF InPart, ToolTypeOK, Routines
    <3>2. flash[page] = before[page]
      BY <2>1, <2>2, <3>1 DEF Ahead
    <3>3. Merge(call, page) = Overlay(call, page, before[page])
      BY <1>0, <3>1, <3>2, MergeIsOverlay
    <3> QED BY <2>1, <2>2, <3>3 DEF Overlay, InRange, Img
  <2> QED BY <1>0, <1>1, <1>4, <2>1, <2>2, OtherFlow DEF Return, Routines
<1>5. CASE TargetReset \/ \E c \in CallSet : Begin(c)
  BY <1>5 DEF TargetReset, Begin, Routines
<1> QED BY <1>2, <1>3, <1>4, <1>5 DEF Next, Tool

StoreInv == ImageInv /\ Ahead /\ MergedGoal

\* The inductive invariant behind the refinement.
LEMMA StoreInductive == Spec => []StoreInv
<1>1. Init => Ahead /\ MergedGoal
  BY DEF Init, Ahead, MergedGoal, Routines
<1>2. ImageInv /\ Ahead /\ MergedGoal /\ [Next]_vars => Ahead' /\ MergedGoal'
  BY AheadNext, MergedGoalNext DEF ImageInv
<1> QED BY <1>1, <1>2, ImageInductive, PTL DEF Spec, StoreInv

\* The page PageStore's call is at.
AtPage == CASE pc = "idle" -> 0
            [] pc \in {"attach", "unlock"} -> FirstPage(call)
            [] OTHER -> page

StoreSame == UNCHANGED <<flash, before, call, AtPage, pc # "idle", result, Sound>>

\* A step that leaves what PageStore sees leaves its variables.
LEMMA StoreStutters == StoreSame => UNCHANGED Store!vars
BY DEF StoreSame, Store!vars, AtPage, Sound

\* A trigger erases the page the tool is at, programs it with what belongs there,
\* or leaves it.
LEMMA TriggerEffect ==
  ASSUME StoreInv, Sound, SetTrigger
  PROVE  \/ UNCHANGED flash
         \/ flash' = [flash EXCEPT ![page] = ErasedPage]
         \/ flash' = [flash EXCEPT ![page] = [o \in Offs |-> flash[page][o] \cap merged[o]]]
<1>0. CInv /\ Control /\ Buffer /\ ControllerTypeOK
  BY DEF StoreInv, ImageInv, CInv, TInv, TypeOK
<1>1. CASE UNCHANGED hw
  BY <1>1 DEF hw
<1>2. CASE link = "up" /\ pc \in Routines /\ step = "trigger"
           /\ CtlrWrite(ctlr \cup {Trigger(pc)})
  <2>1. Unfailed
    BY <1>2 DEF Sound, Unfailed
  <2>2. CASE pc \in {"reset", "load"}
    BY <1>0, <1>2, <2>1, <2>2 DEF Control, Trigger, CtlrWrite
  <2>3. CASE pc = "erase"
    <3>1. addr = page /\ "PAGE_ER" \in ctlr
      BY <1>0, <1>2, <2>1, <2>3 DEF Control, Mode, CInv, Aimed
    <3> QED BY <1>2, <3>1 DEF CtlrWrite, EraseAtAddr, Refuse
  <2>4. CASE pc = "program"
    <3>1. addr = page /\ "PAGE_PG" \in ctlr /\ "PAGE_ER" \notin ctlr /\ buf = merged
      BY <1>0, <1>2, <2>1, <2>4 DEF Control, Mode, CInv, Aimed, Buffer
    <3>2. Trigger(pc) = "STRT"
      BY <2>4 DEF Trigger
    <3> QED BY <1>2, <3>1, <3>2 DEF CtlrWrite, ProgramAtAddr, Programmed, Refuse
  <2> QED BY <1>2, <2>2, <2>3, <2>4 DEF Routines
<1> QED BY <1>1, <1>2 DEF SetTrigger, InStep, Access

\* A step of a page routine is a step of PageStore or a stutter.
LEMMA RoutineStores ==
  ASSUME StoreInv, Sound', SetMode \/ Argument \/ SetTrigger \/ wait_ready \/ Cleanup
  PROVE  Store!Next \/ StoreSame
<1>0. /\ CInv /\ Flow /\ Control /\ Buffer /\ MergedImage /\ Behind /\ MergedGoal
      /\ TInv /\ TypeOK /\ ToolTypeOK /\ ControllerTypeOK
  BY DEF StoreInv, ImageInv, CInv, TInv, TypeOK
<1>1. /\ pc \in Routines /\ UNCHANGED <<call, before, clean>>
      /\ \/ pc' \in Routines /\ UNCHANGED <<page, merged, result>>
         \/ Cleanup /\ pc = "program" /\ status = "ok" /\ LoopTop(page + 1)
         \/ Cleanup /\ status # "ok" /\ Return(status)
  BY <1>0, RoutineFlow DEF obs
<1>2. Sound
  BY <1>1, BumpyGrows DEF Sound, Tool
<1>3. page \in Pages /\ PageInLoop(call, page)
  BY <1>0, <1>1, LoopPage DEF TInv, InPart, ToolTypeOK, Routines
<1>4. SetTrigger \/ UNCHANGED flash
  BY <1>0, <1>2, SoundFlash
<1>5. AtPage = page /\ pc # "idle"
  BY <1>1 DEF AtPage, Routines
<1>6. CASE pc' \in Routines /\ UNCHANGED <<page, merged, result>>
  <2>1. AtPage' = page /\ pc' # "idle"
    BY <1>6 DEF AtPage, Routines
  <2>2. CASE UNCHANGED flash
    BY <1>1, <1>2, <1>5, <1>6, <2>1, <2>2 DEF StoreSame, Sound
  <2>3. CASE flash' = [flash EXCEPT ![page] = ErasedPage]
    <3>1. Store!Erase
      BY <1>1, <1>2, <1>3, <1>5, <1>6, <2>1, <2>3 DEF Store!Erase, Store!Working, AtPage, Sound
    <3> QED BY <3>1 DEF Store!Next
  <2>4. CASE flash' = [flash EXCEPT ![page] = [o \in Offs |-> flash[page][o] \cap merged[o]]]
    <3>1. merged = Overlay(call, page, before[page]) /\ DOMAIN flash[page] = Offs
      BY <1>0, <1>1, <1>2, <1>3 DEF MergedGoal, ControllerTypeOK, Page
    <3>2. Store!Program
      BY <1>1, <1>2, <1>3, <1>5, <1>6, <2>1, <2>4, <3>1
         DEF Store!Program, Store!Working, Store!Over, Store!Goal, AtPage, Sound
    <3> QED BY <3>2 DEF Store!Next
  <2> QED BY <1>2, <1>4, <2>2, <2>3, <2>4, TriggerEffect
<1>7. CASE Cleanup /\ pc = "program" /\ status = "ok" /\ LoopTop(page + 1)
  <2>1. UNCHANGED flash /\ flash[page] = merged
    BY <1>0, <1>7, PageDone DEF Sound
  <2>2. merged = Overlay(call, page, before[page])
    BY <1>0, <1>1, <1>2 DEF MergedGoal
  <2>3. AtPage' = page + 1 /\ pc' # "idle" /\ result' = result
    BY <1>7 DEF LoopTop, Goto, AtPage
  <2>4. Store!Advance
    BY <1>1, <1>2, <1>3, <1>5, <2>1, <2>2, <2>3
       DEF Store!Advance, Store!Working, Store!Goal, AtPage, Sound
  <2> QED BY <2>4 DEF Store!Next
<1>8. CASE Cleanup /\ status # "ok" /\ Return(status)
  <2>1. UNCHANGED flash
    BY <1>4, <1>8 DEF Cleanup, SetTrigger, InStep
  <2>2. pc' = "idle" /\ result' \in {"usage", "not_implemented", "target", "verify"}
    BY <1>0, <1>8 DEF Return, ToolTypeOK
  <2>3. Store!Return
    BY <1>1, <1>2, <1>5, <2>1, <2>2 DEF Store!Return, Sound
  <2> QED BY <2>3 DEF Store!Next
<1> QED BY <1>1, <1>6, <1>7, <1>8

\* So is every other step of the tool and of the controller within a call.
LEMMA OtherStores ==
  ASSUME StoreInv, Sound', Attach \/ unlock \/ MergePage \/ verify \/ resume \/ ControllerIdle
  PROVE  Store!Next \/ StoreSame
<1>0. Flow /\ TInv /\ ToolTypeOK
  BY DEF StoreInv, ImageInv, CInv, TInv, TypeOK
<1>1. Sound /\ UNCHANGED <<flash, before, clean>>
  BY OtherSteps, BumpyGrows DEF Sound, Tool, obs
\* The call goes on where it is.
<1>2. ASSUME UNCHANGED <<call, result>>, AtPage' = AtPage, (pc' = "idle") <=> (pc = "idle")
      PROVE  StoreSame
  BY <1>1, <1>2 DEF StoreSame, Sound
\* The call returns.
<1>3. ASSUME pc # "idle", pc' = "idle", call' = call,
             \/ result' \in {"usage", "not_implemented", "target", "verify"}
             \/ result' = "ok" /\ ~PageInLoop(call, AtPage)
      PROVE  Store!Next
  <2>1. Store!Return
    BY <1>1, <1>3 DEF Store!Return, AtPage, Sound
  <2> QED BY <2>1 DEF Store!Next
<1>4. CASE Attach
  <2>1. pc = "attach" /\ call' = call
    BY <1>4 DEF Attach, Access, Return, loops
  <2>2. CASE pc' = "unlock" /\ result' = result
    BY <1>2, <2>1, <2>2 DEF AtPage
  <2>3. CASE pc' = "idle" /\ result' \in {"target", Refusal(call)} /\ result' # "ok"
    BY <1>3, <2>1, <2>3 DEF Refusal
  <2> QED BY <1>4, <2>2, <2>3 DEF Attach, Access, Return, Goto
<1>5. CASE unlock
  <2>1. pc = "unlock" /\ call' = call
    BY <1>5 DEF unlock, Access, Return, LoopTop, loops
  <2>2. CASE pc' = "unlock" /\ result' = result
    BY <1>2, <2>1, <2>2 DEF AtPage
  <2>3. CASE LoopTop(FirstPage(call))
    <3>1. page' = FirstPage(call) /\ pc' \in {"merge", "verify", "resume"} /\ result' = result
      BY <2>3 DEF LoopTop, Goto
    <3> QED BY <1>2, <2>1, <3>1 DEF AtPage
  <2>4. CASE Return("target")
    BY <1>3, <2>1, <2>4 DEF Return
  <2> QED BY <1>5, <2>1, <2>2, <2>3, <2>4 DEF unlock, Access
<1>6. CASE MergePage
  <2>1. pc = "merge" /\ call' = call
    BY <1>6 DEF MergePage, Return, loops
  <2>2. CASE Goto("erase", "ready") /\ UNCHANGED page
    BY <1>2, <2>1, <2>2 DEF AtPage, Goto
  <2>3. CASE Return("target")
    BY <1>3, <2>1, <2>3 DEF Return
  <2> QED BY <1>6, <2>2, <2>3 DEF MergePage
<1>7. CASE verify
  BY <1>2, <1>7 DEF verify, AtPage
<1>8. CASE resume
  <2>1. pc = "resume" /\ call' = call /\ pc' = "idle" /\ result' = status
    BY <1>8 DEF resume, Access, Return, loops
  <2>2. AtPage = page /\ ~PageInLoop(call, page)
    BY <1>0, <2>1 DEF AtPage, Flow
  <2>3. status \in {"ok", "target", "verify"}
    BY <1>0 DEF ToolTypeOK
  <2> QED BY <1>3, <2>1, <2>2, <2>3
<1>9. CASE ControllerIdle
  BY <1>2, <1>9 DEF ControllerIdle, loops, AtPage
<1> QED BY <1>4, <1>5, <1>6, <1>7, <1>8, <1>9

\* After a failure that the call could go on from, or when STRT was set when it
\* began, PageStore allows anything but a change of the arguments.
LEMMA UnsoundStores ==
  ASSUME StoreInv, ~Sound', Tool \/ ControllerIdle, pc # "idle"
  PROVE  Store!Next
<1>0. Flow /\ TInv
  BY DEF StoreInv, ImageInv, CInv
<1>1. UNCHANGED <<before, call>> /\ (pc' # "idle" => result' = result)
  <2>1. CASE SetMode \/ Argument \/ SetTrigger \/ wait_ready \/ Cleanup
    BY <1>0, <2>1, RoutineFlow DEF LoopTop, Goto, Return, obs
  <2>2. CASE Attach \/ unlock \/ MergePage \/ verify \/ resume \/ ControllerIdle
    <3>1. UNCHANGED before
      BY <2>2, OtherSteps DEF obs
    <3>2. UNCHANGED call /\ (pc' # "idle" => result' = result)
      BY <2>2 DEF Attach, unlock, MergePage, verify, resume, ControllerIdle, Access, Return,
                  LoopTop, Goto, loops
    <3> QED BY <3>1, <3>2
  <2> QED BY <2>1, <2>2 DEF Tool
<1>2. Store!Unsound
  BY <1>1 DEF Store!Unsound, Sound
<1> QED BY <1>2 DEF Store!Next

\* Every step of FlashWriter is a step of PageStore or a stutter.
LEMMA StoreStep == StoreInv /\ [Next]_vars => [Store!Next]_(Store!vars)
<1> SUFFICES ASSUME StoreInv, [Next]_vars PROVE Store!Next \/ UNCHANGED Store!vars
  OBVIOUS
<1>1. CASE UNCHANGED vars \/ TargetReset
  <2>1. StoreSame
    BY <1>1 DEF vars, TargetReset, hw, loops, env, obs, StoreSame, AtPage, Sound
  <2> QED BY <2>1, StoreStutters
<1>2. ASSUME NEW c \in CallSet, Begin(c) PROVE Store!Next
  <2>1. Store!Begin(c)
    BY <1>2 DEF Begin, Store!Begin, hw
  <2> QED BY <2>1 DEF Store!Next
<1>3. CASE ControllerIdle /\ pc = "idle"
  <2>1. StoreSame
    BY <1>3 DEF ControllerIdle, loops, env, obs, StoreSame, AtPage, Sound
  <2> QED BY <2>1, StoreStutters
<1>4. CASE (Tool \/ ControllerIdle) /\ pc # "idle"
  BY <1>4, UnsoundStores, RoutineStores, OtherStores, StoreStutters DEF Tool
<1>5. Tool => pc # "idle"
  BY DEF Tool, Attach, unlock, MergePage, SetMode, Argument, SetTrigger, wait_ready, Cleanup,
         verify, resume, InStep, Routines
<1> QED BY <1>1, <1>2, <1>3, <1>4, <1>5 DEF Next

\* wl_linke_write_flash implements the page store, for every page size, image,
\* protection and pattern of failures.
THEOREM WriterImplementsStore == Spec => StoreSpec
<1>1. Init => Store!Init
  BY DEF Init, Store!Init
<1> QED BY <1>1, StoreStep, StoreInductive, PTL DEF Spec, StoreSpec, Store!Spec

---------------------------------------------------------------------------
(* Failures.  A call that found the controller idle, none of whose accesses  *)
(* failed or timed out and none of whose pages is protected, gives the       *)
(* controller nothing to complain about: CTLR holds exactly the running      *)
(* routine's bits, fast mode is unlocked, and a page is blank when it is     *)
(* programmed.                                                               *)

Fine == ~excused /\ CallPages(call) \cap Protected = {}

\* The CTLR bits a routine has set before its step s.
Armed(r, s) == CASE s \in {"ready", "mode"} -> {}
                 [] s \in {"arg", "trigger"} -> {Mode(r)}
                 [] OTHER -> {Mode(r), Trigger(r)}

KeysGiven ==
  /\ pc = "unlock" /\ word >= 1 => keys["main"] # 0
  /\ pc = "unlock" /\ word >= 2 => keys["main"] = 2
  /\ pc = "unlock" /\ word >= 3 => keys["fast"] # 0
  /\ pc = "unlock" /\ word >= 4 => keys["fast"] = 2
  /\ pc \notin {"attach", "unlock"} => keys["fast"] = 2

BlankPage ==
  /\ pc = "erase" /\ step \in {"wait", "cleanup"} => flash[page] = ErasedPage
  /\ pc \in {"reset", "load"} => flash[page] = ErasedPage
  /\ pc = "program" /\ step \in {"mode", "arg", "trigger"} => flash[page] = ErasedPage

Smooth ==
  Fine /\ pc # "idle" =>
    /\ ~wrperr /\ status # "target"
    /\ ctlr = IF pc \in Routines THEN Armed(pc, step) ELSE {}
    /\ KeysGiven /\ BlankPage

\* An access of a call that nothing excuses has done what it was to do.
LEMMA AccessFine ==
  ASSUME NEW ACTION effect, NEW ACTION ok, NEW ACTION failed,
         Access(effect, ok, failed), ~excused'
  PROVE  effect /\ ok /\ ~excused
<1>1. ~Fault
  BY DEF Fault
<1> QED BY <1>1 DEF Access

\* In a call that meets no protected page the routines work on unprotected pages.
LEMMA PageUnprotected ==
  ASSUME TInv, Fine, pc \in Routines
  PROVE  page \in Pages /\ page \notin Protected
<1>1. page \in Pages /\ FirstPage(call) <= page /\ PageInLoop(call, page)
  BY LoopPage DEF TInv, InPart, TypeOK, ToolTypeOK, Routines
<1> QED BY <1>1 DEF Fine, CallPages

\* Programming a blank page leaves the buffer in it.
LEMMA ProgramBlank ==
  ASSUME ControllerTypeOK
  PROVE  Programmed(ErasedPage) = buf
<1>1. \A o \in Offs : ErasedPage[o] \cap buf[o] = buf[o]
  BY DEF ErasedPage, Erased, ControllerTypeOK, Page, Byte
<1>2. buf = [o \in Offs |-> buf[o]]
  BY DEF ControllerTypeOK, Page
<1> QED BY <1>1, <1>2 DEF Programmed

\* A routine's trigger does what the routine is for.
LEMMA TriggerSmooth ==
  ASSUME CInv, Flow, Smooth, Fine, pc \in Routines, step = "trigger",
         CtlrWrite(ctlr \cup {Trigger(pc)})
  PROVE  /\ ~wrperr' /\ ctlr' = {Mode(pc), Trigger(pc)} /\ keys' = keys
         /\ pc = "erase" => flash'[page] = ErasedPage
         /\ pc \in {"reset", "load"} => flash' = flash
<1>0. TInv /\ TypeOK /\ ControllerTypeOK
  BY DEF CInv, TInv, TypeOK
<1>1. /\ ~wrperr /\ ctlr = {Mode(pc)} /\ FastUnlocked
      /\ pc = "program" => flash[page] = ErasedPage
  BY DEF Smooth, Armed, KeysGiven, BlankPage, Routines, FastUnlocked
<1>2. page \in Pages /\ page \notin Protected
  BY <1>0, PageUnprotected
<1>3. ctlr' = {Mode(pc), Trigger(pc)} /\ keys' = keys
  BY <1>1 DEF CtlrWrite
<1>4. CASE pc = "erase"
  <2>1. EraseAtAddr /\ addr = page
    BY <1>1, <1>4 DEF CtlrWrite, Mode, Trigger, CInv, Aimed
  <2>2. ~wrperr' /\ flash'[page] = ErasedPage
    BY <1>0, <1>1, <1>2, <2>1 DEF EraseAtAddr, ControllerTypeOK
  <2> QED BY <1>3, <1>4, <2>2
<1>5. CASE pc = "reset"
  BY <1>1, <1>3, <1>5 DEF CtlrWrite, Mode, Trigger
<1>6. CASE pc = "load"
  <2>1. UNCHANGED <<flash, wrperr>>
    BY <1>1, <1>6, CtlrWriteIdle DEF Mode, Trigger
  <2> QED BY <1>1, <1>3, <1>6, <2>1
<1>7. CASE pc = "program"
  <2>1. ProgramAtAddr /\ addr = page
    BY <1>1, <1>7 DEF CtlrWrite, Mode, Trigger, CInv, Aimed
  <2>2. Programmed(flash[addr]) = buf
    BY <1>0, <1>1, <1>7, <2>1, ProgramBlank
  <2>3. ~wrperr'
    BY <1>1, <1>2, <2>1, <2>2 DEF ProgramAtAddr
  <2> QED BY <1>3, <1>7, <2>3
<1> QED BY <1>4, <1>5, <1>6, <1>7 DEF Routines

\* The two pairs of keys, from whatever stage an earlier call left them at.
LEMMA KeysSmooth ==
  ASSUME TypeOK, KeysGiven, pc = "unlock", pc' = "unlock", word \in 0 .. 3, word' = word + 1,
         KeyWrite(UnlockKeys[word + 1][1], UnlockKeys[word + 1][2])
  PROVE  KeysGiven'
<1>1. keys \in [{"main", "fast"} -> 0 .. 2]
  BY DEF TypeOK, ControllerTypeOK
<1>2. keys["main"] \in 0 .. 2 /\ keys["fast"] \in 0 .. 2
  BY <1>1
<1>3. CASE word = 0
  <2>1. keys'["main"] = KeyStage(keys["main"], "KEY1")
    BY <1>1, <1>3 DEF KeyWrite, UnlockKeys
  <2> QED BY <1>3, <2>1 DEF KeysGiven, KeyStage
<1>4. CASE word = 1
  <2>1. keys'["main"] = KeyStage(keys["main"], "KEY2")
    BY <1>1, <1>4 DEF KeyWrite, UnlockKeys
  <2>2. keys["main"] \in 1 .. 2
    BY <1>2, <1>4 DEF KeysGiven
  <2> QED BY <1>4, <2>1, <2>2 DEF KeysGiven, KeyStage
<1>5. CASE word = 2
  <2>1. keys'["fast"] = KeyStage(keys["fast"], "KEY1") /\ keys'["main"] = keys["main"]
    BY <1>1, <1>5 DEF KeyWrite, UnlockKeys
  <2> QED BY <1>5, <2>1 DEF KeysGiven, KeyStage
<1>6. CASE word = 3
  <2>1. keys'["fast"] = KeyStage(keys["fast"], "KEY2") /\ keys'["main"] = keys["main"]
    BY <1>1, <1>6 DEF KeyWrite, UnlockKeys
  <2>2. keys["fast"] \in 1 .. 2
    BY <1>2, <1>6 DEF KeysGiven
  <2> QED BY <1>6, <2>1, <2>2 DEF KeysGiven, KeyStage
<1> QED BY <1>3, <1>4, <1>5, <1>6

\* A step of a routine, or of what surrounds the routines, in a call that nothing
\* excuses: it stays smooth, and does not end in WL_ERR_TARGET.
LEMMA RoutineSmooth ==
  ASSUME CInv, Flow, Smooth, Fine', SetMode \/ Argument \/ SetTrigger \/ wait_ready \/ Cleanup
  PROVE  Smooth' /\ ~(pc' = "idle" /\ result' = "target")
<1>0. TInv /\ TypeOK /\ ControllerTypeOK /\ pc \in Routines /\ pc # "idle" /\ call' = call
  BY RoutineFlow DEF CInv, TInv, TypeOK, Routines
<1>a. ~excused'
  BY DEF Fine
<1>1. ~excused
  <2>1. CASE wait_ready
    BY <2>1 DEF wait_ready, Fine, Fault
  <2> QED BY <2>1, AccessFine DEF SetMode, Argument, SetTrigger, Cleanup, Fine
<1>2. Fine
  BY <1>0, <1>1 DEF Fine, CallPages, FirstPage, PageInLoop, start, end
<1>3. /\ ~wrperr /\ status # "target" /\ ctlr = Armed(pc, step)
      /\ keys["fast"] = 2 /\ BlankPage
  BY <1>0, <1>2 DEF Smooth, KeysGiven, Routines
\* The routine goes on.
<1>4. ASSUME UNCHANGED <<pc, page, status>>, ~wrperr', ctlr' = Armed(pc, step'), keys' = keys,
             BlankPage'
      PROVE  Smooth' /\ ~(pc' = "idle" /\ result' = "target")
  BY <1>0, <1>3, <1>4 DEF Smooth, KeysGiven, Routines, Armed, Mode, Trigger
<1>5. CASE SetMode
  <2>1. /\ step = "mode" /\ step' \in {"arg", "trigger"} /\ CtlrWrite(ctlr \cup {Mode(pc)})
        /\ UNCHANGED <<pc, page, status>>
    <3>1. InStep("mode") /\ Access(CtlrWrite(ctlr \cup {Mode(pc)}), Proceed, Abandon)
      BY <1>5 DEF SetMode
    <3>2. CtlrWrite(ctlr \cup {Mode(pc)}) /\ Proceed
      BY <1>a, <3>1, AccessFine
    <3> QED BY <3>1, <3>2 DEF InStep, Proceed, StepAfter, loops
  <2>2. ctlr = {} /\ Mode(pc) \notin {"STRT", "BUF_RST"}
    BY <1>3, <2>1 DEF Armed, Mode
  <2>3. UNCHANGED <<flash, wrperr, keys>> /\ ctlr' = {Mode(pc)}
    BY <2>1, <2>2, CtlrWriteIdle
  <2>4. BlankPage'
    BY <1>3, <2>1, <2>3 DEF BlankPage
  <2>5. ctlr' = Armed(pc, step')
    BY <2>1, <2>3 DEF Armed
  <2> QED BY <1>3, <1>4, <2>1, <2>3, <2>4, <2>5
<1>6. CASE Argument
  <2>1. /\ step = "arg" /\ step' = "trigger" /\ UNCHANGED <<pc, page, status>>
        /\ IF pc = "load" THEN StoreWord(word) ELSE AddrWrite(page)
    <3>1. InStep("arg")
          /\ Access(IF pc = "load" THEN StoreWord(word) ELSE AddrWrite(page), Proceed, Abandon)
      BY <1>6 DEF Argument
    <3>2. (IF pc = "load" THEN StoreWord(word) ELSE AddrWrite(page)) /\ Proceed
      BY <1>a, <3>1, AccessFine
    <3> QED BY <3>1, <3>2 DEF InStep, Proceed, StepAfter, loops
  <2>2. ctlr = {Mode(pc)}
    BY <1>3, <2>1 DEF Armed
  <2>3. UNCHANGED <<flash, wrperr, keys, ctlr>>
    BY <1>3, <2>1, <2>2 DEF StoreWord, AddrWrite, FastUnlocked, Mode
  <2>4. BlankPage'
    BY <1>3, <2>1, <2>3 DEF BlankPage
  <2>5. ctlr' = Armed(pc, step')
    BY <2>1, <2>2, <2>3 DEF Armed
  <2> QED BY <1>3, <1>4, <2>1, <2>3, <2>4, <2>5
<1>7. CASE SetTrigger
  <2>1. /\ step = "trigger" /\ step' = "wait" /\ CtlrWrite(ctlr \cup {Trigger(pc)})
        /\ UNCHANGED <<pc, page, status>>
    <3>1. InStep("trigger") /\ Access(CtlrWrite(ctlr \cup {Trigger(pc)}), Proceed, Abandon)
      BY <1>7 DEF SetTrigger
    <3>2. CtlrWrite(ctlr \cup {Trigger(pc)}) /\ Proceed
      BY <1>a, <3>1, AccessFine
    <3> QED BY <3>1, <3>2 DEF InStep, Proceed, StepAfter, loops
  <2>2. /\ ~wrperr' /\ ctlr' = {Mode(pc), Trigger(pc)} /\ keys' = keys
        /\ pc = "erase" => flash'[page] = ErasedPage
        /\ pc \in {"reset", "load"} => flash' = flash
    BY <1>0, <1>2, <2>1, TriggerSmooth
  <2>3. BlankPage'
    BY <1>3, <2>1, <2>2 DEF BlankPage
  <2>4. ctlr' = Armed(pc, step')
    BY <2>1, <2>2 DEF Armed
  <2> QED BY <1>4, <2>1, <2>2, <2>3, <2>4
<1>8. CASE wait_ready
  <2>1. /\ UNCHANGED hw /\ Proceed
        /\ (step = "ready" /\ step' = "mode") \/ (step = "wait" /\ step' = "cleanup")
    BY <1>3, <1>8 DEF wait_ready, InStep, Fine, Fault, Proceed, StepAfter
  <2>2. UNCHANGED <<pc, page, status, flash, wrperr, keys, ctlr>>
    BY <2>1 DEF hw, Proceed, loops
  <2>3. BlankPage'
    BY <1>0, <1>3, <2>1, <2>2 DEF BlankPage, Flow
  <2>4. ctlr' = Armed(pc, step')
    BY <1>3, <2>1, <2>2 DEF Armed
  <2> QED BY <1>3, <1>4, <2>2, <2>3, <2>4
<1>9. CASE Cleanup
  <2>1. step = "cleanup" /\ RoutineReturns /\ CtlrWrite(ctlr \ {Mode(pc), Trigger(pc)})
    BY <1>9, AccessFine DEF Cleanup, InStep, Fine, ClearMask
  <2>2. ctlr \ {Mode(pc), Trigger(pc)} = {}
    BY <1>3, <2>1 DEF Armed
  <2>3. UNCHANGED <<flash, wrperr, keys>> /\ ctlr' = {}
    BY <2>1, <2>2, CtlrWriteIdle
  <2>4. status = "ok"
    BY <1>0, <1>3 DEF Flow
  <2>5. ASSUME NEW r \in {"reset", "load", "program"}, NEW w, Enter(r, w), pc # "program"
        PROVE  Smooth' /\ ~(pc' = "idle" /\ result' = "target")
    <3>1. pc' = r /\ step' = "mode" /\ UNCHANGED <<page, status>>
      BY <2>5 DEF Enter, Goto, FirstStep
    <3>2. BlankPage'
      BY <1>0, <1>3, <2>1, <2>3, <2>5, <3>1 DEF BlankPage, Routines
    <3>3. ctlr' = Armed(pc', step')
      BY <2>3, <3>1 DEF Armed
    <3> QED BY <1>3, <2>3, <2>4, <3>1, <3>2, <3>3
            DEF Smooth, KeysGiven, Routines, Armed, Mode, Trigger
  <2>6. CASE LoopTop(page + 1)
    <3>1. pc' \in {"merge", "verify", "resume"} /\ status' = status
      BY <2>6 DEF LoopTop, Goto
    <3> QED BY <1>3, <2>3, <2>4, <3>1 DEF Smooth, KeysGiven, BlankPage, Routines
  <2> QED BY <1>0, <2>1, <2>4, <2>5, <2>6, RoutineReturnsCases
<1> QED BY <1>5, <1>6, <1>7, <1>8, <1>9

\* The steps outside the page routines go smoothly when nothing fails.
LEMMA OtherSmooth ==
  ASSUME CInv, Flow, Smooth, Fine', pc # "idle",
         Attach \/ unlock \/ MergePage \/ verify \/ resume \/ ControllerIdle
  PROVE  Smooth' /\ ~(pc' = "idle" /\ result' = "target")
<1>0. TInv /\ TypeOK /\ ToolTypeOK
  BY DEF CInv, TInv, TypeOK
<1>1. UNCHANGED <<flash, ctlr, wrperr>>
  BY OtherSteps
<1>a. ~excused'
  BY DEF Fine
<1>2. ~excused
  <2>1. CASE MergePage \/ verify \/ ControllerIdle
    BY <2>1 DEF MergePage, verify, ControllerIdle, Fine, Fault
  <2> QED BY <2>1, AccessFine DEF Attach, unlock, resume, Fine
<1>3. call' = call
  BY DEF Attach, unlock, MergePage, verify, resume, ControllerIdle, Access, Return, LoopTop, loops
<1>4. Fine
  BY <1>2, <1>3 DEF Fine, CallPages, FirstPage, PageInLoop, start, end
<1>5. /\ ~wrperr /\ status # "target" /\ KeysGiven /\ BlankPage
      /\ ctlr = IF pc \in Routines THEN Armed(pc, step) ELSE {}
  BY <1>4 DEF Smooth
<1>6. CASE Attach
  <2>1. UNCHANGED hw /\ pc = "attach"
    BY <1>6 DEF Attach, Access
  <2>2. CASE pc' = "unlock" /\ word' = 0 /\ status' = status
    BY <1>1, <1>5, <2>1, <2>2 DEF Smooth, KeysGiven, BlankPage, Routines
  <2>3. CASE pc' = "idle" /\ result' = Refusal(call)
    BY <2>3 DEF Smooth, Refusal
  <2> QED BY <1>6, <2>2, <2>3, AccessFine DEF Attach, Fine, Return, Goto
<1>7. CASE unlock
  <2>1. CASE word < 4
    <3>1. word \in 0 .. 3 /\ ~(word = 4)
      BY <1>0, <2>1 DEF ToolTypeOK
    <3>2. /\ pc = "unlock" /\ KeyWrite(UnlockKeys[word + 1][1], UnlockKeys[word + 1][2])
          /\ word' = word + 1 /\ UNCHANGED <<pc, status>>
      <4>1. pc = "unlock"
            /\ Access(KeyWrite(UnlockKeys[word + 1][1], UnlockKeys[word + 1][2]),
                      word' = word + 1
                      /\ UNCHANGED <<pc, step, status, call, page, merged, done, result>>,
                      Return("target"))
        BY <1>7, <3>1 DEF unlock
      <4>2. KeyWrite(UnlockKeys[word + 1][1], UnlockKeys[word + 1][2]) /\ word' = word + 1
            /\ UNCHANGED <<pc, step, status, call, page, merged, done, result>>
        BY <1>a, <4>1 DEF Access, Fault
      <4> QED BY <4>1, <4>2
    <3>3. KeysGiven'
      BY <1>0, <1>5, <3>1, <3>2, KeysSmooth
    <3> QED BY <1>1, <1>5, <3>2, <3>3 DEF Smooth, BlankPage, Routines
  <2>2. CASE word = 4
    <3>0. /\ pc = "unlock" /\ UNCHANGED hw
          /\ IF keys["main"] # 2 THEN Return("target") ELSE LoopTop(FirstPage(call))
      <4>1. pc = "unlock"
            /\ Access(UNCHANGED hw,
                      IF keys["main"] # 2 THEN Return("target") ELSE LoopTop(FirstPage(call)),
                      Return("target"))
        BY <1>7, <2>2 DEF unlock
      <4>2. /\ UNCHANGED hw
            /\ IF keys["main"] # 2 THEN Return("target") ELSE LoopTop(FirstPage(call))
        BY <1>a, <4>1 DEF Access, Fault
      <4> QED BY <4>1, <4>2
    <3>1. keys["main"] = 2 /\ keys["fast"] = 2
      BY <1>5, <2>2, <3>0 DEF KeysGiven
    <3>2. LoopTop(FirstPage(call))
      BY <3>0, <3>1
    <3>3. pc' \in {"merge", "verify", "resume"} /\ status' = status
      BY <3>2 DEF LoopTop, Goto
    <3> QED BY <1>1, <1>5, <3>0, <3>1, <3>3 DEF Smooth, KeysGiven, BlankPage, Routines, hw
  <2> QED BY <1>7, <2>1, <2>2 DEF unlock
<1>8. CASE MergePage
  <2>1. pc = "merge" /\ UNCHANGED hw /\ Goto("erase", "ready") /\ status' = status
    BY <1>8 DEF MergePage, Fine, Fault
  <2>2. pc' = "erase" /\ step' = "ready" /\ Armed("erase", "ready") = {}
    BY <2>1 DEF Goto, Armed
  <2> QED BY <1>1, <1>5, <2>1, <2>2 DEF Smooth, KeysGiven, BlankPage, Routines, hw
<1>9. CASE verify
  <2>1. pc = "verify" /\ pc' \in {"verify", "resume"} /\ UNCHANGED hw /\ status' # "target"
    BY <1>5, <1>9 DEF verify, Fine, Fault
  <2> QED BY <1>1, <1>5, <2>1 DEF Smooth, KeysGiven, BlankPage, Routines, hw
<1>10. CASE resume
  BY <1>5, <1>10 DEF resume, Access, Return, Smooth
<1>11. CASE ControllerIdle
  BY <1>1, <1>4, <1>11
     DEF ControllerIdle, loops, Smooth, KeysGiven, BlankPage, Armed, Mode, Trigger
<1> QED BY <1>6, <1>7, <1>8, <1>9, <1>10, <1>11

\* A call in which nothing fails goes smoothly, so it does not end with an error of the
\* target.
LEMMA SmoothNext ==
  CInv /\ Flow /\ Smooth /\ FailureExplained /\ [Next]_vars => Smooth' /\ FailureExplained'
<1> SUFFICES ASSUME CInv, Flow, Smooth, FailureExplained, [Next]_vars
             PROVE  Smooth' /\ FailureExplained'
  OBVIOUS
<1>1. CASE UNCHANGED vars
  BY <1>1 DEF vars, hw, loops, Smooth, Fine, KeysGiven, BlankPage, Armed, Mode, Trigger,
              FailureExplained, Returned, CallPages, FirstPage, PageInLoop, start, end
<1>2. ASSUME NEW c \in CallSet, Begin(c) PROVE Smooth' /\ FailureExplained'
  <2>1. /\ pc' = "attach" /\ status' = "ok" /\ UNCHANGED hw
        /\ excused' = (ctlr # {} \/ wrperr)
    BY <1>2 DEF Begin
  <2>2. ~excused' => ctlr' = {} /\ ~wrperr'
    BY <2>1 DEF hw
  <2> QED BY <2>1, <2>2 DEF Smooth, Fine, KeysGiven, BlankPage, Routines, FailureExplained, Returned
<1>3. CASE TargetReset \/ (ControllerIdle /\ pc = "idle")
  BY <1>3 DEF TargetReset, ControllerIdle, loops, Smooth, FailureExplained, Returned, CallPages,
              FirstPage, PageInLoop, start, end
<1>4. CASE (Tool \/ ControllerIdle) /\ pc # "idle"
  <2>1. CASE Fine'
    <3>1. Smooth' /\ ~(pc' = "idle" /\ result' = "target")
      BY <1>4, <2>1, RoutineSmooth, OtherSmooth DEF Tool
    <3> QED BY <3>1 DEF FailureExplained, Returned
  <2>2. CASE ~Fine'
    BY <2>2 DEF Smooth, FailureExplained, Fine
  <2> QED BY <2>1, <2>2
<1>5. Tool => pc # "idle"
  BY DEF Tool, Attach, unlock, MergePage, SetMode, Argument, SetTrigger, wait_ready, Cleanup,
         verify, resume, InStep, Routines
<1> QED BY <1>1, <1>2, <1>3, <1>4, <1>5 DEF Next

\* A write that starts from an idle controller fails only if an access failed,
\* the controller hung or a page of the image is write-protected: the sequence of
\* keys, mode bits, triggers and clean-ups is one the controller accepts.
THEOREM FailuresExplained == Spec => []FailureExplained
<1>1. Init => Smooth /\ FailureExplained
  BY DEF Init, Smooth, FailureExplained, Returned
<1>2. ImageInv => CInv /\ Flow
  BY DEF ImageInv
<1> QED BY <1>1, <1>2, SmoothNext, ImageInductive, PTL DEF Spec
=============================================================================
