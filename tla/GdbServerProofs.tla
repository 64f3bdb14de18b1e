-------------------------- MODULE GdbServerProofs --------------------------
(***************************************************************************)
(* Proofs about GdbServer, for every size of memory, set of flash          *)
(* addresses, page size, number of breakpoint slots and number of faults.  *)
(***************************************************************************)
EXTENDS GdbServer, SequenceTheorems, WellFoundedInduction, TLAPS

---------------------------------------------------------------------------
(* Memory and the breakpoint table *)

Memory == [Units -> Contents]

\* A slot in use holds as many halfwords as its breakpoint covers.
Slot ==
  {Free} \cup
  {s \in [addr: Units, kind: 1 .. 2, orig: Seq(Contents)] :
     Len(s.orig) = s.kind /\ s.addr + s.kind <= NUnits}

TableType == slots \in [Slots -> Slot]

\* A breakpoint's opcode fills the halfwords the breakpoint covers.
LEMMA OpcodeType ==
  ASSUME NEW k \in 1 .. 2
  PROVE  Opcode(k) \in Seq(Contents) /\ Len(Opcode(k)) = k
<1>1. "brk" \in Contents /\ "brk2" \in Contents
  BY DEF Contents
<1>2. CASE k = 1
  BY <1>1, <1>2 DEF Opcode
<1>3. CASE k = 2
  BY <1>1, <1>3 DEF Opcode
<1> QED BY <1>2, <1>3

\* The original of a breakpoint that lies in memory is a piece of memory.
LEMMA OriginalType ==
  ASSUME mem \in Memory, NEW u \in Units, NEW k \in 1 .. 2, u + k <= NUnits
  PROVE  Original(u, k) \in Seq(Contents) /\ Len(Original(u, k)) = k
<1>1. ASSUME NEW i \in 1 .. k PROVE mem[u + i - 1] \in Contents
  BY GdbAssumption DEF Units, Memory
<1>2. Original(u, k) \in [1 .. k -> Contents]
  BY <1>1 DEF Original
<1>3. Original(u, k) \in Seq(Contents)
  BY <1>2, SeqDef
<1> QED BY <1>2, <1>3

\* Storing bytes leaves memory a memory.
LEMMA PutType ==
  ASSUME NEW m \in Memory, NEW u \in Units, NEW b \in Seq(Contents)
  PROVE  Put(m, u, b) \in Memory
<1> SUFFICES ASSUME NEW v \in Units, v \in Covers(u, Len(b))
             PROVE  b[v - u + 1] \in Contents
  BY DEF Put, Memory
<1> QED BY DEF Covers, Units

\* So does losing what some of it held.
LEMMA SpoiledType ==
  ASSUME NEW m \in Memory, NEW s
  PROVE  Spoiled(m, s) \in Memory
BY DEF Spoiled, Memory, Contents

ControllerType == refused \in BOOLEAN /\ bufrst \in BOOLEAN /\ pending \subseteq Units

\* What a patch can leave in memory, whether it succeeds or fails.
Outcomes(u, b) ==
  {m \in Memory : \E s \in {{}, pending, PageOf(u), pending \cup PageOf(u)} :
     m \in {mem, Spoiled(mem, s), Put(mem, u, b), Put(Spoiled(mem, s), u, b)}}

LEMMA PatchOutcomes ==
  ASSUME mem \in Memory, NEW u \in Units, NEW b \in Seq(Contents), NEW ok, NEW f,
         gdb_mem_patch(u, b, ok, f)
  PROVE  mem' \in Outcomes(u, b) /\ pending' \in {{}, pending, PageOf(u)}
<1>1. CASE u \notin FlashUnits
  <2>1. mem' \in {mem, Put(mem, u, b)} /\ pending' = pending
    BY <1>1 DEF gdb_mem_patch, PatchRam, flashctl
  <2> QED BY <2>1, PutType DEF Outcomes
<1>2. CASE u \in FlashUnits
  <2> DEFINE swept == IF bufrst THEN {} ELSE pending
  <2>1. /\ pending' \in {{}, pending, PageOf(u)}
        /\ mem' \in {mem, Spoiled(mem, swept), Put(Spoiled(mem, swept), u, b),
                     Spoiled(mem, swept \cup PageOf(u))}
    BY <1>2 DEF gdb_mem_patch, PatchFlash, flashctl
  <2>2. swept \in {{}, pending}
    OBVIOUS
  <2>3. swept \cup PageOf(u) \in {PageOf(u), pending \cup PageOf(u)}
    BY <2>2
  <2> HIDE DEF swept
  <2>4. mem' \in Memory
    BY <2>1, PutType, SpoiledType
  <2> QED BY <2>1, <2>2, <2>3, <2>4 DEF Outcomes
<1> QED BY <1>1, <1>2

\* And what in the flash controller.
LEMMA PatchType ==
  ASSUME mem \in Memory, ControllerType, NEW u \in Units, NEW b \in Seq(Contents),
         NEW ok, NEW f, gdb_mem_patch(u, b, ok, f)
  PROVE  mem' \in Memory /\ ControllerType'
<1>1. mem' \in Memory /\ pending' \in {{}, pending, PageOf(u)}
  BY PatchOutcomes DEF Outcomes
<1>2. PageOf(u) \subseteq Units
  BY GdbAssumption DEF PageOf, Units
<1>3. refused' \in BOOLEAN /\ bufrst' \in BOOLEAN
  BY DEF gdb_mem_patch, PatchRam, PatchFlash, flashctl, ControllerType
<1> QED BY <1>1, <1>2, <1>3 DEF ControllerType

\* Accesses that fail are counted, and the count stays in its bound.
LEMMA SpendType ==
  ASSUME faults \in 0 .. MaxFaults, NEW f \in Nat, Spend(f)
  PROVE  faults' \in 0 .. MaxFaults /\ faults' = faults + f /\ (faults' = 0 => f = 0 /\ faults = 0)
BY GdbAssumption DEF Spend

\* A non-empty set of slot numbers has a least member.
LEMMA LeastSlot ==
  ASSUME NEW S \in SUBSET Slots, S # {}
  PROVE  \E i \in S : \A j \in S : i <= j
<1> DEFINE R == OpToRel(<, Nat)
<1>1. S \subseteq Nat
  BY DEF Slots
<1>2. \A x, y \in Nat : <<y, x>> \in R <=> y < x
  BY DEF OpToRel
<1>3. IsWellFoundedOn(R, Nat)
  BY NatLessThanWellFounded
<1> HIDE DEF R
<1>4. PICK i \in S : \A j \in S : <<j, i>> \notin R
  BY <1>1, <1>3, WFMin
<1>5. ASSUME NEW j \in S PROVE i <= j
  <2>1. j \in Nat /\ i \in Nat
    BY <1>1
  <2>2. ~ (j < i)
    BY <1>2, <1>4, <2>1
  <2> QED BY <2>1, <2>2
<1> QED BY <1>5

\* The slot a new breakpoint takes is a free one.
LEMMA FirstFreeIsFree ==
  ASSUME FreeSlots # {}
  PROVE  FirstFree \in Slots /\ ~Used(FirstFree)
<1>1. \E i \in FreeSlots : \A j \in FreeSlots : i <= j
  BY LeastSlot DEF FreeSlots
<1>2. FirstFree \in FreeSlots
  BY <1>1 DEF FirstFree
<1> QED BY <1>2 DEF FreeSlots

\* The slot a removal clears is one that holds the breakpoint.
LEMMA FirstMatchingMatches ==
  ASSUME NEW u, NEW k, Matching(u, k) # {}
  PROVE  LET i == FirstMatching(u, k)
         IN  i \in Slots /\ Used(i) /\ slots[i].addr = u /\ slots[i].kind = k
<1>1. \E i \in Matching(u, k) : \A j \in Matching(u, k) : i <= j
  BY LeastSlot DEF Matching
<1>2. FirstMatching(u, k) \in Matching(u, k)
  BY <1>1 DEF FirstMatching
<1> QED BY <1>2 DEF Matching

\* What a slot in use is.
LEMMA SlotInUse ==
  ASSUME NEW s \in Slot, s.kind # 0
  PROVE  /\ s.addr \in Units /\ s.kind \in 1 .. 2 /\ s.addr + s.kind <= NUnits
         /\ s.orig \in Seq(Contents) /\ Len(s.orig) = s.kind
         /\ s.orig \in [1 .. s.kind -> Contents]
<1>1. s # Free
  BY DEF Free
<1>2. /\ s.addr \in Units /\ s.kind \in 1 .. 2 /\ s.addr + s.kind <= NUnits
      /\ s.orig \in Seq(Contents) /\ Len(s.orig) = s.kind
  BY <1>1 DEF Slot
<1>3. s.orig \in [1 .. Len(s.orig) -> Contents]
  BY <1>2
<1> QED BY <1>2, <1>3

\* A new breakpoint's slot.
LEMMA SlotForType ==
  ASSUME mem \in Memory, NEW u \in Units, NEW k \in 1 .. 2, u + k <= NUnits
  PROVE  SlotFor(u, k) \in Slot /\ SlotFor(u, k).kind # 0
<1>1. Original(u, k) \in Seq(Contents) /\ Len(Original(u, k)) = k
  BY OriginalType
<1> QED BY <1>1 DEF SlotFor, Slot

---------------------------------------------------------------------------
(* Type correctness *)

Plain ==
  /\ core \in {"halted", "running"}
  /\ haltreq \in BOOLEAN /\ ebreak \in BOOLEAN /\ stepbit \in BOOLEAN
  /\ mem \in Memory /\ wanted \in [Units -> {"code", "data"}]
  /\ ControllerType
  /\ pc \in {"start", "idle", "waiting", "stepping", "stepfail", "monhalt", "inthalt",
            "clearing", "closed", "killed"}
  /\ exit \in {"none", "D", "k", "eof"}
  /\ connected \in BOOLEAN /\ interrupt \in BOOLEAN
  /\ told \in {"none", "stopped", "running", "error", "monitor"}
  /\ faults \in 0 .. MaxFaults /\ touched \subseteq Units

TypeInv == Plain /\ TableType

\* The invariant is as strong as what the runs check.
LEMMA TypeInvImplies == TypeInv => TypeOK
<1> SUFFICES ASSUME TypeInv PROVE TypeOK
  OBVIOUS
<1>1. ASSUME NEW i \in Slots, Used(i)
      PROVE  /\ slots[i].addr \in Units /\ slots[i].kind \in 1 .. 2
             /\ slots[i].orig \in [1 .. slots[i].kind -> Contents]
  BY <1>1, SlotInUse DEF TypeInv, TableType, Used
<1> QED BY <1>1 DEF TypeInv, Plain, ControllerType, TypeOK, Memory

\* The server starts with a table of free slots and a memory that is the program.
LEMMA TypeInit == Init => TypeInv
<1> SUFFICES ASSUME Init PROVE TypeInv
  OBVIOUS
<1>1. TableType
  BY DEF Init, TableType, Slot
<1>2. mem \in Memory /\ wanted \in [Units -> {"code", "data"}]
  BY DEF Init, Memory, Contents
<1>3. faults \in 0 .. MaxFaults /\ touched \subseteq Units /\ ControllerType
  <2>1. pending \subseteq Units
    BY GdbAssumption DEF Init, PageOf, Units
  <2>2. faults \in Nat
    BY DEF Init, Odd
  <2> QED BY GdbAssumption, <2>1, <2>2 DEF Init, ControllerType
<1>4. /\ haltreq \in BOOLEAN /\ ebreak \in BOOLEAN /\ stepbit \in BOOLEAN
      /\ connected \in BOOLEAN /\ interrupt \in BOOLEAN
  BY DEF Init
<1> QED BY <1>1, <1>2, <1>3, <1>4 DEF Init, TypeInv, Plain

\* Inserting a breakpoint, through all its ways out.
LEMMA InsertType ==
  ASSUME TypeInv, NEW u \in Units, NEW k \in 1 .. 2, u + k <= NUnits,
         gdb_breakpoint_insert(u, k)
  PROVE  TypeInv'
<1> USE DEF TypeInv
<1>1. Odd(Overlaps(u, k)) \in Nat
  BY DEF Odd
<1>2. touched' \subseteq Units
  <2>1. Covers(u, k) \subseteq Units
    BY GdbAssumption DEF Covers, Units
  <2>2. PageOf(u) \subseteq Units
    BY GdbAssumption DEF PageOf, Units
  <2>3. touched' = touched \cup Covers(u, k) \cup (IF u \in FlashUnits THEN PageOf(u) ELSE {})
    BY DEF gdb_breakpoint_insert
  <2> QED BY <2>1, <2>2, <2>3 DEF Plain
<1>3. faults' \in 0 .. MaxFaults
  BY <1>1, SpendType DEF gdb_breakpoint_insert, Plain
<1>4. mem' \in Memory /\ ControllerType' /\ TableType'
  <2>1. CASE UNCHANGED <<mem, flashctl, slots>>
    BY <2>1 DEF Plain, ControllerType, flashctl, TableType
  <2>2. ASSUME FreeSlots # {}, NEW ok \in BOOLEAN, NEW f \in 0 .. 1,
               gdb_mem_patch(u, Opcode(k), ok, f),
               slots' = IF ok THEN [slots EXCEPT ![FirstFree] = SlotFor(u, k)] ELSE slots
        PROVE  mem' \in Memory /\ ControllerType' /\ TableType'
    <3>1. mem' \in Memory /\ ControllerType'
      BY <2>2, PatchType, OpcodeType DEF Plain
    <3>2. TableType'
      BY <2>2, SlotForType DEF Plain, TableType
    <3> QED BY <3>1, <3>2
  <2> QED BY <2>1, <2>2 DEF gdb_breakpoint_insert
<1> QED BY <1>2, <1>3, <1>4 DEF gdb_breakpoint_insert, Plain, dm

\* Removing one.
LEMMA RemoveType ==
  ASSUME TypeInv, NEW u \in Units, NEW k \in 1 .. 2, u + k <= NUnits,
         gdb_breakpoint_remove(u, k)
  PROVE  TypeInv'
<1> USE DEF TypeInv
<1>1. CASE UNCHANGED <<mem, flashctl, slots, faults>>
  BY <1>1 DEF gdb_breakpoint_remove, Plain, ControllerType, flashctl, dm, ghosts, TableType
<1>2. ASSUME Matching(u, k) # {}, NEW ok \in BOOLEAN, NEW f \in 0 .. 1,
             gdb_mem_patch(u, slots[FirstMatching(u, k)].orig, ok, f), Spend(f),
             slots' = IF ok THEN [slots EXCEPT ![FirstMatching(u, k)] = Free] ELSE slots
      PROVE  TypeInv'
  <2>1. FirstMatching(u, k) \in Slots /\ Used(FirstMatching(u, k))
    BY <1>2, FirstMatchingMatches
  <2>2. slots[FirstMatching(u, k)].orig \in Seq(Contents)
    BY <2>1, SlotInUse DEF TableType, Used
  <2>3. mem' \in Memory /\ ControllerType'
    BY <1>2, <2>2, PatchType DEF Plain
  <2>4. faults' \in 0 .. MaxFaults
    BY <1>2, SpendType DEF Plain
  <2>5. TableType'
    BY <1>2 DEF TableType, Slot
  <2> QED BY <2>3, <2>4, <2>5 DEF gdb_breakpoint_remove, Plain, dm, ghosts
<1> QED BY <1>1, <1>2 DEF gdb_breakpoint_remove

\* Clearing the table, one slot.
LEMMA ClearType ==
  ASSUME TypeInv, gdb_breakpoints_clear
  PROVE  TypeInv'
<1> USE DEF TypeInv
<1>1. PICK i \in Slots, ok \in BOOLEAN, f \in 0 .. 1 :
        /\ Used(i) /\ gdb_mem_patch(slots[i].addr, slots[i].orig, ok, f) /\ Spend(f)
        /\ slots' = [slots EXCEPT ![i] = Free]
  BY DEF gdb_breakpoints_clear
<1>2. slots[i].addr \in Units /\ slots[i].orig \in Seq(Contents)
  BY <1>1, SlotInUse DEF TableType, Used
<1>3. mem' \in Memory /\ ControllerType'
  BY <1>1, <1>2, PatchType DEF Plain
<1>4. faults' \in 0 .. MaxFaults
  BY <1>1, SpendType DEF Plain
<1>5. TableType'
  BY <1>1 DEF TableType, Slot
<1> QED BY <1>3, <1>4, <1>5 DEF gdb_breakpoints_clear, Plain, dm, client, ghosts

\* The client writes memory.
LEMMA WriteType ==
  ASSUME TypeInv, NEW u \in Units, gdb_handle_M(u)
  PROVE  TypeInv'
<1> USE DEF TypeInv
<1>1. PICK f \in 0 .. 1 :
        /\ Spend(f + Odd(u \in FlashUnits))
        /\ mem' = mem \/ mem' = Put(mem, u, <<"data">>)
        /\ refused' \in {refused, TRUE}
        /\ wanted' = IF mem' = Put(mem, u, <<"data">>) THEN [wanted EXCEPT ![u] = "data"]
                     ELSE wanted
  BY DEF gdb_handle_M
<1>2. <<"data">> \in Seq(Contents)
  BY DEF Contents
<1>3. mem' \in Memory
  BY <1>1, <1>2, PutType DEF Plain
<1>4. faults' \in 0 .. MaxFaults
  BY <1>1, SpendType DEF Plain, Odd
<1>5. wanted' \in [Units -> {"code", "data"}]
  BY <1>1 DEF Plain
<1>6. TableType'
  BY DEF gdb_handle_M, server, TableType
<1>7. ControllerType'
  BY <1>1 DEF gdb_handle_M, Plain, ControllerType
<1> QED BY <1>3, <1>4, <1>5, <1>6, <1>7 DEF gdb_handle_M, Plain, dm, server

\* Everything that leaves memory, the table and the observations alone.
Elsewhere == UNCHANGED <<mem, slots, wanted, touched>> /\ pending' \in {pending, {}}

\* Run control keeps the types, and leaves memory and the table alone.
LEMMA RunControlType ==
  ASSUME TypeInv, Continue \/ gdb_step \/ StepEnds \/ MonitorResume \/ MonitorHalt
                  \/ MonitorReset \/ MonitorHalted \/ WaitInterrupted \/ InterruptHalted
                  \/ WaitStopped \/ Close \/ Start
  PROVE  TypeInv' /\ Elsewhere
<1> USE DEF TypeInv
<1>1. Elsewhere
  BY DEF Elsewhere, Continue, gdb_step, StepEnds, MonitorResume, MonitorHalt,
         MonitorReset, MonitorHalted, WaitInterrupted, InterruptHalted, WaitStopped,
         Close, Start, ghosts, server, flashctl
<1>2. mem' \in Memory /\ wanted' \in [Units -> {"code", "data"}] /\ touched' \subseteq Units
      /\ TableType'
  BY <1>1 DEF Elsewhere, Plain, TableType
<1>3. faults' \in 0 .. MaxFaults
  BY SpendType DEF Plain, Continue, gdb_step, StepEnds, MonitorResume, MonitorHalt,
         MonitorReset, MonitorHalted, WaitInterrupted, InterruptHalted, WaitStopped,
         Close, Start
<1> HIDE DEF TypeInv
<1>4. /\ core' \in {"halted", "running"}
      /\ haltreq' \in BOOLEAN /\ ebreak' \in BOOLEAN /\ stepbit' \in BOOLEAN
  <2> USE DEF TypeInv, Plain, gdb_resume, gdb_dm_enable_ebreak, WriteResume, Resumed,
              gdb_dm_halt, ClearStep, dm
  <2>1. CASE Continue
    BY <2>1 DEF Continue
  <2>2. CASE gdb_step
    BY <2>2 DEF gdb_step
  <2>3. CASE StepEnds
    BY <2>3 DEF StepEnds
  <2>4. CASE MonitorResume
    BY <2>4 DEF MonitorResume
  <2>5. CASE MonitorHalt
    BY <2>5 DEF MonitorHalt
  <2>6. CASE MonitorReset
    BY <2>6 DEF MonitorReset
  <2>7. CASE MonitorHalted
    BY <2>7 DEF MonitorHalted
  <2>8. CASE WaitInterrupted
    BY <2>8 DEF WaitInterrupted
  <2>9. CASE InterruptHalted \/ WaitStopped
    BY <2>9 DEF InterruptHalted, WaitStopped
  <2>10. CASE Close
    BY <2>10 DEF Close
  <2>11. CASE Start
    BY <2>11 DEF Start
  <2> QED BY <2>1, <2>2, <2>3, <2>4, <2>5, <2>6, <2>7, <2>8, <2>9, <2>10, <2>11
<1>5. /\ pc' \in {"start", "idle", "waiting", "stepping", "stepfail", "monhalt", "inthalt",
                 "clearing", "closed", "killed"}
      /\ exit' \in {"none", "D", "k", "eof"}
      /\ connected' \in BOOLEAN /\ interrupt' \in BOOLEAN
      /\ told' \in {"none", "stopped", "running", "error", "monitor"}
  <2> USE DEF TypeInv, Plain, server, client
  <2>1. CASE Continue
    BY <2>1 DEF Continue
  <2>2. CASE gdb_step
    BY <2>2 DEF gdb_step
  <2>3. CASE StepEnds
    BY <2>3 DEF StepEnds
  <2>4. CASE MonitorResume
    BY <2>4 DEF MonitorResume
  <2>5. CASE MonitorHalt
    BY <2>5 DEF MonitorHalt
  <2>6. CASE MonitorReset
    BY <2>6 DEF MonitorReset
  <2>7. CASE MonitorHalted
    BY <2>7 DEF MonitorHalted
  <2>8. CASE WaitInterrupted
    BY <2>8 DEF WaitInterrupted
  <2>9. CASE InterruptHalted
    BY <2>9 DEF InterruptHalted
  <2>10. CASE WaitStopped
    BY <2>10 DEF WaitStopped
  <2>11. CASE Close
    BY <2>11 DEF Close, Gone
  <2>12. CASE Start
    BY <2>12 DEF Start
  <2> QED BY <2>1, <2>2, <2>3, <2>4, <2>5, <2>6, <2>7, <2>8, <2>9, <2>10, <2>11, <2>12
<1>6. ControllerType'
  <2>1. CASE UNCHANGED flashctl
    BY <2>1 DEF TypeInv, Plain, ControllerType, flashctl
  <2>2. CASE MonitorReset
    BY <2>2 DEF MonitorReset, TypeInv, Plain, ControllerType, flashctl
  <2> QED BY <2>1, <2>2 DEF Continue, gdb_step, StepEnds, MonitorResume, MonitorHalt,
         MonitorHalted, WaitInterrupted, InterruptHalted, WaitStopped, Close, Start
<1> QED BY <1>1, <1>2, <1>3, <1>4, <1>5, <1>6 DEF TypeInv, Plain

\* What the core, the client and the socket do by themselves.
LEMMA OutsideType ==
  ASSUME TypeInv, SkipInterrupt \/ (\E why \in {"D", "k"} : Detach(why)) \/ Eof
                  \/ Interrupt \/ Disconnect \/ Sigpipe \/ CoreStops
                  \/ (\E u \in Units : CoreHits(u))
  PROVE  TypeInv' /\ Elsewhere /\ UNCHANGED <<faults, flashctl, ebreak, stepbit>>
<1> USE DEF TypeInv, Plain, ControllerType, TableType, Elsewhere, dm, flashctl, server,
            client, ghosts
<1>1. CASE SkipInterrupt
  BY <1>1 DEF SkipInterrupt
<1>2. CASE \E why \in {"D", "k"} : Detach(why)
  BY <1>2 DEF Detach
<1>3. CASE Eof
  BY <1>3 DEF Eof, Gone
<1>4. CASE Interrupt
  BY <1>4 DEF Interrupt
<1>5. CASE Disconnect
  <2>1. interrupt' \in BOOLEAN /\ connected' \in BOOLEAN
    BY <1>5 DEF Disconnect
  <2>2. UNCHANGED <<dm, mem, flashctl, server, told, faults, ghosts>>
    BY <1>5 DEF Disconnect
  <2> QED BY <2>1, <2>2
<1>6. CASE Sigpipe
  BY <1>6 DEF Sigpipe, Gone
<1>7. CASE CoreStops
  BY <1>7 DEF CoreStops
<1>8. CASE \E u \in Units : CoreHits(u)
  BY <1>8 DEF CoreHits
<1> QED BY <1>1, <1>2, <1>3, <1>4, <1>5, <1>6, <1>7, <1>8

\* The invariant is inductive.
LEMMA TypeNext == TypeInv /\ [Next]_vars => TypeInv'
<1> SUFFICES ASSUME TypeInv, [Next]_vars PROVE TypeInv'
  OBVIOUS
<1>1. CASE Next
  BY <1>1, InsertType, RemoveType, ClearType, WriteType, RunControlType, OutsideType
     DEF Next, Serve, Requests, Breakpoints
<1>2. CASE UNCHANGED vars
  BY <1>2 DEF vars, dm, flashctl, server, client, ghosts, TypeInv, Plain, ControllerType,
             TableType
<1> QED BY <1>1, <1>2

\* The type invariant, for every reachable state.
LEMMA TypeInductive == Spec => []TypeInv
BY TypeInit, TypeNext, PTL DEF Spec

\* The server's variables keep their types: a slot in use names a breakpoint that
\* lies in memory and holds as many saved halfwords as the breakpoint covers.
THEOREM TypeCorrect == Spec => []TypeOK
BY TypeInductive, TypeInvImplies, PTL

---------------------------------------------------------------------------
(* Run control.  Without faults the core is halted whenever the server reads *)
(* a request, the step bit is set only while a step is under way, and ebreak *)
(* is enabled before the core is let go.                                     *)

Orderly ==
  /\ ~refused /\ ~bufrst /\ pending = {}
  /\ pc \in {"start", "idle", "clearing"} => core = "halted"
  /\ stepbit => pc \in {"stepping", "killed"}
  /\ pc = "waiting" => ebreak
  /\ pc # "stepfail"

RunInv == faults = 0 => Orderly

\* Letting the halted core go enables ebreak first.
LEMMA ResumeArms ==
  ASSUME core = "halted", gdb_resume(0, 0)
  PROVE  ebreak' = TRUE /\ core' = "running"
BY DEF gdb_resume, gdb_dm_enable_ebreak, WriteResume, Resumed

\* Run-control requests.
LEMMA RequestsOrderly ==
  ASSUME TypeInv, RunInv, faults' = 0,
         Continue \/ gdb_step \/ MonitorResume \/ MonitorHalt \/ MonitorReset
  PROVE  Orderly'
<1> USE DEF RunInv, Orderly, Request, flashctl
<1>0. faults \in 0 .. MaxFaults
  BY DEF TypeInv, Plain
<1>1. CASE Continue
  <2>1. gdb_resume(0, 0) /\ faults = 0 /\ pc' = "waiting"
    <3>1. PICK f1 \in 0 .. 1, f2 \in 0 .. 1 :
            /\ gdb_resume(f1, f2) /\ Spend(f1 + f2)
            /\ IF f2 = 0 THEN pc' = "waiting" /\ told' = "running"
               ELSE pc' = "idle" /\ told' = "error"
      BY <1>1 DEF Continue
    <3>2. f1 = 0 /\ f2 = 0 /\ faults = 0
      BY <1>0, <3>1 DEF Spend
    <3> QED BY <3>1, <3>2
  <2>2. Orderly /\ pc = "idle" /\ UNCHANGED <<flashctl, stepbit>>
    BY <1>1, <2>1 DEF Continue
  <2>3. ebreak'
    BY <2>1, <2>2, ResumeArms
  <2> QED BY <2>1, <2>2, <2>3
<1>2. CASE gdb_step
  <2>1. faults = 0
    BY <1>0, <1>2 DEF gdb_step, Spend
  <2>2. Orderly /\ core = "halted" /\ UNCHANGED flashctl
    BY <1>2, <2>1 DEF gdb_step
  <2>3. pc' = "stepping"
    BY <1>0, <1>2, <2>2 DEF gdb_step, Spend
  <2> QED BY <2>2, <2>3
<1>3. CASE MonitorResume
  BY <1>0, <1>3 DEF MonitorResume, Spend
<1>4. CASE MonitorHalt
  <2>1. faults = 0
    BY <1>0, <1>4 DEF MonitorHalt, Spend
  <2> QED BY <1>4, <2>1 DEF MonitorHalt
<1>5. CASE MonitorReset
  <2>1. faults = 0 /\ stepbit' = FALSE /\ ~refused' /\ ~bufrst' /\ pending' = {}
    BY <1>0, <1>5 DEF MonitorReset, Spend
  <2> QED BY <1>5, <2>1 DEF MonitorReset
<1> QED BY <1>1, <1>2, <1>3, <1>4, <1>5

\* The ends of requests that wait for the core, and of the session.
LEMMA ServeOrderly ==
  ASSUME TypeInv, RunInv, faults' = 0,
         StepEnds \/ MonitorHalted \/ WaitInterrupted \/ InterruptHalted \/ WaitStopped
         \/ Close \/ Start
  PROVE  Orderly'
<1> USE DEF RunInv, Orderly, flashctl
<1>0. faults \in 0 .. MaxFaults
  BY DEF TypeInv, Plain
<1>1. CASE StepEnds
  <2>1. faults = 0 /\ pc = "stepping" /\ core = "halted" /\ ClearStep(0)
    <3>1. PICK f1 \in 0 .. 1, f2 \in 0 .. 1 :
            /\ pc = "stepping" => gdb_dm_wait_halted(f1)
            /\ Spend(f1 + f2) /\ ClearStep(f2)
      BY <1>1 DEF StepEnds
    <3>2. f1 = 0 /\ f2 = 0 /\ faults = 0
      BY <1>0, <3>1 DEF Spend
    <3>3. pc = "stepping"
      BY <1>1, <3>2 DEF StepEnds
    <3> QED BY <3>1, <3>2, <3>3 DEF gdb_dm_wait_halted
  <2>2. stepbit' = FALSE
    BY <2>1 DEF ClearStep
  <2> QED BY <1>1, <2>1, <2>2 DEF StepEnds
<1>2. CASE MonitorHalted
  <2>1. faults = 0 /\ core = "halted"
    BY <1>0, <1>2 DEF MonitorHalted, Spend, gdb_dm_wait_halted
  <2> QED BY <1>2, <2>1 DEF MonitorHalted
<1>3. CASE WaitInterrupted
  <2>1. faults = 0
    BY <1>0, <1>3 DEF WaitInterrupted, Spend
  <2> QED BY <1>3, <2>1 DEF WaitInterrupted
<1>4. CASE InterruptHalted
  <2>1. faults = 0 /\ core = "halted"
    BY <1>0, <1>4 DEF InterruptHalted, Spend, gdb_dm_wait_halted
  <2> QED BY <1>4, <2>1 DEF InterruptHalted, dm
<1>5. CASE WaitStopped
  <2>1. faults = 0 /\ core = "halted"
    BY <1>0, <1>5 DEF WaitStopped, Spend
  <2> QED BY <1>5, <2>1 DEF WaitStopped, dm
<1>6. CASE Close
  <2>1. faults = 0
    BY <1>0, <1>6 DEF Close, Spend
  <2> QED BY <1>6, <2>1 DEF Close
<1>7. CASE Start
  <2>1. faults = 0
    BY <1>0, <1>7 DEF Start, Spend
  <2> QED BY <1>7, <2>1 DEF Start
<1> QED BY <1>1, <1>2, <1>3, <1>4, <1>5, <1>6, <1>7

\* What changes neither the debug module nor what the server is doing.
LEMMA TableRequestsOrderly ==
  ASSUME TypeInv, RunInv, faults' = 0,
         Breakpoints \/ (\E u \in Units : gdb_handle_M(u)) \/ gdb_breakpoints_clear
  PROVE  Orderly' /\ Orderly /\ faults = 0
<1>0. faults \in 0 .. MaxFaults
  BY DEF TypeInv, Plain
<1>1. faults = 0
  <2>1. ASSUME NEW f \in Nat, Spend(f) PROVE faults = 0
    BY <1>0, <2>1 DEF Spend
  <2>2. ASSUME NEW f \in Nat, NEW b, Spend(f + Odd(b)) PROVE faults = 0
    BY <1>0, <2>2 DEF Spend, Odd
  <2>3. ASSUME NEW b, Spend(Odd(b)) PROVE faults = 0
    BY <1>0, <2>3 DEF Spend, Odd
  <2>4. CASE Breakpoints
    BY <2>1, <2>2, <2>3, <2>4 DEF Breakpoints, gdb_breakpoint_insert, gdb_breakpoint_remove
  <2>5. CASE \E u \in Units : gdb_handle_M(u)
    BY <2>2, <2>5 DEF gdb_handle_M
  <2>6. CASE gdb_breakpoints_clear
    BY <2>1, <2>6 DEF gdb_breakpoints_clear
  <2> QED BY <2>4, <2>5, <2>6
<1>2. UNCHANGED <<dm, pc>>
  BY DEF Breakpoints, gdb_breakpoint_insert, gdb_breakpoint_remove, gdb_handle_M,
         gdb_breakpoints_clear, server
<1>3. Orderly
  BY <1>1 DEF RunInv
<1>4. ~refused' /\ ~bufrst' /\ pending' = {}
  <2>1. CASE \E u \in Units : gdb_handle_M(u)
    <3>1. PICK u \in Units : gdb_handle_M(u)
      BY <2>1
    <3>2. u \notin FlashUnits
      BY <1>0, <3>1 DEF gdb_handle_M, Spend, Odd
    <3>3. UNCHANGED refused /\ UNCHANGED bufrst /\ UNCHANGED pending
      BY <3>1, <3>2 DEF gdb_handle_M
    <3> QED BY <3>3, <1>3 DEF Orderly
  <2>2. ASSUME NEW u, NEW b, NEW ok, NEW f \in Nat, core = "halted",
               gdb_mem_patch(u, b, ok, f), Spend(f)
        PROVE  ~refused' /\ ~bufrst' /\ pending' = {}
    <3>1. f = 0
      BY <1>0, <2>2 DEF Spend
    <3>2. ~refused /\ ~bufrst /\ pending = {}
      BY <1>3 DEF Orderly
    <3>3. UNCHANGED refused /\ (bufrst' = FALSE \/ UNCHANGED bufrst) /\ pending' \in {{}, pending}
      BY <2>2, <3>1, <3>2 DEF gdb_mem_patch, PatchRam, PatchFlash, flashctl
    <3> QED BY <3>2, <3>3
  <2>3. ASSUME NEW u \in Units, NEW k \in 1 .. 2, gdb_breakpoint_insert(u, k)
        PROVE  ~refused' /\ ~bufrst' /\ pending' = {}
    <3>1. ASSUME NEW f \in Nat, Spend(f + Odd(Overlaps(u, k))) PROVE Spend(f)
      BY <1>0, <1>1, <3>1 DEF Spend, Odd
    <3> QED BY <1>3, <2>2, <2>3, <3>1 DEF gdb_breakpoint_insert, Orderly, flashctl
  <2>4. ASSUME NEW u \in Units, NEW k \in 1 .. 2, gdb_breakpoint_remove(u, k)
        PROVE  ~refused' /\ ~bufrst' /\ pending' = {}
    <3>1. core = "halted"
      BY <1>3, <2>4 DEF gdb_breakpoint_remove, Request, Orderly
    <3> QED BY <1>3, <2>2, <2>4, <3>1 DEF gdb_breakpoint_remove, Orderly, flashctl
  <2>5. CASE gdb_breakpoints_clear
    <3>1. core = "halted"
      BY <1>3, <2>5 DEF gdb_breakpoints_clear, Orderly
    <3> QED BY <2>2, <2>5, <3>1 DEF gdb_breakpoints_clear
  <2> QED BY <2>1, <2>3, <2>4, <2>5 DEF Breakpoints
<1> QED BY <1>1, <1>2, <1>3, <1>4 DEF Orderly, dm

\* What happens outside a request, the core and the client, keeps run control orderly.
LEMMA OutsideOrderly ==
  ASSUME TypeInv, RunInv, faults' = 0,
         SkipInterrupt \/ (\E why \in {"D", "k"} : Detach(why)) \/ Eof
         \/ Interrupt \/ Disconnect \/ Sigpipe \/ CoreStops \/ (\E u \in Units : CoreHits(u))
  PROVE  Orderly'
<1>1. UNCHANGED <<faults, flashctl, ebreak, stepbit>>
  BY OutsideType
<1> USE DEF RunInv, Orderly, dm, flashctl, server, client, Request
<1>2. CASE SkipInterrupt \/ Interrupt \/ Disconnect
  BY <1>1, <1>2 DEF SkipInterrupt, Interrupt, Disconnect
<1>3. CASE (\E why \in {"D", "k"} : Detach(why)) \/ Eof
  BY <1>1, <1>3 DEF Detach, Eof
<1>4. CASE Sigpipe
  BY <1>1, <1>4 DEF Sigpipe
<1>5. CASE CoreStops \/ (\E u \in Units : CoreHits(u))
  BY <1>1, <1>5 DEF CoreStops, CoreHits
<1> QED BY <1>2, <1>3, <1>4, <1>5

\* The run-control invariant is kept by every step.
LEMMA RunInvNext == TypeInv /\ RunInv /\ [Next]_vars => RunInv'
<1> SUFFICES ASSUME TypeInv, RunInv, [Next]_vars, faults' = 0 PROVE Orderly'
  BY DEF RunInv
<1>1. CASE Next
  BY <1>1, RequestsOrderly, ServeOrderly, TableRequestsOrderly, OutsideOrderly
     DEF Next, Serve, Requests
<1>2. CASE UNCHANGED vars
  BY <1>2 DEF vars, dm, flashctl, server, client, ghosts, RunInv, Orderly
<1> QED BY <1>1, <1>2

\* Types and run control, for every reachable state.
LEMMA RunInductive == Spec => [](TypeInv /\ RunInv)
<1>1. Init => RunInv
  BY DEF Init, RunInv, Orderly, Odd
<1> QED BY <1>1, TypeInductive, RunInvNext, PTL DEF Spec

\* When no access has failed and the client has been told that the core stopped,
\* it has, whichever of a breakpoint, the end of a step and an interrupt came
\* first.
THEOREM StopReports == Spec => []StopReportIsTrue
<1>1. TypeInv /\ RunInv => StopReportIsTrue
  BY DEF RunInv, Orderly, StopReportIsTrue
<1> QED BY <1>1, RunInductive, PTL

\* When no access has failed, a core told to continue stops at its breakpoints
\* and is not single-stepped by a bit left over from an earlier step.
THEOREM ContinueArms == Spec => []ContinueIsArmed
<1>1. TypeInv /\ RunInv => ContinueIsArmed
  BY DEF RunInv, Orderly, ContinueIsArmed
<1> QED BY <1>1, RunInductive, PTL

---------------------------------------------------------------------------
(* Memory and the table.  Without faults breakpoints do not overlap, memory  *)
(* outside them is the client's, and inside them it holds the opcode while   *)
(* the slot holds what the client expects there.                             *)

SlotCovers(i) == Covers(slots[i].addr, slots[i].kind)

Disjoint ==
  \A i, j \in Slots : Used(i) /\ Used(j) /\ i # j => SlotCovers(i) \cap SlotCovers(j) = {}

OpenIsWanted ==
  \A u \in Units : (\A i \in Slots : Used(i) => u \notin SlotCovers(i)) => mem[u] = wanted[u]

CoveredIsSaved ==
  \A i \in Slots : Used(i) =>
    \A n \in 1 .. slots[i].kind :
      /\ mem[slots[i].addr + n - 1] = Opcode(slots[i].kind)[n]
      /\ slots[i].orig[n] = wanted[slots[i].addr + n - 1]

InStep == Disjoint /\ OpenIsWanted /\ CoveredIsSaved

TableInv ==
  faults = 0 => InStep /\ (pc = "closed" => \A i \in Slots : ~Used(i))

\* The n-th halfword of a breakpoint is one that it covers, and in memory.
LEMMA Covered ==
  ASSUME TypeInv, NEW i \in Slots, Used(i), NEW n \in 1 .. slots[i].kind
  PROVE  /\ slots[i].addr + n - 1 \in Units /\ slots[i].addr + n - 1 \in SlotCovers(i)
         /\ slots[i].addr \in Nat /\ slots[i].kind \in 1 .. 2
<1>1. slots[i] \in Slot /\ slots[i].kind # 0
  BY DEF TypeInv, TableType, Used
<1>2. /\ slots[i].addr \in Units /\ slots[i].kind \in 1 .. 2
      /\ slots[i].addr + slots[i].kind <= NUnits
  BY <1>1, SlotInUse
<1> QED BY <1>2, GdbAssumption DEF Units, SlotCovers, Covers

\* Every halfword that is covered is the n-th for some n.
LEMMA CoveredBack ==
  ASSUME NEW a \in Nat, NEW k \in 1 .. 2, NEW v \in Covers(a, k)
  PROVE  v - a + 1 \in 1 .. k /\ a + (v - a + 1) - 1 = v
BY DEF Covers

\* A breakpoint put into a free slot, where there is no other.
LEMMA InsertInStep ==
  ASSUME TypeInv, InStep, NEW u \in Units, NEW k \in 1 .. 2, u + k <= NUnits,
         ~Overlaps(u, k), NEW i \in Slots, ~Used(i),
         mem' = Put(mem, u, Opcode(k)), slots' = [slots EXCEPT ![i] = SlotFor(u, k)],
         wanted' = wanted
  PROVE  InStep'
<1>1. slots \in [Slots -> Slot]
  BY DEF TypeInv, TableType
<1>2. /\ slots'[i].addr = u /\ slots'[i].kind = k /\ slots'[i].kind # 0
      /\ slots'[i].orig = Original(u, k)
  BY <1>1 DEF SlotFor
<1>3. \A j \in Slots : j # i => slots'[j] = slots[j]
  BY <1>1
<1>4. ASSUME NEW j \in Slots, Used(j) PROVE Covers(u, k) \cap SlotCovers(j) = {} /\ j # i
  BY <1>4 DEF Overlaps, SlotCovers
<1>5. \A v \in Covers(u, k) : v \in Units /\ mem[v] = wanted[v]
  <2> SUFFICES ASSUME NEW v \in Covers(u, k) PROVE v \in Units /\ mem[v] = wanted[v]
    OBVIOUS
  <2>1. v \in Units
    BY GdbAssumption DEF Covers, Units
  <2>2. \A j \in Slots : Used(j) => v \notin SlotCovers(j)
    BY <1>4
  <2> QED BY <2>1, <2>2 DEF InStep, OpenIsWanted
<1>6. \A v \in Units : mem'[v] = IF v \in Covers(u, k) THEN Opcode(k)[v - u + 1] ELSE mem[v]
  <2>1. Len(Opcode(k)) = k
    BY OpcodeType
  <2> QED BY <2>1 DEF Put
<1>7. Disjoint'
  <2> SUFFICES ASSUME NEW a \in Slots, NEW b \in Slots, Used(a)', Used(b)', a # b
               PROVE  SlotCovers(a)' \cap SlotCovers(b)' = {}
    BY DEF Disjoint
  <2>1. CASE a = i
    BY <2>1, <1>2, <1>3, <1>4 DEF Used, SlotCovers
  <2>2. CASE b = i
    BY <2>2, <1>2, <1>3, <1>4 DEF Used, SlotCovers
  <2>3. CASE a # i /\ b # i
    BY <2>3, <1>3 DEF Used, SlotCovers, InStep, Disjoint
  <2> QED BY <2>1, <2>2, <2>3
<1>8. OpenIsWanted'
  <2> SUFFICES ASSUME NEW v \in Units, \A j \in Slots : Used(j)' => v \notin SlotCovers(j)'
               PROVE  mem'[v] = wanted[v]
    BY DEF OpenIsWanted
  <2>1. v \notin Covers(u, k)
    BY <1>2 DEF Used, SlotCovers
  <2>2. \A j \in Slots : Used(j) => v \notin SlotCovers(j)
    BY <1>3, <1>4 DEF Used, SlotCovers
  <2> QED BY <2>1, <2>2, <1>6 DEF InStep, OpenIsWanted
<1>9. CoveredIsSaved'
  <2> SUFFICES ASSUME NEW j \in Slots, Used(j)', NEW n \in 1 .. slots'[j].kind
               PROVE  /\ mem'[slots'[j].addr + n - 1] = Opcode(slots'[j].kind)[n]
                      /\ slots'[j].orig[n] = wanted[slots'[j].addr + n - 1]
    BY DEF CoveredIsSaved
  <2>1. CASE j = i
    <3>1. n \in 1 .. k /\ u + n - 1 \in Covers(u, k) /\ (u + n - 1) - u + 1 = n
      BY <2>1, <1>2 DEF Covers, Units
    <3>2. Original(u, k)[n] = mem[u + n - 1]
      BY <3>1 DEF Original
    <3> QED BY <2>1, <1>2, <1>5, <1>6, <3>1, <3>2
  <2>2. CASE j # i
    <3>1. slots'[j] = slots[j] /\ Used(j)
      BY <2>2, <1>3 DEF Used
    <3>2. slots[j].addr + n - 1 \in Units /\ slots[j].addr + n - 1 \in SlotCovers(j)
      BY <3>1, Covered
    <3>3. slots[j].addr + n - 1 \notin Covers(u, k)
      BY <3>1, <3>2, <1>4
    <3> QED BY <3>1, <3>2, <3>3, <1>6 DEF InStep, CoveredIsSaved
  <2> QED BY <2>1, <2>2
<1> QED BY <1>7, <1>8, <1>9 DEF InStep

\* A breakpoint taken out again.
LEMMA RemoveInStep ==
  ASSUME TypeInv, InStep, NEW i \in Slots, Used(i),
         mem' = Put(mem, slots[i].addr, slots[i].orig), slots' = [slots EXCEPT ![i] = Free],
         wanted' = wanted
  PROVE  InStep'
<1> DEFINE s == slots[i]
<1>1. slots \in [Slots -> Slot]
  BY DEF TypeInv, TableType
<1>2. /\ s.addr \in Units /\ s.kind \in 1 .. 2 /\ s.addr + s.kind <= NUnits
      /\ Len(s.orig) = s.kind
  BY <1>1, SlotInUse DEF Used
<1>3. ~Used(i)' /\ \A j \in Slots : j # i => slots'[j] = slots[j]
  BY <1>1 DEF Used, Free
<1>4. \A v \in Units : mem'[v] = IF v \in SlotCovers(i) THEN s.orig[v - s.addr + 1] ELSE mem[v]
  BY <1>2 DEF Put, SlotCovers
<1>5. Disjoint'
  BY <1>3 DEF InStep, Disjoint, Used, SlotCovers
<1>6. OpenIsWanted'
  <2> SUFFICES ASSUME NEW v \in Units, \A j \in Slots : Used(j)' => v \notin SlotCovers(j)'
               PROVE  mem'[v] = wanted[v]
    BY DEF OpenIsWanted
  <2>1. CASE v \in SlotCovers(i)
    <3>1. v - s.addr + 1 \in 1 .. s.kind /\ s.addr + (v - s.addr + 1) - 1 = v
      <4>1. s.addr \in Nat
        BY <1>2, GdbAssumption DEF Units
      <4> QED BY <1>2, <2>1, <4>1, CoveredBack DEF SlotCovers
    <3>2. s.orig[v - s.addr + 1] = wanted[s.addr + (v - s.addr + 1) - 1]
      BY <3>1 DEF InStep, CoveredIsSaved
    <3> QED BY <1>4, <2>1, <3>1, <3>2
  <2>2. CASE v \notin SlotCovers(i)
    <3>1. \A j \in Slots : Used(j) => v \notin SlotCovers(j)
      BY <1>3, <2>2 DEF Used, SlotCovers
    <3> QED BY <1>4, <2>2, <3>1 DEF InStep, OpenIsWanted
  <2> QED BY <2>1, <2>2
<1>7. CoveredIsSaved'
  <2> SUFFICES ASSUME NEW j \in Slots, Used(j)', NEW n \in 1 .. slots'[j].kind
               PROVE  /\ mem'[slots'[j].addr + n - 1] = Opcode(slots'[j].kind)[n]
                      /\ slots'[j].orig[n] = wanted[slots'[j].addr + n - 1]
    BY DEF CoveredIsSaved
  <2>1. j # i /\ slots'[j] = slots[j] /\ Used(j)
    BY <1>3 DEF Used
  <2>2. slots[j].addr + n - 1 \in Units /\ slots[j].addr + n - 1 \in SlotCovers(j)
    BY <2>1, Covered
  <2>3. slots[j].addr + n - 1 \notin SlotCovers(i)
    BY <2>1, <2>2 DEF InStep, Disjoint
  <2> QED BY <1>4, <2>1, <2>2, <2>3 DEF InStep, CoveredIsSaved
<1> QED BY <1>5, <1>6, <1>7 DEF InStep

\* The client writes where no breakpoint is.
LEMMA WriteInStep ==
  ASSUME TypeInv, InStep, NEW u \in Units, ~Overlaps(u, 1),
         mem' = Put(mem, u, <<"data">>), wanted' = [wanted EXCEPT ![u] = "data"],
         slots' = slots
  PROVE  InStep'
<1>1. wanted \in [Units -> {"code", "data"}] /\ u \in Nat
  BY DEF TypeInv, Plain, Units
<1>2. Covers(u, 1) = {u}
  BY <1>1 DEF Covers
<1>3. \A v \in Units : mem'[v] = IF v = u THEN "data" ELSE mem[v]
  <2>1. Len(<<"data">>) = 1 /\ <<"data">>[1] = "data"
    OBVIOUS
  <2> SUFFICES ASSUME NEW v \in Units PROVE mem'[v] = IF v = u THEN "data" ELSE mem[v]
    OBVIOUS
  <2>2. v = u => v - u + 1 = 1
    BY <1>1
  <2> QED BY <1>2, <2>1, <2>2 DEF Put
<1>4. \A v \in Units : wanted'[v] = IF v = u THEN "data" ELSE wanted[v]
  BY <1>1
<1>5. \A j \in Slots : Used(j) => u \notin SlotCovers(j)
  BY <1>2 DEF Overlaps, SlotCovers
<1>6. Disjoint'
  BY DEF InStep, Disjoint, Used, SlotCovers
<1>7. OpenIsWanted'
  BY <1>3, <1>4 DEF InStep, OpenIsWanted, Used, SlotCovers
<1>8. CoveredIsSaved'
  <2> SUFFICES ASSUME NEW j \in Slots, Used(j), NEW n \in 1 .. slots[j].kind
               PROVE  /\ mem'[slots[j].addr + n - 1] = Opcode(slots[j].kind)[n]
                      /\ slots[j].orig[n] = wanted'[slots[j].addr + n - 1]
    BY DEF CoveredIsSaved, Used
  <2>1. slots[j].addr + n - 1 \in Units /\ slots[j].addr + n - 1 # u
    BY <1>5, Covered
  <2> QED BY <1>3, <1>4, <2>1 DEF InStep, CoveredIsSaved
<1> QED BY <1>6, <1>7, <1>8 DEF InStep

\* A patch that no fault disturbs reaches the halted core's memory.
LEMMA PatchSucceeds ==
  ASSUME TypeInv, Orderly, core = "halted", NEW u, NEW b, NEW ok,
         gdb_mem_patch(u, b, ok, 0)
  PROVE  ok /\ mem' = Put(mem, u, b)
<1>1. Spoiled(mem, {}) = mem
  BY DEF Spoiled, TypeInv, Plain, Memory
<1> QED BY <1>1 DEF Orderly, gdb_mem_patch, PatchRam, PatchFlash

\* Inserting and removing a breakpoint keeps memory and table in step.
LEMMA BreakpointsInStep ==
  ASSUME TypeInv, Orderly, InStep, faults' = 0, faults = 0,
         NEW u \in Units, NEW k \in 1 .. 2, u + k <= NUnits,
         gdb_breakpoint_insert(u, k) \/ gdb_breakpoint_remove(u, k)
  PROVE  InStep'
<1>1. core = "halted"
  BY DEF gdb_breakpoint_insert, gdb_breakpoint_remove, Request, Orderly
<1>2. CASE UNCHANGED <<mem, slots, wanted>>
  BY <1>2 DEF InStep, Disjoint, OpenIsWanted, CoveredIsSaved, Used, SlotCovers
<1>3. CASE gdb_breakpoint_insert(u, k) /\ ~UNCHANGED <<mem, slots, wanted>>
  <2>1. ~Overlaps(u, k) /\ wanted' = wanted
    BY <1>3 DEF gdb_breakpoint_insert, Spend, Odd
  <2>2. PICK ok \in BOOLEAN, f \in 0 .. 1 :
          /\ FreeSlots # {} /\ Spend(f + Odd(Overlaps(u, k)))
          /\ gdb_mem_patch(u, Opcode(k), ok, f)
          /\ slots' = IF ok THEN [slots EXCEPT ![FirstFree] = SlotFor(u, k)] ELSE slots
    BY <1>3 DEF gdb_breakpoint_insert
  <2>3. f = 0
    BY <2>1, <2>2 DEF Spend, Odd
  <2>4. mem' = Put(mem, u, Opcode(k)) /\ slots' = [slots EXCEPT ![FirstFree] = SlotFor(u, k)]
    BY <1>1, <2>2, <2>3, PatchSucceeds
  <2>5. FirstFree \in Slots /\ ~Used(FirstFree)
    BY <2>2, FirstFreeIsFree
  <2> QED BY <2>1, <2>4, <2>5, InsertInStep
<1>4. CASE gdb_breakpoint_remove(u, k) /\ ~UNCHANGED <<mem, slots, wanted>>
  <2>1. wanted' = wanted
    BY <1>4 DEF gdb_breakpoint_remove, ghosts
  <2>2. PICK ok \in BOOLEAN, f \in 0 .. 1 :
          /\ Matching(u, k) # {} /\ Spend(f)
          /\ gdb_mem_patch(u, slots[FirstMatching(u, k)].orig, ok, f)
          /\ slots' = IF ok THEN [slots EXCEPT ![FirstMatching(u, k)] = Free] ELSE slots
    BY <1>4 DEF gdb_breakpoint_remove, ghosts
  <2>3. f = 0
    BY <2>2 DEF Spend
  <2>4. /\ mem' = Put(mem, u, slots[FirstMatching(u, k)].orig)
        /\ slots' = [slots EXCEPT ![FirstMatching(u, k)] = Free]
    BY <1>1, <2>2, <2>3, PatchSucceeds
  <2>5. /\ FirstMatching(u, k) \in Slots /\ Used(FirstMatching(u, k))
        /\ slots[FirstMatching(u, k)].addr = u
    BY <2>2, FirstMatchingMatches
  <2> QED BY <2>1, <2>4, <2>5, RemoveInStep
<1> QED BY <1>2, <1>3, <1>4

\* So does clearing the table when the client goes.
LEMMA ClearInStep ==
  ASSUME TypeInv, Orderly, InStep, faults' = 0, faults = 0, gdb_breakpoints_clear
  PROVE  InStep'
<1>1. PICK i \in Slots, ok \in BOOLEAN, f \in 0 .. 1 :
        /\ Used(i) /\ gdb_mem_patch(slots[i].addr, slots[i].orig, ok, f) /\ Spend(f)
        /\ slots' = [slots EXCEPT ![i] = Free]
  BY DEF gdb_breakpoints_clear
<1>2. f = 0
  BY <1>1 DEF Spend
<1>3. core = "halted" /\ wanted' = wanted
  BY DEF gdb_breakpoints_clear, Orderly, ghosts
<1>4. mem' = Put(mem, slots[i].addr, slots[i].orig)
  BY <1>1, <1>2, <1>3, PatchSucceeds
<1> QED BY <1>1, <1>3, <1>4, RemoveInStep

\* So does a memory write of the client.
LEMMA StoreInStep ==
  ASSUME TypeInv, InStep, NEW u \in Units, gdb_handle_M(u)
  PROVE  InStep'
<1>1. slots' = slots /\ ~Overlaps(u, 1)
  BY DEF gdb_handle_M, server
<1>2. CASE mem' = Put(mem, u, <<"data">>)
  <2>1. wanted' = [wanted EXCEPT ![u] = "data"]
    BY <1>2 DEF gdb_handle_M
  <2> QED BY <1>1, <1>2, <2>1, WriteInStep
<1>3. CASE mem' # Put(mem, u, <<"data">>)
  <2>1. wanted' = wanted /\ mem' = mem
    BY <1>3 DEF gdb_handle_M
  <2> QED BY <1>1, <2>1 DEF InStep, Disjoint, OpenIsWanted, CoveredIsSaved, Used, SlotCovers
<1> QED BY <1>2, <1>3

\* Every step that leaves memory and the table alone; only Close ends a session.
LEMMA ElsewhereInStep ==
  ASSUME TableInv, Elsewhere, faults' = 0 => faults = 0,
         pc' = "closed" => pc = "closed" \/ \A i \in Slots : ~Used(i)
  PROVE  TableInv'
<1> SUFFICES ASSUME faults' = 0
             PROVE  InStep' /\ (pc' = "closed" => \A i \in Slots : ~Used(i)')
  BY DEF TableInv
<1>1. InStep /\ (pc = "closed" => \A i \in Slots : ~Used(i))
  BY DEF TableInv
<1>2. InStep'
  BY <1>1 DEF Elsewhere, InStep, Disjoint, OpenIsWanted, CoveredIsSaved, Used, SlotCovers
<1>3. \A i \in Slots : Used(i)' <=> Used(i)
  BY DEF Elsewhere, Used
<1> QED BY <1>1, <1>2, <1>3

\* The table invariant is kept by every step.
LEMMA TableInvNext == TypeInv /\ RunInv /\ TableInv /\ [Next]_vars => TableInv'
<1> SUFFICES ASSUME TypeInv, RunInv, TableInv, [Next]_vars PROVE TableInv'
  OBVIOUS
<1>0. faults \in 0 .. MaxFaults
  BY DEF TypeInv, Plain
<1>1. CASE Breakpoints \/ (\E u \in Units : gdb_handle_M(u)) \/ gdb_breakpoints_clear
  <2> SUFFICES ASSUME faults' = 0
               PROVE  InStep' /\ (pc' = "closed" => \A i \in Slots : ~Used(i)')
    BY DEF TableInv
  <2>1. Orderly /\ faults = 0 /\ InStep
    BY <1>1, TableRequestsOrderly DEF TableInv
  <2>2. pc' # "closed"
    BY <1>1 DEF Breakpoints, gdb_breakpoint_insert, gdb_breakpoint_remove, gdb_handle_M,
                gdb_breakpoints_clear, Request, server
  <2>3. InStep'
    BY <1>1, <2>1, BreakpointsInStep, ClearInStep, StoreInStep DEF Breakpoints
  <2> QED BY <2>2, <2>3
<1>2. CASE Continue \/ gdb_step \/ StepEnds \/ MonitorResume \/ MonitorHalt
           \/ MonitorReset \/ MonitorHalted \/ WaitInterrupted \/ InterruptHalted
           \/ WaitStopped \/ Close \/ Start
  <2>1. Elsewhere
    BY <1>2, RunControlType
  <2>2. faults' = 0 => faults = 0
    BY <1>0, <1>2 DEF Spend, Continue, gdb_step, StepEnds, MonitorResume, MonitorHalt,
         MonitorReset, MonitorHalted, WaitInterrupted, InterruptHalted, WaitStopped,
         Close, Start
  <2>3. pc' = "closed" => \A i \in Slots : ~Used(i)
    BY <1>2 DEF Continue, gdb_step, StepEnds, MonitorResume, MonitorHalt, MonitorReset,
         MonitorHalted, WaitInterrupted, InterruptHalted, WaitStopped, Close, Start,
         server, Request
  <2> QED BY <2>1, <2>2, <2>3, ElsewhereInStep
<1>3. CASE SkipInterrupt \/ (\E why \in {"D", "k"} : Detach(why)) \/ Eof
           \/ Interrupt \/ Disconnect \/ Sigpipe \/ CoreStops \/ (\E u \in Units : CoreHits(u))
  <2>1. Elsewhere /\ faults' = faults
    BY <1>3, OutsideType
  <2>2. pc' = "closed" => pc = "closed"
    BY <1>3 DEF SkipInterrupt, Detach, Eof, Interrupt, Disconnect, Sigpipe, CoreStops,
                CoreHits, server
  <2> QED BY <2>1, <2>2, ElsewhereInStep
<1>4. CASE UNCHANGED vars
  BY <1>4, ElsewhereInStep DEF vars, flashctl, server, ghosts, Elsewhere
<1> QED BY <1>1, <1>2, <1>3, <1>4 DEF Next, Serve, Requests

\* It holds initially.
LEMMA TableInit == Init => TableInv
BY DEF Init, TableInv, InStep, Disjoint, OpenIsWanted, CoveredIsSaved, Used, Free

\* Types, run control and table, for every reachable state.
LEMMA TableInductive == Spec => [](TypeInv /\ RunInv /\ TableInv)
BY TableInit, RunInductive, TableInvNext, PTL DEF Spec

\* All through a session in which no access fails, memory is the client's
\* program with exactly the breakpoints of the table in it, and a session that
\* has closed leaves the client's program.
THEOREM MemoryAndTable == Spec => []MemoryMatchesTable
<1>1. TypeInv /\ TableInv => MemoryMatchesTable
  <2> SUFFICES ASSUME TypeInv, TableInv, faults = 0
               PROVE  /\ \A u \in Units \ Shadowed : mem[u] = wanted[u]
                      /\ CoveredIsSaved
                      /\ pc = "closed" => mem = wanted
    BY DEF MemoryMatchesTable, CoveredIsSaved
  <2>1. InStep /\ (pc = "closed" => \A i \in Slots : ~Used(i))
    BY DEF TableInv
  <2>2. \A u \in Units : u \in Shadowed <=> \E i \in Slots : Used(i) /\ u \in SlotCovers(i)
    BY DEF Shadowed, SlotCovers
  <2>3. \A u \in Units \ Shadowed : mem[u] = wanted[u]
    BY <2>1, <2>2 DEF InStep, OpenIsWanted
  <2>4. ASSUME pc = "closed" PROVE mem = wanted
    <3>1. \A u \in Units : mem[u] = wanted[u]
      BY <2>1, <2>2, <2>3, <2>4
    <3>2. mem = [u \in Units |-> mem[u]] /\ wanted = [u \in Units |-> wanted[u]]
      BY DEF TypeInv, Plain, Memory
    <3> QED BY <3>1, <3>2
  <2> QED BY <2>1, <2>3, <2>4 DEF InStep
<1> QED BY <1>1, TableInductive, PTL

---------------------------------------------------------------------------
(* Damage.  Whatever fails, a slot in use names only memory that was marked  *)
(* when its breakpoint was asked for, so that nothing else is ever patched,  *)
(* and the page that STRT is left set for is a page that was patched, or the *)
(* one an earlier run left: what the next erase sweeps was marked before.    *)

Mark(u, k) == Covers(u, k) \cup (IF u \in FlashUnits THEN PageOf(u) ELSE {})

DamageInv ==
  /\ \A i \in Slots : Used(i) => Mark(slots[i].addr, slots[i].kind) \subseteq touched
  /\ pending \subseteq touched
  /\ DamageConfined

\* A patch changes what it covers or, when an access fails, its page and the page
\* that STRT was left set for; STRT stays set for one of these two.
LEMMA PatchConfined ==
  ASSUME mem \in Memory, NEW u \in Units, NEW b \in Seq(Contents), NEW ok, NEW f,
         gdb_mem_patch(u, b, ok, f), NEW S, Mark(u, Len(b)) \cup pending \subseteq S
  PROVE  /\ \A v \in Units \ S : mem'[v] = mem[v]
         /\ pending' \subseteq S
<1>1. CASE u \notin FlashUnits
  <2>1. mem' \in {mem, Put(mem, u, b)} /\ pending' = pending
    BY <1>1 DEF gdb_mem_patch, PatchRam, flashctl
  <2> QED BY <2>1 DEF Put, Mark
<1>2. CASE u \in FlashUnits
  <2>1. mem' \in Outcomes(u, b) /\ pending' \in {{}, pending, PageOf(u)}
    BY PatchOutcomes
  <2>2. PageOf(u) \subseteq S /\ Covers(u, Len(b)) \subseteq S
    BY <1>2 DEF Mark
  <2>3. ASSUME NEW v \in Units \ S PROVE mem'[v] = mem[v]
    <3>1. PICK s \in {{}, pending, PageOf(u), pending \cup PageOf(u)} :
            mem' \in {mem, Spoiled(mem, s), Put(mem, u, b), Put(Spoiled(mem, s), u, b)}
      BY <2>1 DEF Outcomes
    <3>2. v \notin s /\ v \notin Covers(u, Len(b))
      BY <2>2
    <3> QED BY <3>1, <3>2 DEF Put, Spoiled
  <2> QED BY <2>1, <2>2, <2>3
<1> QED BY <1>1, <1>2

\* Inserting a breakpoint, whatever fails on the way, damages nothing but its own unit,
\* its page and what was marked before.
LEMMA InsertConfined ==
  ASSUME TypeInv, DamageInv, NEW u \in Units, NEW k \in 1 .. 2, u + k <= NUnits,
         gdb_breakpoint_insert(u, k)
  PROVE  DamageInv'
<1>1. touched' = touched \cup Mark(u, k) /\ wanted' = wanted
  BY DEF gdb_breakpoint_insert, Mark
<1>2. CASE UNCHANGED <<mem, flashctl, slots>>
  BY <1>1, <1>2 DEF DamageInv, DamageConfined, flashctl, Used, Mark
<1>3. ASSUME NEW ok \in BOOLEAN, NEW f \in 0 .. 1, FreeSlots # {},
             gdb_mem_patch(u, Opcode(k), ok, f),
             slots' = IF ok THEN [slots EXCEPT ![FirstFree] = SlotFor(u, k)] ELSE slots
      PROVE  DamageInv'
  <2>1. (\A v \in Units \ touched' : mem'[v] = wanted'[v]) /\ pending' \subseteq touched'
    <3>1. mem \in Memory /\ Opcode(k) \in Seq(Contents) /\ Len(Opcode(k)) = k
      BY OpcodeType DEF TypeInv, Plain
    <3>2. Mark(u, k) \cup pending \subseteq touched'
      BY <1>1 DEF DamageInv
    <3>3. (\A v \in Units \ touched' : mem'[v] = mem[v]) /\ pending' \subseteq touched'
      BY <1>3, <3>1, <3>2, PatchConfined
    <3> QED BY <1>1, <3>3 DEF DamageInv, DamageConfined
  <2>2. ASSUME NEW i \in Slots, Used(i)'
        PROVE  Mark(slots'[i].addr, slots'[i].kind) \subseteq touched'
    <3>1. CASE slots'[i] = slots[i]
      BY <1>1, <2>2, <3>1 DEF DamageInv, Used
    <3>2. CASE slots'[i] = SlotFor(u, k)
      BY <1>1, <3>2 DEF SlotFor
    <3>3. slots'[i] = slots[i] \/ slots'[i] = SlotFor(u, k)
      BY <1>3 DEF TypeInv, TableType
    <3> QED BY <3>1, <3>2, <3>3
  <2> QED BY <2>1, <2>2 DEF DamageInv, DamageConfined, Mark
<1> QED BY <1>2, <1>3 DEF gdb_breakpoint_insert

\* A slot's original goes back to where the slot says, which has been marked.
LEMMA RestoreConfined ==
  ASSUME TypeInv, DamageInv, NEW i \in Slots, Used(i), NEW ok, NEW f,
         gdb_mem_patch(slots[i].addr, slots[i].orig, ok, f),
         slots' \in {slots, [slots EXCEPT ![i] = Free]}, UNCHANGED <<wanted, touched>>
  PROVE  DamageInv'
<1>1. /\ slots[i].addr \in Units /\ slots[i].orig \in Seq(Contents)
      /\ Len(slots[i].orig) = slots[i].kind
  BY SlotInUse DEF TypeInv, TableType, Used
<1>2. (\A v \in Units \ touched' : mem'[v] = wanted'[v]) /\ pending' \subseteq touched'
  <2>1. Mark(slots[i].addr, slots[i].kind) \cup pending \subseteq touched
    BY DEF DamageInv
  <2>2. (\A v \in Units \ touched : mem'[v] = mem[v]) /\ pending' \subseteq touched
    BY <1>1, <2>1, PatchConfined DEF TypeInv, Plain
  <2> QED BY <2>2 DEF DamageInv, DamageConfined
<1>3. ASSUME NEW j \in Slots, Used(j)' PROVE Used(j) /\ slots'[j] = slots[j]
  BY <1>3 DEF TypeInv, TableType, Used, Free
<1> QED BY <1>2, <1>3 DEF DamageInv, DamageConfined, Mark

\* A memory write of the client damages nothing it does not name.
LEMMA StoreConfined ==
  ASSUME TypeInv, DamageInv, NEW u \in Units, gdb_handle_M(u)
  PROVE  DamageInv'
<1>1. slots' = slots /\ touched' = touched /\ pending' = pending
  BY DEF gdb_handle_M, server
<1>2. CASE mem' = Put(mem, u, <<"data">>)
  <2>1. wanted' = [wanted EXCEPT ![u] = "data"]
    BY <1>2 DEF gdb_handle_M
  <2>2. wanted \in [Units -> {"code", "data"}] /\ u \in Nat
    BY GdbAssumption DEF TypeInv, Plain, Units
  <2>3. Len(<<"data">>) = 1 /\ <<"data">>[1] = "data"
    OBVIOUS
  <2>4. Covers(u, 1) = {u} /\ u - u + 1 = 1
    BY <2>2 DEF Covers
  <2>5. \A v \in Units : mem'[v] = IF v = u THEN "data" ELSE mem[v]
    BY <1>2, <2>3, <2>4 DEF Put
  <2> QED BY <1>1, <2>1, <2>2, <2>5 DEF DamageInv, DamageConfined, Used, Mark
<1>3. CASE mem' # Put(mem, u, <<"data">>)
  <2>1. wanted' = wanted /\ mem' = mem
    BY <1>3 DEF gdb_handle_M
  <2> QED BY <1>1, <2>1 DEF DamageInv, DamageConfined, Used, Mark
<1> QED BY <1>2, <1>3

\* The damage invariant is kept by every step.
LEMMA DamageInvNext == TypeInv /\ DamageInv /\ [Next]_vars => DamageInv'
<1> SUFFICES ASSUME TypeInv, DamageInv, [Next]_vars PROVE DamageInv'
  OBVIOUS
<1>1. ASSUME NEW u \in Units, NEW k \in 1 .. 2, u + k <= NUnits, gdb_breakpoint_remove(u, k)
      PROVE  DamageInv'
  <2>1. UNCHANGED <<wanted, touched>>
    BY <1>1 DEF gdb_breakpoint_remove, ghosts
  <2>2. CASE UNCHANGED <<mem, flashctl, slots>>
    BY <2>1, <2>2 DEF DamageInv, DamageConfined, flashctl, Used, Mark
  <2>3. CASE ~UNCHANGED <<mem, flashctl, slots>>
    <3>1. PICK ok \in BOOLEAN, f \in 0 .. 1 :
            /\ Matching(u, k) # {}
            /\ gdb_mem_patch(u, slots[FirstMatching(u, k)].orig, ok, f)
            /\ slots' \in {slots, [slots EXCEPT ![FirstMatching(u, k)] = Free]}
      BY <1>1, <2>3 DEF gdb_breakpoint_remove
    <3>2. /\ FirstMatching(u, k) \in Slots /\ Used(FirstMatching(u, k))
          /\ slots[FirstMatching(u, k)].addr = u
      BY <3>1, FirstMatchingMatches
    <3> QED BY <2>1, <3>1, <3>2, RestoreConfined
  <2> QED BY <2>2, <2>3
<1>2. CASE gdb_breakpoints_clear
  BY <1>2, RestoreConfined DEF gdb_breakpoints_clear, ghosts
<1>3. CASE Elsewhere
  BY <1>3 DEF Elsewhere, DamageInv, DamageConfined, Used, Mark
<1>4. CASE UNCHANGED vars
  BY <1>3, <1>4 DEF Elsewhere, vars, flashctl, server, ghosts
<1> QED BY <1>1, <1>2, <1>3, <1>4, InsertConfined, StoreConfined, RunControlType, OutsideType
        DEF Next, Serve, Requests, Breakpoints

\* It holds initially.
LEMMA DamageInit == Init => DamageInv
BY DEF Init, DamageInv, DamageConfined, Used, Free

\* Whatever access fails, in the clean-ups of the flash routines too, and whatever
\* the client does, memory differs from what the client wants only where a
\* breakpoint was asked for, in the flash page of such a place, or in the page
\* that an earlier run had left STRT set for: a failed patch, one that failed and
\* said it had not, the bits it leaves for the next, a slot freed without its
\* original and a table that has lost step with memory cost nothing else.
THEOREM DamageIsConfined == Spec => []DamageConfined
<1>1. DamageInv => DamageConfined
  BY DEF DamageInv
<1> QED BY <1>1, DamageInit, DamageInvNext, TypeInductive, PTL DEF Spec
=============================================================================
