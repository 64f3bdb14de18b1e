----------------------------- MODULE GdbServer -----------------------------
(***************************************************************************)
(* gdb_server.c: run control, software breakpoints and the session of one  *)
(* GDB client, over a core that runs by itself once it has been resumed.   *)
(* Packet framing is not here: a request is an action, and of the replies  *)
(* only what they say of the core matters, the value of told.              *)
(*                                                                         *)
(* An address is a halfword.  What a halfword holds matters only as far as *)
(* it is the program's own ("code"), a breakpoint's ("brk", and "brk2" for *)
(* the second half of a 4-byte one), written by the client ("data") or,    *)
(* after a flash write that failed, erased or mixed up ("lost").           *)
(***************************************************************************)
EXTENDS Naturals, Sequences, FiniteSets

CONSTANTS
  NUnits,      \* halfwords of memory
  FlashUnits,  \* those of them that are flash; the rest is RAM
  PageUnits,   \* halfwords of a flash page
  NSlots,      \* GDB_MAX_BREAKPOINTS
  Places,      \* bound: the breakpoints the client asks for, halfword and length
  MaxFaults    \* bound: debug-module accesses that fail, and things a client
               \* does that GDB does not do by itself

ASSUME GdbAssumption ==
  /\ NUnits \in Nat /\ NSlots \in Nat
  /\ PageUnits \in Nat \ {0} /\ PageUnits % 2 = 0  \* a page holds whole words
  /\ FlashUnits \subseteq 0 .. NUnits - 1
  /\ MaxFaults \in Nat

Units == 0 .. NUnits - 1
Slots == 1 .. NSlots

VARIABLES
  \* the core and its debug module
  core,      \* "halted" or "running"
  haltreq,   \* DMCONTROL.haltreq
  ebreak,    \* DCSR.ebreakm: ebreak enters debug mode
  stepbit,   \* DCSR.step
  mem,
  \* the flash controller, as earlier writes have left it
  refused,   \* STATR.WRPRTERR, which nothing clears
  bufrst,    \* CTLR.BUF_RST is set
  pending,   \* ADDR's page if CTLR.STRT is set, which the next erase starts with
  \* the server
  pc,        \* what the server is doing; "idle" between two packets
  slots,     \* conn->breakpoints; [kind |-> 0] is a free slot
  exit,      \* why the session ends: "D", "k" or "eof"
  \* the client
  connected, interrupt,
  told,      \* what the client believes of the core
  faults,
  \* observations
  wanted,    \* what memory should hold, breakpoints aside
  touched    \* what the breakpoints asked for so far share RAM or a page with,
             \* and the page an earlier run left STRT set for

dm == <<core, haltreq, ebreak, stepbit>>
flashctl == <<refused, bufrst, pending>>
server == <<pc, slots, exit>>
client == <<connected, interrupt, told>>
ghosts == <<wanted, touched>>
vars == <<dm, mem, flashctl, server, client, faults, ghosts>>

Free == [kind |-> 0]
Used(i) == slots[i].kind # 0
Covers(u, k) == u .. u + k - 1

---------------------------------------------------------------------------
(* Debug-module accesses.  f counts the accesses of the action that fail;  *)
(* one that fails may still have taken effect.  A client that GDB would    *)
(* not be costs one, too.                                                  *)

Spend(f) == faults + f <= MaxFaults /\ faults' = faults + f
Odd(b) == IF b THEN 1 ELSE 0

\* gdb_dm_enable_ebreak; abstract commands do not work on a running core.
gdb_dm_enable_ebreak(c, f) ==
  ebreak' \in CASE c = "running" -> {ebreak}
                [] c = "halted" /\ f = 0 -> {TRUE}
                [] OTHER -> {ebreak, TRUE}

\* DMCONTROL resume; it drops haltreq too.
Resumed == core' = "running" /\ haltreq' = FALSE
WriteResume(f) == Resumed \/ (f = 1 /\ UNCHANGED <<core, haltreq>>)

\* gdb_resume: that ebreak could not be enabled is not looked at.
gdb_resume(f1, f2) == gdb_dm_enable_ebreak(core, f1) /\ WriteResume(f2)

gdb_dm_halt(f) == haltreq' = TRUE \/ (f = 1 /\ UNCHANGED haltreq)

\* gdb_dm_wait_halted: the core is seen halted, DMSTATUS cannot be read (which
\* counts as halted), or 2000 polls have passed, as they do when the request to
\* halt was lost; the caller cannot tell.
gdb_dm_wait_halted(f) == core = "halted" \/ f = 1 \/ faults > 0

---------------------------------------------------------------------------
(* Memory *)

PageOf(u) == {v \in FlashUnits : v \div PageUnits = u \div PageUnits}
\* Mutant: the page is not read before it is erased.
Put_PageErased(m, u, bytes) ==
  [v \in Units |-> IF v \in Covers(u, Len(bytes)) THEN bytes[v - u + 1]
                   ELSE IF u \in FlashUnits /\ v \in PageOf(u) THEN "lost" ELSE m[v]]

Put(m, u, bytes) ==
  [v \in Units |-> IF v \in Covers(u, Len(bytes)) THEN bytes[v - u + 1] ELSE m[v]]
\* Mutant: the whole flash is erased.
Spoiled_WholeFlash(m, s) == [v \in Units |-> IF v \in FlashUnits THEN "lost" ELSE m[v]]

Spoiled(m, s) == [v \in Units |-> IF v \in s THEN "lost" ELSE m[v]]

\* A store to RAM.
PatchRam(u, bytes, ok, f) ==
  /\ UNCHANGED flashctl
  /\ \/ ok /\ f = 0 /\ core = "halted" /\ mem' = Put(mem, u, bytes)
     \/ ~ok /\ (core = "running" \/ f = 1) /\ UNCHANGED mem
     \/ ~ok /\ f = 1 /\ core = "halted" /\ mem' = Put(mem, u, bytes)

\* The page is read, and wl_flash_write erases and programs it; there is no
\* read-back.  The results of the four routines' clean-ups are thrown away.
PatchFlash(u, bytes, ok, f) ==
  LET swept == IF bufrst THEN {} ELSE pending  \* erased before the page itself is
      written == Put(Spoiled(mem, swept), u, bytes)
      spoiled == Spoiled(mem, swept \cup PageOf(u))
  IN \/ \* the page cannot be read
        ~ok /\ (core = "running" \/ f = 1) /\ UNCHANGED <<mem, flashctl>>
     \/ \* the erase does not get beyond its first wait; its clean-up clears STRT
        /\ ~ok /\ core = "halted" /\ refused /\ UNCHANGED <<mem, refused, bufrst>>
        /\ pending' \in {{}} \cup (IF f = 1 THEN {pending} ELSE {})
     \/ \* all goes well; after a BUF_RST, which keeps the page from being erased,
        \* only if programming over the old contents makes no difference
        /\ core = "halted" /\ ~refused /\ f = 0
        /\ \/ ok /\ mem' = written /\ UNCHANGED refused
           \/ ~ok /\ bufrst /\ mem' = spoiled /\ refused' = TRUE
        /\ bufrst' = FALSE /\ pending' = {}
     \/ \* an access failed: one that the routines look at, or a clean-up, which
        \* leaves bits in CTLR that spoil the page or are met by the next patch
        /\ core = "halted" /\ ~refused /\ f = 1
        /\ \/ \* it does not get as far as its own erase
              /\ ~ok /\ mem' \in {mem, Spoiled(mem, swept)} /\ UNCHANGED <<refused, bufrst>>
              /\ pending' \in {{}, pending} \cup (IF pending = {} THEN {} ELSE {PageOf(u)})
           \/ \* the page is programmed
              /\ ~bufrst /\ mem' = written
              /\ UNCHANGED <<refused, bufrst>> /\ pending' \in {{}, PageOf(u)}
           \/ \* it is erased, or programmed from a buffer that is not complete
              /\ ~bufrst /\ mem' = spoiled
              /\ UNCHANGED refused /\ bufrst' \in BOOLEAN /\ pending' \in {{}, PageOf(u)}
           \/ \* whether it is erased, programmed or refused depends on how long the
              \* BUF_RST lasts
              /\ bufrst /\ mem' \in {mem, written, spoiled} /\ refused' \in BOOLEAN
              /\ bufrst' \in BOOLEAN /\ pending' \in {{}, pending, PageOf(u)}

gdb_mem_patch(u, bytes, ok, f) ==
  IF u \in FlashUnits THEN PatchFlash(u, bytes, ok, f) ELSE PatchRam(u, bytes, ok, f)

Opcode(k) == IF k = 1 THEN <<"brk">> ELSE <<"brk", "brk2">>

---------------------------------------------------------------------------
(* Requests *)

\* A packet is read when everything the client sent before it has been.
Request == pc = "idle" /\ connected /\ ~interrupt

\* Z0: the first free slot; the original is saved before it is overwritten.
FreeSlots == {i \in Slots : ~Used(i)}
FirstFree == CHOOSE i \in FreeSlots : \A j \in FreeSlots : i <= j
Aligned(u, k) == u % k = 0
Original(u, k) == [i \in 1 .. k |-> mem[u + i - 1]]
\* Mutant: only two bytes of a four-byte original are saved.
SlotFor_TwoBytes(u, k) == [addr |-> u, kind |-> k, orig |-> <<mem[u]>>]

SlotFor(u, k) == [addr |-> u, kind |-> k, orig |-> Original(u, k)]

Overlaps(u, k) == \E i \in Slots : Used(i) /\
  Covers(u, k) \cap Covers(slots[i].addr, slots[i].kind) # {}

Matching(u, k) == {i \in Slots : Used(i) /\ slots[i].addr = u /\ slots[i].kind = k}

\* GDB does not let its breakpoints overlap; another client may ask for the same
\* one twice.
gdb_breakpoint_insert(u, k) ==
  /\ Request
  /\ Overlaps(u, k) => Matching(u, k) # {}
  /\ UNCHANGED <<dm, pc, exit, connected, interrupt, told, wanted>>
  /\ touched' = touched \cup Covers(u, k) \cup (IF u \in FlashUnits THEN PageOf(u) ELSE {})
  /\ \/ /\ ~Aligned(u, k) \/ FreeSlots = {} \/ core = "running"
        /\ Spend(Odd(Overlaps(u, k)))
        /\ UNCHANGED <<mem, flashctl, slots>>
     \/ \* the original cannot be read
        /\ Aligned(u, k) /\ FreeSlots # {} /\ Spend(1 + Odd(Overlaps(u, k)))
        /\ UNCHANGED <<mem, flashctl, slots>>
     \/ /\ Aligned(u, k) /\ FreeSlots # {} /\ core = "halted"
        /\ \E ok \in BOOLEAN, f \in 0 .. 1 :
             /\ gdb_mem_patch(u, Opcode(k), ok, f) /\ Spend(f + Odd(Overlaps(u, k)))
             /\ slots' = IF ok THEN [slots EXCEPT ![FirstFree] = SlotFor(u, k)] ELSE slots

\* z0: the first slot with this address and kind.
FirstMatching(u, k) == CHOOSE i \in Matching(u, k) : \A j \in Matching(u, k) : i <= j

gdb_breakpoint_remove(u, k) ==
  /\ Request
  /\ UNCHANGED <<dm, pc, exit, connected, interrupt, told, ghosts>>
  /\ \/ Matching(u, k) = {} /\ UNCHANGED <<mem, flashctl, slots, faults>>
     \/ /\ Matching(u, k) # {}
        /\ \E ok \in BOOLEAN, f \in 0 .. 1 :
             /\ gdb_mem_patch(u, slots[FirstMatching(u, k)].orig, ok, f) /\ Spend(f)
             /\ slots' = IF ok THEN [slots EXCEPT ![FirstMatching(u, k)] = Free] ELSE slots

\* M: bytes are stored one by one with wl_dm_write8, in flash as in RAM; the
\* flash controller drops such a store and raises its error flag, or takes it
\* for the page buffer if PAGE_PG was left set, which takes a failed clean-up.
\* GDB, which has been given the memory map, writes to RAM only.
gdb_handle_M(u) ==
  /\ Request
  /\ ~Overlaps(u, 1)  \* GDB does not write where its breakpoints are
  /\ UNCHANGED <<dm, bufrst, pending, server, connected, interrupt, told, touched>>
  /\ \E ok \in BOOLEAN, f \in 0 .. 1 :
       /\ Spend(f + Odd(u \in FlashUnits))
       /\ ok <=> (f = 0 /\ core = "halted")
       /\ \/ /\ core = "halted" /\ u \in FlashUnits
             /\ refused' \in {TRUE} \cup (IF faults > 0 THEN {refused} ELSE {})
             /\ UNCHANGED mem
          \/ /\ core = "halted" /\ u \notin FlashUnits
             /\ mem' = Put(mem, u, <<"data">>) /\ UNCHANGED refused
          \/ ~ok /\ UNCHANGED <<mem, refused>>
       /\ wanted' = IF mem' = Put(mem, u, <<"data">>) THEN [wanted EXCEPT ![u] = "data"]
                    ELSE wanted

\* c and vCont;c
Continue ==
  /\ Request
  /\ UNCHANGED <<stepbit, mem, flashctl, slots, exit, connected, interrupt, ghosts>>
  /\ \E f1, f2 \in 0 .. 1 :
       /\ gdb_resume(f1, f2) /\ Spend(f1 + f2)
       /\ IF f2 = 0 THEN pc' = "waiting" /\ told' = "running"
          ELSE pc' = "idle" /\ told' = "error"

\* s and vCont;s, as far as the wait
gdb_step ==
  /\ Request
  /\ UNCHANGED <<mem, flashctl, slots, exit, connected, interrupt, ghosts>>
  /\ \/ \* DCSR cannot be read or written
        /\ \/ core = "running" /\ UNCHANGED <<faults, ebreak, stepbit>>
           \/ /\ Spend(1)
              /\ \/ UNCHANGED <<ebreak, stepbit>>
                 \/ core = "halted" /\ ebreak' = TRUE /\ stepbit' = TRUE
        /\ UNCHANGED <<core, haltreq>> /\ pc' = "idle" /\ told' = "error"
     \/ /\ core = "halted" /\ ebreak' = TRUE /\ stepbit' = TRUE
        /\ \E f \in 0 .. 1 :
             /\ WriteResume(f) /\ Spend(f)
             /\ IF f = 0 THEN pc' = "stepping" /\ told' = "running"
                ELSE \* the step bit is cleared, if the core can be reached
                     pc' = "stepfail" /\ told' = "error"

\* Mutant: the step bit is left set.
ClearStep_Missing(f) == UNCHANGED stepbit

\* gdb_step's last line: clear the step bit, whatever came before.
ClearStep(f) ==
  stepbit' \in CASE core = "running" -> {stepbit}
                 [] core = "halted" /\ f = 0 -> {FALSE}
                 [] OTHER -> {stepbit, FALSE}

StepEnds ==
  /\ pc \in {"stepping", "stepfail"}
  /\ \E f1, f2 \in 0 .. 1 :
       /\ pc = "stepping" => gdb_dm_wait_halted(f1)
       /\ pc = "stepfail" => f1 = 0
       /\ Spend(f1 + f2) /\ ClearStep(f2)
       \* a core that never stops is an error, an unreadable one counts as halted
       /\ told' \in IF pc = "stepfail" THEN {told}
                    ELSE IF f1 = 1 THEN {"stopped", "error"}
                    ELSE IF core = "halted" THEN {"stopped"} ELSE {"error"}
  /\ pc' = "idle"
  /\ UNCHANGED <<core, haltreq, ebreak, mem, flashctl, slots, exit, connected, interrupt, ghosts>>

\* monitor resume, monitor halt, monitor reset: every result is thrown away.
\* GDB does not know that monitor resume starts the core.
MonitorResume ==
  /\ Request
  /\ \E f1, f2 \in 0 .. 1 : gdb_resume(f1, f2) /\ Spend(f1 + f2 + 1)
  /\ told' = "monitor"
  /\ UNCHANGED <<stepbit, mem, flashctl, server, connected, interrupt, ghosts>>

MonitorHalt ==
  /\ Request
  /\ \E f \in 0 .. 1 : gdb_dm_halt(f) /\ Spend(f)
  /\ pc' = "monhalt"
  /\ UNCHANGED <<core, ebreak, stepbit, mem, flashctl, slots, exit, client, ghosts>>

\* A reset clears DCSR and the flash controller; haltreq stops the core that
\* comes out of it.
MonitorReset ==
  /\ Request
  /\ haltreq' = TRUE  \* written twice; that both are lost is left out
  /\ \E f1, f2 \in 0 .. 1 :
       /\ Spend(f1 + f2)
       /\ \/ /\ core' = "running" /\ ebreak' = FALSE /\ stepbit' = FALSE
             /\ refused' = FALSE /\ bufrst' = FALSE /\ pending' = {}
          \/ f1 = 1 /\ UNCHANGED <<core, ebreak, stepbit, flashctl>>
  /\ pc' = "monhalt"
  /\ UNCHANGED <<mem, slots, exit, client, ghosts>>

MonitorHalted ==
  /\ pc = "monhalt"
  /\ \E f1, f2 \in 0 .. 1 :
       gdb_dm_wait_halted(f1) /\ gdb_dm_enable_ebreak(core, f2) /\ Spend(f1 + f2)
  /\ pc' = "idle" /\ told' = "stopped"
  /\ UNCHANGED <<core, haltreq, stepbit, mem, flashctl, slots, exit, connected, interrupt, ghosts>>

---------------------------------------------------------------------------
(* gdb_wait_for_stop *)

\* Mutant: the halt is not asked for.
WaitInterrupted_NoHalt ==
  /\ pc = "waiting" /\ interrupt
  /\ interrupt' = FALSE /\ pc' = "inthalt"
  /\ UNCHANGED <<dm, mem, flashctl, slots, exit, connected, told, faults, ghosts>>

\* The byte 0x03 has arrived: ask for a halt, wait for it, report SIGINT.
WaitInterrupted ==
  /\ pc = "waiting" /\ interrupt
  /\ interrupt' = FALSE
  /\ \E f \in 0 .. 1 : gdb_dm_halt(f) /\ Spend(f)
  /\ pc' = "inthalt"
  /\ UNCHANGED <<core, ebreak, stepbit, mem, flashctl, slots, exit, connected, told, ghosts>>

\* Mutant: the halt is not waited for.
InterruptHalted_NoWait ==
  /\ pc = "inthalt"
  /\ pc' = "idle" /\ told' = "stopped"
  /\ UNCHANGED <<dm, mem, flashctl, slots, exit, connected, interrupt, faults, ghosts>>

InterruptHalted ==
  /\ pc = "inthalt"
  /\ \E f \in 0 .. 1 : gdb_dm_wait_halted(f) /\ Spend(f)
  /\ pc' = "idle" /\ told' = "stopped"
  /\ UNCHANGED <<dm, mem, flashctl, slots, exit, connected, interrupt, ghosts>>

\* Mutant: the socket is polled, the core is not.
WaitStopped_Never == FALSE /\ UNCHANGED vars

\* DMSTATUS says the core stopped, or cannot be read; an interrupt that has
\* come in since the poll is still there.
WaitStopped ==
  /\ pc = "waiting"
  /\ \E f \in 0 .. 1 : Spend(f) /\ (core = "halted" \/ f = 1)
  /\ pc' = "idle" /\ told' = "stopped"
  /\ UNCHANGED <<dm, mem, flashctl, slots, exit, connected, interrupt, ghosts>>

\* An interrupt that finds the core stopped is skipped, by the loop that waits
\* for the stop report's '+' or by the one that looks for the next '$'.
SkipInterrupt ==
  /\ pc = "idle" /\ interrupt
  /\ interrupt' = FALSE
  /\ UNCHANGED <<dm, mem, flashctl, server, connected, told, faults, ghosts>>

---------------------------------------------------------------------------
(* The end of a session *)

Detach(why) ==
  /\ Request
  /\ pc' = "clearing" /\ exit' = why
  /\ UNCHANGED <<dm, mem, flashctl, slots, client, faults, ghosts>>

\* Nobody is left to read from or to tell anything.
Gone == connected' = FALSE /\ interrupt' = FALSE /\ told' = "none"

\* Mutant: a stream that has ended is read again and again.
Eof_Retried == FALSE /\ UNCHANGED vars

\* gdb_recv_packet fails because the client has gone.
Eof ==
  /\ pc = "idle" /\ ~connected
  /\ pc' = "clearing" /\ exit' = "eof" /\ Gone
  /\ UNCHANGED <<dm, mem, flashctl, slots, faults, ghosts>>

\* gdb_breakpoints_clear, slot by slot; a slot is freed whether or not its
\* original could be put back.
gdb_breakpoints_clear ==
  /\ pc = "clearing"
  /\ \E i \in Slots :
       /\ Used(i) /\ \A j \in Slots : j < i => ~Used(j)
       /\ \E ok \in BOOLEAN, f \in 0 .. 1 :
            gdb_mem_patch(slots[i].addr, slots[i].orig, ok, f) /\ Spend(f)
       /\ slots' = [slots EXCEPT ![i] = Free]
  /\ UNCHANGED <<dm, pc, exit, client, ghosts>>

\* Mutant: the session closes with breakpoints in place.
Close_TableInUse ==
  /\ pc = "clearing" /\ pc' = "closed" /\ Gone
  /\ UNCHANGED <<dm, mem, flashctl, slots, exit, faults, ghosts>>

\* All slots are free: D resumes the core, then the server closes.
Close ==
  /\ pc = "clearing" /\ \A i \in Slots : ~Used(i)
  /\ \/ /\ exit = "D"
        /\ \E f1, f2 \in 0 .. 1 : gdb_resume(f1, f2) /\ Spend(f1 + f2)
     \/ exit # "D" /\ UNCHANGED <<core, haltreq, ebreak, faults>>
  /\ pc' = "closed" /\ Gone
  /\ UNCHANGED <<stepbit, mem, flashctl, slots, exit, ghosts>>

\* Before it listens, the server stops the attached core and enables ebreak.
Start ==
  /\ pc = "start"
  /\ \E f1, f2 \in 0 .. 1 :
       gdb_dm_halt(f1) /\ gdb_dm_enable_ebreak(core, f2) /\ Spend(f1 + f2)
  /\ pc' = "idle" /\ connected' = TRUE /\ told' = "stopped"
  /\ UNCHANGED <<core, stepbit, mem, flashctl, slots, exit, interrupt, ghosts>>

---------------------------------------------------------------------------
(* The core and the client by themselves *)

\* The core stops after one instruction, or because it is asked to.
CoreStops ==
  /\ core = "running" /\ (stepbit \/ haltreq)
  /\ core' = "halted"
  /\ UNCHANGED <<haltreq, ebreak, stepbit, mem, flashctl, server, client, faults, ghosts>>

\* The program reaches a breakpoint.
CoreHits(u) ==
  /\ core = "running" /\ mem[u] = "brk" /\ ebreak
  /\ core' = "halted"
  /\ UNCHANGED <<haltreq, ebreak, stepbit, mem, flashctl, server, client, faults, ghosts>>

\* The client sends 0x03 while it has not seen the report of a stop, which may
\* already be on its way.
Interrupt ==
  /\ connected /\ ~interrupt /\ told \in {"running", "stopped"}
  /\ pc \in {"waiting", "stepping", "inthalt", "idle"}
  /\ interrupt' = TRUE
  /\ UNCHANGED <<dm, mem, flashctl, server, connected, told, faults, ghosts>>

\* The server writes to a connection the client has reset, or that has answered
\* an earlier write with a reset: SIGPIPE, which nothing catches.
Sigpipe ==
  /\ ~connected /\ pc \in {"idle", "waiting", "stepping", "stepfail", "monhalt", "inthalt"}
  /\ pc = "waiting" => core = "halted"
  /\ pc' = "killed" /\ Gone
  /\ UNCHANGED <<dm, mem, flashctl, slots, exit, faults, ghosts>>

\* The client goes; what it sent last may be lost with it.
Disconnect ==
  /\ connected /\ pc \notin {"clearing", "killed"}
  /\ connected' = FALSE /\ interrupt' \in {interrupt, FALSE}
  /\ UNCHANGED <<dm, mem, flashctl, server, told, faults, ghosts>>

\* What an earlier run may have left behind: haltreq or ebreak if it ended as it
\* should, the rest if it was killed or an access failed.
Init ==
  /\ core = "halted" /\ haltreq \in BOOLEAN /\ ebreak \in BOOLEAN /\ stepbit \in BOOLEAN
  /\ refused \in BOOLEAN /\ bufrst \in BOOLEAN
  /\ pending \in {{}} \cup {PageOf(u) : u \in FlashUnits}
  /\ mem = [u \in Units |-> "code"] /\ wanted = mem /\ touched = pending
  /\ pc = "start" /\ slots = [i \in Slots |-> Free] /\ exit = "none"
  /\ connected = FALSE /\ interrupt = FALSE /\ told = "none"
  /\ faults = Odd(stepbit) + Odd(refused) + Odd(bufrst) + Odd(pending # {})
  /\ faults <= MaxFaults

Breakpoints ==
  \E u \in Units, k \in 1 .. 2 : <<u, k>> \in Places /\ u + k <= NUnits
     /\ (gdb_breakpoint_insert(u, k) \/ gdb_breakpoint_remove(u, k))
Serve == \/ Start \/ Eof \/ StepEnds \/ MonitorHalted
         \/ WaitInterrupted \/ InterruptHalted \/ WaitStopped \/ SkipInterrupt
         \/ gdb_breakpoints_clear \/ Close
Requests == \/ Breakpoints \/ (\E u \in Units : gdb_handle_M(u))
            \/ Continue \/ gdb_step \/ MonitorResume \/ MonitorHalt \/ MonitorReset
            \/ \E why \in {"D", "k"} : Detach(why)
Next == \/ Serve \/ Requests \/ Interrupt \/ Disconnect \/ Sigpipe
        \/ CoreStops \/ \E u \in Units : CoreHits(u)

\* The server is one thread that polls and does not need an access to fail to go
\* on; a core that is stepped or asked to halt does so.
\* Nothing makes a client send anything, or a program reach a breakpoint.
Spec == Init /\ [][Next]_vars /\ WF_vars(Serve /\ UNCHANGED faults) /\ WF_vars(CoreStops)

---------------------------------------------------------------------------
(* Properties *)

Contents == {"code", "brk", "brk2", "data", "lost"}
TypeOK ==
  /\ core \in {"halted", "running"}
  /\ haltreq \in BOOLEAN /\ ebreak \in BOOLEAN /\ stepbit \in BOOLEAN
  /\ mem \in [Units -> Contents] /\ wanted \in [Units -> {"code", "data"}]
  /\ refused \in BOOLEAN /\ bufrst \in BOOLEAN /\ pending \subseteq Units
  /\ pc \in {"start", "idle", "waiting", "stepping", "stepfail", "monhalt", "inthalt",
            "clearing", "closed", "killed"}
  /\ \A i \in Slots : Used(i) =>
       /\ slots[i].addr \in Units /\ slots[i].kind \in 1 .. 2
       /\ slots[i].orig \in [1 .. slots[i].kind -> Contents]
  /\ exit \in {"none", "D", "k", "eof"}
  /\ connected \in BOOLEAN /\ interrupt \in BOOLEAN
  /\ told \in {"none", "stopped", "running", "error", "monitor"}
  /\ faults \in 0 .. MaxFaults /\ touched \subseteq Units

Shadowed == UNION {Covers(slots[i].addr, slots[i].kind) : i \in {j \in Slots : Used(j)}}

\* Memory is the client's program with exactly the breakpoints of the table in
\* it, all through a session: inserts, removals and writes in any order keep
\* the table, the saved originals and memory in step.  So however the session
\* ends, by D, k or the client's going, the target is left with its own program;
\* only a server that was killed leaves its breakpoints.
MemoryMatchesTable ==
  faults = 0 =>
    /\ \A u \in Units \ Shadowed : mem[u] = wanted[u]
    /\ \A i \in Slots : Used(i) =>
         \A n \in 1 .. slots[i].kind :
           /\ mem[slots[i].addr + n - 1] = Opcode(slots[i].kind)[n]
           /\ slots[i].orig[n] = wanted[slots[i].addr + n - 1]
    /\ pc = "closed" => mem = wanted

\* Whatever access fails, in the clean-ups whose results are thrown away too, and
\* whatever the client does, nothing is damaged but RAM a breakpoint was asked for
\* in, the flash pages of such breakpoints, and the page an earlier run had left
\* ADDR at with STRT set: no bit that one patch leaves in CTLR makes a later one
\* erase or program anything else.
DamageConfined == \A u \in Units \ touched : mem[u] = wanted[u]

\* When the client has been told that the core stopped, it has: a breakpoint
\* racing an interrupt, or a step, never leaves it running behind the client's
\* back.
StopReportIsTrue ==
  faults = 0 /\ told = "stopped" /\ pc \in {"idle", "clearing"} => core = "halted"

\* A core that was told to continue is neither single-stepped by a step bit left
\* over from an earlier step nor deaf to its breakpoints.
ContinueIsArmed ==
  faults = 0 /\ pc = "waiting" /\ core = "running" => ebreak /\ ~stepbit

\* A client that waits for the core is told that it stopped, once it has stopped
\* or the client has interrupted it, whether the interrupt, a breakpoint or the
\* end of a step came first; when an access has failed it may be told of the
\* error instead.
StopReported ==
  (told = "running" /\ connected /\ (interrupt \/ core = "halted")) ~>
    (told = "stopped" \/ (told = "error" /\ faults > 0) \/ ~connected)

\* A server whose client has gone puts the breakpoints away and ends, whatever
\* it was doing; only a program that never stops keeps it.
SessionEnds ==
  ~connected /\ pc # "start" ~>
    pc \in {"closed", "killed"} \/ (pc = "waiting" /\ core = "running")
=============================================================================
