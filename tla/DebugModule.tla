---------------------------- MODULE DebugModule ----------------------------
(***************************************************************************)
(* dm.c: target memory and registers reached through a RISC-V debug module *)
(* with abstract commands and a two-word program buffer, one DMI access at *)
(* a time, each of which may fail before or after it took effect.          *)
(*                                                                         *)
(* What a caller asks for is a sequence of calls of dm.c (Calls), a call a *)
(* fixed sequence of DMI accesses (Script); the first failure ends it all. *)
(* A word is a number of four digits, a byte one digit of it.              *)
(***************************************************************************)
EXTENDS Integers, Sequences, FiniteSets

CONSTANTS
  Base,       \* values of a byte
  NBytes,     \* addresses below this answer
  Registers,  \* the registers in the order gdb_handle_g reads them
  InitMem,    \* what memory may hold, before and after the program ran
  InitRegs,
  OpSet,      \* the operations the callers ask for
  Follows(_, _), \* bound: the operations that may come after a given one
  StaleAuto,  \* may ABSTRACTAUTO have been left set by another debugger?
  MaxFaults,  \* bound: DMI accesses that fail
  MaxHangs,   \* bound: commands the tool stops waiting for
  MaxOps      \* bound: operations

WordBytes == 4
Byte == 0 .. Base - 1
Word == 0 .. Base * Base * Base * Base - 1
Addr == 0 .. NBytes - 1
Sizes == {1, 2, WordBytes}
Regs == {Registers[i] : i \in DOMAIN Registers}

\* "none" is the register of no command.
ASSUME DmAssumption ==
  /\ Base \in Nat \ {0, 1}
  /\ NBytes \in Nat \ {0} /\ NBytes % WordBytes = 0 /\ NBytes \in Word
  /\ Registers \in Seq(STRING) /\ {"x8", "x9"} \subseteq Regs /\ "none" \notin Regs
  /\ InitMem \subseteq [Addr -> Byte] /\ InitRegs \in [Regs -> Word]
  /\ StaleAuto \in BOOLEAN
  /\ MaxFaults \in Nat /\ MaxHangs \in Nat /\ MaxOps \in Nat

\* One operation: a store or a load of one of the sizes, the byte stores of an M
\* packet, wl_dm_read_block, a register written or read, and all of them read.
IsOp(o) ==
  \/ o.kind = "write" /\ o.addr \in Word /\ o.size \in Sizes /\ o.val \in Word
  \/ o.kind = "read" /\ o.addr \in Word /\ o.size \in Sizes
  \/ o.kind = "bytes" /\ o.addr \in Word /\ o.bytes \in Seq(Byte) /\ o.bytes # <<>>
  \/ o.kind = "block" /\ o.addr \in Word /\ o.len \in Nat \ {0}
  \/ o.kind = "set" /\ o.reg \in Regs /\ o.val \in Word
  \/ o.kind = "get" /\ o.reg \in Regs
  \/ o.kind = "all"

ASSUME OpAssumption == \A o \in OpSet : IsOp(o)

VARIABLES
  \* the target
  mem, regs,
  halted,    \* abstract commands run only on a stopped core
  \* the debug module
  data0, progbuf, auto,
  running,   \* the abstract command being executed, or NoCommand
  last,      \* the COMMAND register, which ABSTRACTAUTO executes again
  cmderr,    \* "none", or why the last command failed; sticky
  \* the tool
  op,        \* the operation in progress, or NoOp
  nth,       \* the call of it that runs
  ip,        \* the next access of that call
  got,       \* the words its calls have read
  result,    \* what the last operation returned
  \* bounds and observations
  faults, hangs, nops,
  issued,    \* the bytes and registers asked to be written so far
  kept       \* the registers when the last operation began

target == <<mem, regs, halted>>
module == <<data0, progbuf, auto, running, last, cmderr>>
tool == <<op, nth, ip, got, result>>
counts == <<faults, hangs, nops, issued, kept>>
vars == <<target, module, tool, counts>>

NoCommand == [reg |-> "none", write |-> FALSE, postexec |-> FALSE]
Command == [reg: Regs, write: BOOLEAN, postexec: BOOLEAN]
NoOp == [kind |-> "none"]
Idle == op.kind = "none"
Busy == running # NoCommand

\* word >> 8 * i, (word >> 8 * i) & 0xff, and the word whose bytes are b[0] .. b[3].
Shifted(w, i) ==
  CASE i = 0 -> w
    [] i = 1 -> w \div Base
    [] i = 2 -> (w \div Base) \div Base
    [] i = 3 -> ((w \div Base) \div Base) \div Base
ByteOf(w, i) == Shifted(w, i) % Base
WordOf(b) == b[0] + Base * (b[1] + Base * (b[2] + Base * b[3]))

---------------------------------------------------------------------------
(* The calls of an operation and the accesses of a call *)

Store(a, n, v) == [call |-> "store", addr |-> a, size |-> n, val |-> v]
Load(a, n) == [call |-> "load", addr |-> a, size |-> n]

\* Mutant: the head is not read byte by byte.
HeadOf_None(a, n) == 0

\* wl_dm_read_block's three loops: bytes up to a word boundary, words, bytes.
HeadOf(a, n) ==
  LET unaligned == (WordBytes - (a % WordBytes)) % WordBytes
  IN  IF n < unaligned THEN n ELSE unaligned
WordsOf(a, n) == (n - HeadOf(a, n)) \div WordBytes
TailAt(a, n) == HeadOf(a, n) + WordsOf(a, n) * WordBytes
wl_dm_read_block(a, n) ==
  [i \in 1 .. HeadOf(a, n) |-> Load(a + i - 1, 1)] \o
  [i \in 1 .. WordsOf(a, n) |-> Load(a + HeadOf(a, n) + (i - 1) * WordBytes, WordBytes)] \o
  [i \in 1 .. n - TailAt(a, n) |-> Load(a + TailAt(a, n) + i - 1, 1)]

\* The buffer it fills, from the words its calls returned.
Filled(a, n, words) ==
  [j \in 1 .. n |->
     IF j <= HeadOf(a, n) THEN ByteOf(words[j], 0)
     ELSE IF j <= TailAt(a, n)
     THEN LET k == j - HeadOf(a, n) - 1
          IN  ByteOf(words[HeadOf(a, n) + k \div WordBytes + 1], k % WordBytes)
     ELSE ByteOf(words[HeadOf(a, n) + WordsOf(a, n) + j - TailAt(a, n)], 0)]

Calls(o) ==
  CASE o.kind = "write" -> <<Store(o.addr, o.size, o.val)>>
    [] o.kind = "read" -> <<Load(o.addr, o.size)>>
    [] o.kind = "bytes" -> [i \in DOMAIN o.bytes |-> Store(o.addr + i - 1, 1, o.bytes[i])]
    [] o.kind = "block" -> wl_dm_read_block(o.addr, o.len)
    [] o.kind = "set" -> <<[call |-> "set", reg |-> o.reg, val |-> o.val]>>
    [] o.kind = "get" -> <<[call |-> "get", reg |-> o.reg]>>
    [] o.kind = "all" -> [i \in DOMAIN Registers |-> [call |-> "get", reg |-> Registers[i]]]

W(r, v) == [access |-> "write", reg |-> r, val |-> v]
R(r) == [access |-> "read", reg |-> r]
C(r, w, x) == [access |-> "command", cmd |-> [reg |-> r, write |-> w, postexec |-> x]]
Wait == [access |-> "wait"]

\* dm_command: DATA0 if the register is written, COMMAND, wait, DATA0 if read.
dm_command_in(r, x, v) == <<W("DATA0", v), C(r, TRUE, x), Wait>>
dm_command_out(r) == <<C(r, FALSE, FALSE), Wait, R("DATA0")>>

Insn(i, n) == [insn |-> i, size |-> n]
Ebreak == Insn("ebreak", 0)
\* Mutant: the second word is not ebreak.
dm_load_program_NoEbreak(insn) ==
  <<W("AUTO", FALSE), W("PROGBUF0", insn), W("PROGBUF1", Insn("nop", 0))>>

dm_load_program(insn) == <<W("AUTO", FALSE), W("PROGBUF0", insn), W("PROGBUF1", Ebreak)>>

\* Mutant: the program is loaded after it has been run.
dm_run_LoadLast(insn, a, v) ==
  dm_command_in("x9", FALSE, a) \o dm_command_in("x8", TRUE, v) \o dm_load_program(insn)

\* dm_run: x9 takes the address, x8 the value, and the program runs.
dm_run(insn, a, v) ==
  dm_load_program(insn) \o dm_command_in("x9", FALSE, a) \o dm_command_in("x8", TRUE, v)

Script(c) ==
  CASE c.call = "store" -> dm_run(Insn("store", c.size), c.addr, c.val)
    [] c.call = "load" -> dm_run(Insn("load", c.size), c.addr, 0) \o dm_command_out("x8")
    [] c.call = "set" -> dm_command_in(c.reg, FALSE, c.val)
    [] c.call = "get" -> dm_command_out(c.reg)

---------------------------------------------------------------------------
(* The debug module *)

\* What the program buffer does to memory, x8 and cmderr: the byte, halfword or
\* word at x9 is stored from x8 or loaded into it, without sign (wl_dm_read16
\* masks what lh extends).
RunProgbuf(m, r) ==
  LET a == r["x9"]
      n == progbuf[1].size
      err == IF progbuf[2] # Ebreak \/ progbuf[1] = Ebreak \/ a % n # 0 THEN "exception"
             ELSE IF a \notin Addr THEN "bus" ELSE "none"
  IN  CASE err # "none" -> [mem |-> m, regs |-> r, err |-> err]
        [] err = "none" /\ progbuf[1].insn = "store" ->
             [mem |-> [b \in Addr |-> IF a <= b /\ b < a + n THEN ByteOf(r["x8"], b - a) ELSE m[b]],
              regs |-> r, err |-> err]
        [] err = "none" /\ progbuf[1].insn = "load" ->
             [mem |-> m, err |-> err,
              regs |-> [r EXCEPT !["x8"] =
                          WordOf([i \in 0 .. 3 |-> IF i < n THEN m[a + i] ELSE 0])]]

\* The first error stays until it is cleared.
Latch(e) == IF cmderr = "none" THEN e ELSE cmderr

\* The command that is running completes.
Execute ==
  /\ Busy
  /\ running' = NoCommand
  /\ IF ~halted
     THEN cmderr' = Latch("halt") /\ UNCHANGED <<mem, regs, data0>>
     ELSE LET moved == IF running.write THEN [regs EXCEPT ![running.reg] = data0] ELSE regs
              after == IF running.postexec THEN RunProgbuf(mem, moved)
                       ELSE [mem |-> mem, regs |-> moved, err |-> "none"]
          IN /\ data0' = IF running.write THEN data0 ELSE regs[running.reg]
             /\ mem' = after.mem /\ regs' = after.regs
             /\ cmderr' = Latch(after.err)
  /\ UNCHANGED <<halted, progbuf, auto, last, tool, counts>>

\* A command starts unless an earlier error has not been cleared.
Start(c) == running' = IF cmderr = "none" /\ c # NoCommand THEN c ELSE NoCommand

\* A register written while a command runs is refused, and the refusal is
\* remembered in cmderr.
DmiWrite(a) ==
  IF Busy THEN cmderr' = Latch("busy")
               /\ UNCHANGED <<data0, progbuf, auto, running, last>>
  ELSE /\ UNCHANGED cmderr
       /\ \/ /\ a.access = "command"
             /\ last' = a.cmd /\ Start(a.cmd) /\ UNCHANGED <<data0, progbuf, auto>>
          \/ /\ a.access = "write" /\ a.reg = "AUTO"
             /\ auto' = a.val /\ UNCHANGED <<data0, progbuf, running, last>>
          \/ /\ a.access = "write" /\ a.reg = "DATA0"
             /\ data0' = a.val /\ UNCHANGED <<progbuf, auto, last>>
             /\ IF auto THEN Start(last) ELSE UNCHANGED running
          \/ /\ a.access = "write" /\ a.reg \in {"PROGBUF0", "PROGBUF1"}
             /\ progbuf' = [progbuf EXCEPT ![IF a.reg = "PROGBUF0" THEN 1 ELSE 2] = a.val]
             /\ UNCHANGED <<data0, auto, last>>
             /\ IF auto THEN Start(last) ELSE UNCHANGED running

---------------------------------------------------------------------------
(* The tool *)

At == Script(Calls(op)[nth])[ip]
InOp == ~Idle

Return(s) ==
  /\ op' = NoOp /\ nth' = 1 /\ ip' = 1 /\ got' = <<>>
  /\ result' = [op |-> op, status |-> s, got |-> got]

\* The access succeeded: the next one, the next call, or the end of the operation.
Advance(words) ==
  IF ip < Len(Script(Calls(op)[nth]))
  THEN ip' = ip + 1 /\ got' = words /\ UNCHANGED <<op, nth, result>>
  ELSE IF nth < Len(Calls(op))
  THEN nth' = nth + 1 /\ ip' = 1 /\ got' = words /\ UNCHANGED <<op, result>>
  ELSE /\ op' = NoOp /\ nth' = 1 /\ ip' = 1 /\ got' = <<>>
       /\ result' = [op |-> op, status |-> "ok", got |-> words]

Fault == faults < MaxFaults /\ faults' = faults + 1 /\ UNCHANGED <<hangs, nops, issued, kept>>

\* The bytes and the registers an operation is to write.
AskedBytes(o) ==
  CASE o.kind = "write" -> {<<o.addr + i, ByteOf(o.val, i)>> : i \in 0 .. o.size - 1}
    [] o.kind = "bytes" -> {<<o.addr + i - 1, ByteOf(o.bytes[i], 0)>> : i \in DOMAIN o.bytes}
    [] OTHER -> {}
AskedRegs(o) == IF o.kind = "set" THEN {<<o.reg, o.val>>} ELSE {}

\* A register access while another debugger's auto-execution is on, which would
\* run that debugger's command, is left out: only dm_load_program turns it off.
Begin(o) ==
  /\ Idle /\ nops < MaxOps /\ Follows(result.op, o)
  /\ auto => o.kind \in {"write", "read", "bytes", "block"}
  /\ op' = o
  /\ nops' = nops + 1 /\ kept' = regs
  /\ issued' = [bytes |-> issued.bytes \cup AskedBytes(o), regs |-> issued.regs \cup AskedRegs(o)]
  /\ UNCHANGED <<target, module, nth, ip, got, result, faults, hangs>>

\* wl_linke_dmi_write: it succeeds, or fails with or without having taken effect.
wl_linke_dmi_write ==
  /\ InOp /\ At.access \in {"write", "command"}
  /\ UNCHANGED target
  /\ \/ DmiWrite(At) /\ Advance(got) /\ UNCHANGED counts
     \/ DmiWrite(At) /\ Return("usb") /\ Fault
     \/ UNCHANGED module /\ Return("usb") /\ Fault

\* wl_linke_dmi_read of DATA0, the last access of an operation that reads.
wl_linke_dmi_read ==
  /\ InOp /\ At.access = "read"
  /\ UNCHANGED target
  /\ \/ /\ ~Busy /\ Advance(Append(got, data0))
        /\ IF auto THEN Start(last) ELSE UNCHANGED running
        /\ UNCHANGED <<data0, progbuf, auto, last, cmderr, counts>>
     \/ UNCHANGED module /\ Return("usb") /\ Fault

\* Mutant: the error is not cleared.
ClearError_Missing == UNCHANGED module

\* dm_wait: poll ABSTRACTCS until it is not busy; an error is cleared, and
\* whether that worked is not looked at.
ClearError == cmderr' = "none" /\ UNCHANGED <<data0, progbuf, auto, running, last>>
\* Mutants: an error is cleared and forgotten; a command that failed is issued
\* again until it succeeds.
dm_wait_ErrorIgnored ==
  /\ InOp /\ At.access = "wait" /\ ~Busy
  /\ UNCHANGED <<target, counts>>
  /\ ClearError /\ Advance(got)
dm_wait_Reissues ==
  /\ InOp /\ At.access = "wait" /\ ~Busy
  /\ UNCHANGED <<target, counts>>
  /\ \/ cmderr = "none" /\ Advance(got) /\ UNCHANGED module
     \/ cmderr # "none" /\ ClearError /\ ip' = ip - 1 /\ UNCHANGED <<op, nth, got, result>>

dm_wait ==
  /\ InOp /\ At.access = "wait"
  /\ UNCHANGED target
  /\ \/ ~Busy /\ cmderr = "none" /\ Advance(got) /\ UNCHANGED <<module, counts>>
     \/ ~Busy /\ cmderr # "none" /\ Return("target") /\ ClearError /\ UNCHANGED counts
     \/ ~Busy /\ cmderr # "none" /\ Return("target") /\ Fault
           /\ (UNCHANGED module \/ ClearError)
     \/ Busy /\ hangs < MaxHangs /\ Return("target")
           /\ hangs' = hangs + 1 /\ UNCHANGED <<module, faults, nops, issued, kept>>
     \/ Return("usb") /\ Fault /\ UNCHANGED module

\* Between two operations the core may be stopped or started; while it runs it
\* may change its memory.
HaltOrResume ==
  /\ Idle /\ ~Busy
  /\ halted' = ~halted
  /\ UNCHANGED <<mem, regs, module, tool, counts>>
ProgramRuns ==
  /\ ~halted /\ Idle
  /\ mem' \in InitMem
  /\ UNCHANGED <<regs, halted, module, tool, counts>>

Init ==
  /\ mem \in InitMem
  /\ regs = InitRegs
  /\ halted = TRUE
  /\ data0 = 0 /\ progbuf = <<Insn("store", WordBytes), Ebreak>>
  /\ running = NoCommand /\ cmderr = "none"
  /\ auto \in IF StaleAuto THEN BOOLEAN ELSE {FALSE}
  /\ last \in IF auto THEN {[reg |-> "x8", write |-> TRUE, postexec |-> TRUE]} ELSE {NoCommand}
  /\ op = NoOp /\ nth = 1 /\ ip = 1 /\ got = <<>>
  /\ result = [op |-> NoOp, status |-> "none", got |-> <<>>]
  /\ faults = 0 /\ hangs = 0 /\ nops = 0 /\ issued = [bytes |-> {}, regs |-> {}] /\ kept = regs

Tool == wl_linke_dmi_write \/ wl_linke_dmi_read \/ dm_wait
Environment == Execute \/ HaltOrResume \/ ProgramRuns
Next == Tool \/ Environment \/ \E o \in OpSet : Begin(o)

\* The tool is one thread and its poll loop is bounded, and it does not need an
\* access to fail to go on; the module completes what it has started.
Spec == Init /\ [][Next]_vars /\ WF_vars(Tool /\ UNCHANGED faults) /\ WF_vars(Execute)

---------------------------------------------------------------------------
(* Properties *)

TypeOK ==
  /\ mem \in [Addr -> Byte] /\ regs \in [Regs -> Word] /\ halted \in BOOLEAN
  /\ data0 \in Word /\ auto \in BOOLEAN
  /\ progbuf[1].insn \in {"store", "load"} /\ progbuf[2] = Ebreak
  /\ running \in Command \cup {NoCommand} /\ last \in Command \cup {NoCommand}
  /\ cmderr \in {"none", "busy", "exception", "halt", "bus"}
  /\ ~Idle => IsOp(op) /\ nth \in DOMAIN Calls(op) /\ ip \in DOMAIN Script(Calls(op)[nth])
  /\ got \in Seq(Word) /\ Len(got) <= nth
  /\ result.status \in {"none", "ok", "usb", "target", "usage"}
  /\ faults \in 0 .. MaxFaults /\ hangs \in 0 .. MaxHangs /\ nops \in 0 .. MaxOps
  /\ kept \in [Regs -> Word]

\* WL_OK means what it says, whatever failed in earlier operations and however
\* late a command they gave up on completed: memory and registers hold what was
\* written, byte for byte, and what was read is what they hold, also where a
\* block starts or ends inside a word.
Slice(a, n) == [j \in 1 .. n |-> mem[a + j - 1]]
InMemory(a, n) == a + n <= NBytes
Done(o, words) == \* what o promises when it has returned WL_OK
  CASE o.kind = "write" -> InMemory(o.addr, o.size)
         /\ Slice(o.addr, o.size) = [j \in 1 .. o.size |-> ByteOf(o.val, j - 1)]
    [] o.kind = "bytes" -> InMemory(o.addr, Len(o.bytes)) /\ Slice(o.addr, Len(o.bytes)) = o.bytes
    [] o.kind = "read" -> InMemory(o.addr, o.size)
         /\ Slice(o.addr, o.size) = [j \in 1 .. o.size |-> ByteOf(words[1], j - 1)]
    [] o.kind = "block" -> InMemory(o.addr, o.len)
         /\ Slice(o.addr, o.len) = Filled(o.addr, o.len, words)
    [] o.kind = "set" -> regs[o.reg] = o.val
    [] o.kind = "get" -> words = <<regs[o.reg]>>
    [] o.kind = "all" -> words = [i \in DOMAIN Registers |-> regs[Registers[i]]]
    [] OTHER -> TRUE
OkIsTrue ==
  [][~Idle /\ Idle' /\ result'.status = "ok" => Done(result.op, result.got)']_vars

\* Nothing but a write that a caller asked for changes the memory of a stopped
\* core, and no register but x8 and x9, which every memory access uses: not a
\* command that completes after its operation was abandoned, and not the program
\* of an earlier operation run with the address of a later one.
OnlyAskedWrites ==
  [][halted =>
       /\ \A a \in Addr : mem'[a] # mem[a] => <<a, mem'[a]>> \in issued.bytes
       /\ \A r \in Regs \ {"x8", "x9"} : regs'[r] # regs[r] => <<r, regs'[r]>> \in issued.regs]_vars

\* An operation on memory that answers fails only if an access failed, a command
\* was given up on or the core runs: no block is read with an access the core
\* does not accept, and no command is rejected for the previous one's sake.
Answers(o) ==
  CASE o.kind \in {"read", "write"} -> InMemory(o.addr, o.size) /\ o.addr % o.size = 0
    [] o.kind = "block" -> InMemory(o.addr, o.len)
    [] o.kind = "bytes" -> InMemory(o.addr, Len(o.bytes))
    [] OTHER -> TRUE
FailureExplained ==
  [][~Idle /\ Idle' /\ result'.status # "ok" /\ halted /\ faults' + hangs' = 0 => ~Answers(op)]_vars

\* When a memory access has returned, the registers of the stopped core are as
\* it found them.
RegistersKept == Idle /\ result.op.kind \in {"read", "write", "block", "bytes"} => regs = kept

\* Every operation returns, also when a command never completes in time.
OperationReturns == ~Idle ~> Idle
=============================================================================
