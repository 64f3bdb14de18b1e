# A TLA+ verification of libopenwch-tools

`libopenwch-tools` drives a WCH-LinkE programmer over USB and, through it, the
flash, the memory and the core of WCH RISC-V microcontrollers. It is one
sequential process. What makes it hard is what it talks to: a link that may drop
any single access before or after it took effect, a debug module that runs
commands by itself, a flash controller whose registers outlive the tool, a core
and firmware that run concurrently, a GDB client with its own idea of the
target, and a bench on which programmers come, go and reboot.

The modules model those interactions. All line numbers refer to `src/` at the
root of the repository; `PROJECT.json` maps every definition to its lines.

## 1. Inventory

| Component | Source | State | Operations | Talks to |
|---|---|---|---|---|
| Flash writer | `flash.c`, `flash_ch32v0.c`, `wl_linke_write_flash` in `linke.c` | none of its own between calls; loops over pages and words; the controller's `CTLR`, `ADDR`, page buffer, `STATR` and key registers | range check, unlock, merge, erase, buffer reset, buffer load, program, verify, resume | debug-module accesses; progress callback |
| Debug module access | `dm.c`, `dm.h` | the module's `DATA0`, `PROGBUF`, `COMMAND`, `ABSTRACTAUTO`, `cmderr`; x8/x9 of the core | read/write a register, read/write 8/16/32 bits, read a block | `wl_linke_dmi_*`, one USB exchange each |
| GDB server, registers and memory | `gdb_server.c` | none | g, p, P, m, M, `monitor read32/write32`, with their conversions | debug module, client |
| GDB server, run control | `gdb_server.c` | breakpoint table, DCSR bits, what the client was told | c, s, vCont, 0x03, Z0/z0, M, D, k, `monitor reset/halt/resume` | debug module, flash writer, client |
| GDB server, framing | `gdb_server.c:190-330, 830-860` | one byte stream each way | receive, acknowledge, send, resend | GDB's `putpkt`/`getpkt` |
| SDI terminal | `cmd_terminal` in `main.c` | DATA0/DATA1, shared with the firmware | poll, fetch, hand back, print, stop on a signal | firmware, stdout |
| Programmer discovery | `usb_link.c`, `usb.c` | addresses and modes from the last scan | find, switch to RISC-V, eject IAP, open, close | the USB bus, udev |
| Link session | `linke.c`, `linke.h` | the chip; in the programmer: interface setting, attached or not | attach, identify, halt, resume, reset, unbrick, detach, register access | transport |
| USB transport | `usb.c`, `transport.h` | in the programmer: a request not looked at, a reply not collected | one request and its reply, each with a timeout | libusb |
| Chip table | `target.c` | constant data | lookup by detected id | - |
| Commands | `main.c` | what earlier commands left in the programmer and the target | info, flash, read, reset, unbrick, halt, resume, pc, regs, read32, write32, terminal, gdbserver, version | everything above |
| Option parsing, logging | `main.c`, `log.c` | options, verbosity | - | - |

What could go wrong in each, where, and which property would notice, is the
`hazards` list of `PROJECT.json`. The themes:

* **the unfinished call**: a call ends between two register writes and the next
  one meets its remains (`CTLR.STRT`, a command still running, an uncleared
  `cmderr`, an acknowledgement that did or did not arrive);
* **the late reply**: an answer that comes after its timeout waits for the next
  request, of this command or of the next one;
* **the ignored result**: clean-up writes, `resume`, `enable_ebreak` and register
  hand-backs are made without looking at what they return;
* **two actors at once**: core against interrupt, firmware against terminal,
  bench against scan, client against server on one byte stream;
* **bounded waiting**: every poll loop must end, whatever the other side does.

## 2. Modules

Each component is one module with its environment in it, because a component
only makes sense with the party it talks to. `MC<Module>` gives the instances
for TLC, `<Module>Proofs` (and, for the flash writer's refinement, `FlashImageProofs`)
holds the theorems about it. Failing accesses are modelled in
the same way everywhere: an access succeeds, or fails having taken effect (the
reply was lost), or fails without effect (the request was).

How they fit together:

    Session          commands -> requests -> USB transfers
      FlashWriter      one access of it = one operation of DebugModule
        => PageStore     (refinement StoreSpec)
      DebugModule      one access of it = one register request of Session
        GdbData          extends it: requests that move data, and their replies
      GdbServer        one request = one exchange of RequestReply
    RspFraming
        => RequestReply  (refinement RpcSpec)
    Programmers, Terminal

Two assumptions made in one module are the results of another. GdbServer takes a
request as one action, and FlashWriter's memory access is one step: RspFraming's
`RpcSpec` and DebugModule's `OkIsTrue` and `OnlyAskedWrites` say that this is
what the layers below provide.

All of them assume that the reply an access takes is its own. Session shows how far
that holds (`OwnUntilFailed`): until a register access of the command has failed and
the command has gone on all the same. It may not hold afterwards (finding 5), and
three commands go on: gdbserver, the terminal, and flash after a clean-up whose
result it throws away. If that clean-up's reply was only late, the accesses that
follow take each other's replies, the read-modify-writes of CTLR and the read of the
next partly covered page among them. So where FlashWriter, GdbServer and DebugModule
say "whatever access fails", a failure is any but a reply that comes after its
timeout. The read-back of a flash command has replies of its own even then.

### FlashWriter and PageStore

`pc` is the C function that runs, `step` the register access it is at, `status`
its local of that name; `page`, `word`, `merged` and `done` are its loop
variables. `erase_page_fast`, `buffer_reset`, `buffer_load` and
`program_page_fast` have one shape (select a mode, give an argument, trigger,
wait, clean up whatever happened), so their accesses are the actions
`SetMode`, `Argument`, `SetTrigger`, `wait_ready`, `Cleanup`, with `Mode(r)`,
`Trigger(r)` and `ClearMask(r)` telling them apart. A read-modify-write of CTLR
is one action; its failing forms cover a failure of the read and of the write.

The controller is translated from the simulator of the repository's tests: a CTLR
write starts whatever its value asks for, programming clears bits and never sets
them, a page buffer is filled word by word, WRPRTERR is sticky. A byte is the set
of its 1 bits, so an erased byte is `Bits` and programming is intersection.
`busy` ends by itself (`ControllerIdle`) or not at all. `TargetReset` is a power
cycle between two runs of the tool.

`before`, `stale`, `excused` and `bumpy` are observations: flash when the call
began, the page ADDR named then if STRT was set (`clean`: it was not), whether something outside the tool's control
has failed in this call, and whether an access failed with the link staying up, so
that a clean-up whose result is thrown away may have been lost. No action of the
tool reads them.

PageStore is what a caller is promised: the pages of the call are replaced one
after the other, each only by erasing it and programming it with the image over
what it held; an error leaves the pages behind `at` new and those ahead old, and
success comes behind the last page. The refinement mapping gives `at` the loop's
page and `sound` the condition `clean /\ ~bumpy`; outside it PageStore allows
anything to the pages until the call returns, and only `ImageWritten` and
`Confined` hold. A clean-up that is lost while the link stays up is such a case: what
notices it is the read-back.

### DebugModule and GdbData

An operation of `dm.c`, or a handler of `gdb_server.c`, is a sequence of calls
(`Calls`: a block is the bytes up to a word, the words, the rest), and a call a
straight sequence of DMI accesses (`Script`, put together by `dm_load_program`,
`dm_command_in/out` and `dm_run` as in the C code), abandoned at the first failure.
`nth` and `ip` walk them. The module side runs a command by itself (`Execute`),
refuses register writes while it does, latches the first error, and repeats the
last command when auto-execution is on. Words are made of four bytes, as in the code,
so that byte order and the seams of a block show; how many values a byte has
(`Base`) is a parameter. Misaligned words raise an exception and
memory that does not answer a bus error, as a core does; the repository's
simulator has neither.

GdbData adds the requests: `OpOf` is what the handlers make of the packet,
`Reply` what they answer. Texts are sequences of bytes (two digits each), and
`parse_argument` is what `parse_hex_u32` makes of a number with `0x` in front.

### GdbServer

A packet is one action of the server up to the point where it waits: `Continue`
and `gdb_step` end in a wait that other actions finish, so that the core, an
interrupt and a disconnect can come in between. `slots` is the breakpoint table;
memory is a function of halfwords to what matters of their contents. `wanted` is
what memory should hold, breakpoints aside.

`gdb_mem_patch` makes one step of a whole page write. What it keeps of the flash
controller is what a later patch can meet: the sticky error (`refused`), a BUF_RST
that was not cleared, which makes CTLR writes reset the buffer and do nothing else
(`bufrst`), and the page an erase would hit because STRT was not cleared either
(`pending`). The four routines throw the result of their clean-ups away and a patch is
not read back, so with a failed access it may return WL_OK with its page spoiled, or
leave `bufrst` or `pending` to the next one. The failing outcomes are those of any
number of failed accesses and cover a controller that stays busy; that there is nothing beyond the
patch's own page and the one STRT was left set for is FlashWriter's `Confined`, and
that a patch without failures writes what it should, or explains why not, its
`ImageWritten` and `FailureExplained`.

The first state is what an earlier run of any command may have left, STRT set for any
page included.

`faults` counts accesses that fail and, with the same budget, things GDB does not
do by itself (the same breakpoint twice, a store to flash with M, `monitor resume`)
and a controller or a step bit that an earlier run left behind.
`Sigpipe` is the death of the server at a write to a connection the client has
reset.

### RspFraming and RequestReply

The two byte streams between client and server as sequences of packets and single
bytes. All three readers of the server (`gdb_recv_packet`, the acknowledgement loop
of `gdb_send_packet`, `gdb_wait_for_stop`) consume the same stream, and the module
is about what each does with what was meant for another. The client follows GDB's
`putpkt` and `getpkt`, and reads `target.xml` piece by piece (`gdb_qxfer_reply`).
RequestReply is the channel this amounts to: a request is handled once, in order,
and the next one follows its answer. `handled` is mapped to the number in the
packet the server is about to send or sent last.

### Session

Every command of `main.c` is a plan, a sequence of stages (`detect`, `select`,
`halt`, `work`, `close`, ...), each a list of requests of `linke.c`, abandoned at
the first that fails; `AfterFailure` is where each early return goes. The page
routines of a flash write are the stages `work` and `cleanup`: the clean-up follows
whether the work failed or not, and when it fails itself the command goes on as if it
had not. `missed` remembers that a register access of this command failed. A request is
two transfers (`Request`, `Collect`), between which the programmer (`Serve`) looks
at it, or does not. `inbox` and `outbox` are the two endpoints' buffers: a reply
that was not collected in time stays, and the programmer takes no other request
until it has been. What is checked of a reply is `Accepts`. The programmer is
translated from the simulator of the tests, with its option to answer a second
attach with no chip id (`FailAttach`). The tool may be killed anywhere, the
programmer may hang or be replugged between commands, and the state it keeps is
met by the next command.

### Terminal

DATA0 and DATA1 between `cmd_terminal`'s loop (`PollData0`, `PollData1`,
`AckData1`, `AckData0`, `Emit`) and firmware that places packets of one to seven
bytes in either of the two shapes the code understands, or a reply with none.
Bytes are numbered so that loss, repetition and mixing show.

### Programmers

The bus as libusb lists it, with a fresh address for every enumeration, and a
call of `wl_programmer_find`, `..._switch_rv`, `..._eject_iap` or
`wl_linke_open`: `Scan`, `Boot`, rounds of `wait_for_mode`, `wl_usb_open`. The
bench (`Enumerate`, `Unplug`, `ChangeAccess`) may act between any two of them.

## 3. Runs

| Run | Instance | Shows |
|---|---|---|
| `FlashWriter` | 4 pages of 4 bytes, 2-byte words, page 3 protected; every start and length in the other three with and without read-back, 5 writes that follow each other in pairs, 4 refused calls; 2 failed accesses or lost links; `Confined` in every call | `ImageWritten`, `Confined`, `FailureExplained`, `CallReturns`, `StoreSpec` |
| `FlashWriterStaleStart` | two calls, one lost link, no page protected | **violated**: `SuccessKeepsRest` (finding 1) |
| `GdbData` | two 4-byte words, x8, x9, x10, pc; blocks of every start and length, g, p, P, M, monitor, halfwords and words in pairs; 2 failed DMI accesses, 1 command given up on, auto-execution possibly left on | `OkIsTrue`, `OnlyAskedWrites`, `FailureExplained`, `AnswerIsTrue`, `OperationReturns` |
| `GdbDataRegisters` | one operation, nothing fails | **violated**: `RegistersKept` (finding 2) |
| `GdbDataMonitor` | monitor commands, with and without `0x` | **violated**: `MonitorReachesAddress` (finding 3) |
| `GdbServer` | 2 flash pages of 2 halfwords, a halfword of RAM, 2 slots; breakpoints of both lengths, aligned and not, in one page (`Places`), one in the other, one in RAM; one failed access, one thing GDB does not do or one thing an earlier run left behind, at any moment | `MemoryMatchesTable`, `StopReportIsTrue`, `ContinueIsArmed`, `DamageConfined`, `StopReported`, `SessionEnds` |
| `Terminal` | 8 bytes in packets of any size, both shapes, 3 kinds of reply, two failed accesses, a signal at any moment | `ExactlyOnce`, `NothingLost`, `RegistersReturned` |
| `Programmers` | 3 programmers, a scan that lists 2, two polls, one failed call, one cable or permission event | `OpenedIsWanted`, `ReadyIsUsed`, `OnlyWantedRebooted`, `CallReturns` |
| `ProgrammersPickUp` | 2 programmers, `open` | **violated**: `OnlySwitchedPickedUp` (finding 4) |
| `RspFraming` | 4 requests, packets of 4095 and 4096 bytes, a document read in halves, in thirds or at once, 2 packets of output each, 4 repeats, 2 interrupts | `DocumentIsWhole`, `RequestAnswered`, `RpcSpec` |
| `Session` | 3 commands out of 15 command lines, a table of two parts of which one cannot be flashed, those two and an unknown part connected; 2 late, lost or missing replies or kills | `StatusIsTrue`, `IdentifySucceeds`, `Released`, `CorePreserved`, `ChipIsReal`, `OwnUntilFailed`, `CommandReturns` |
| `SessionLateReply` | one command, one late reply | **violated**: `RegisterReadIsTrue` (finding 5) |

Every passing run also checks its module's `TypeOK`. The largest are GdbServer
(1,173,580 states), Session (1,067,339) and FlashWriter (823,527), about two minutes
each.

**What the properties say.**

* *FlashWriter.* `ImageWritten`: WL_OK means the image is in flash, from whatever
  state an interrupted call left the controller in. `Confined`: whatever fails, no
  page is touched outside the image and, in a call that found STRT set, the page ADDR
  named; what the call leaves in its turn is aimed at these pages. `FailureExplained`: the sequence is one the
  controller accepts. `StoreSpec`: above.
* *GdbData.* `OkIsTrue`: WL_OK means that memory or registers hold what was written
  or that what was read is what they hold, whatever earlier operations left behind.
  `OnlyAskedWrites`: nothing else changes a stopped core's memory or its registers,
  x8 and x9 aside. `FailureExplained`: while no access fails, no block is read with an access the
  core rejects, and no command fails for the previous one's sake. (What a clearing of
  the error that failed leads to is a matter of `OkIsTrue`.) `AnswerIsTrue`: what
  the client reads in a reply is what the target holds.
* *GdbServer.* `MemoryMatchesTable`: memory is the program with the table's
  breakpoints in it, and the program alone once the session has closed.
  `DamageConfined`: with failed accesses, clean-ups included, or an odd client, only RAM
  a breakpoint was asked for in, flash pages of breakpoints and the page STRT had been
  left set for suffer. `StopReportIsTrue`,
  `StopReported`: a client that waits is told of a stop, and only of a real one.
  `ContinueIsArmed`: no stale step bit and no missing ebreak enable. `SessionEnds`:
  the server does not outlive its client, unless the program never stops.
* *RspFraming.* `RpcSpec`: above. `DocumentIsWhole`: a document is complete exactly
  when the client has been told so. `RequestAnswered`: nobody waits for ever.
* *Session.* `StatusIsTrue`: "halted", "resumed", "reset" and "flashed" are true when
  said, but for a halt or a reset by a programmer whose interface nothing has set and
  a flash in which a transfer failed. `IdentifySucceeds`: the retry finds the part although an earlier command left
  the programmer attached. `Released`: every return path lets go of the target.
  `CorePreserved`: the commands that look at a halted core do not let it run.
  `ChipIsReal`: no reply out of turn names a part. `OwnUntilFailed`: until a register
  access of its own has failed and it has gone on, no command takes another request's
  reply for a register, and the read-back of a flash command never does.
  `CommandReturns`: no command hangs, whatever the programmer does.
* *Terminal*: no byte is lost, and none is repeated unless an access failed.
  *Programmers*: only what was asked for is opened or rebooted.

**Why the bounds are enough.** Three unprotected pages give a page before, at and
after the one a call works on, a fourth is refused; two words a page tell the buffer
from its first word; two bits a byte tell erased, programmed and over-programmed
apart. Two calls are what it takes for one to meet what another left behind, and a
second fault lets the clean-up fail as well as the access it follows; the same holds
of GdbData's operations. Words of four bytes in a memory of two have every head and
tail a block can have. Two breakpoint slots fill up and leave a third request
refused; two pages separate damage to a breakpoint's page from damage elsewhere, and
as they are alike one of them gets every kind of breakpoint and the other the short
one. One failed access is enough for a patch to leave STRT or BUF_RST to the next,
and for a session to begin with what an earlier run left. RAM is one halfword, so 4-byte
breakpoints are in flash only. Eight bytes are one more
than a packet of the terminal holds. Three programmers are one more than the scan
lists, standing for `WL_MAX_LINKS`. Three commands let one leave an answer or an
attached programmer, a second move things on and a third meet the result. Four
requests and four repeats leave a repeat over from each request for the next. Sizes
are scaled: pages of 64 or 256 bytes, polls of 2000 rounds and 8 slots are not
compared with anything but themselves.

**Fairness.** Only what the code or the hardware does by itself is fair. The tool,
and the server, is one thread whose loops are all bounded and whose transfers all
have a timeout: `WF(Tool)`, `WF(Serve)`, restricted to steps in which no further
access fails (`UNCHANGED faults`), so that progress never rests on a failure that
happens to break a wait. In Session a timeout at a programmer that has hung costs no
fault, for it is certain to come; a live programmer answers: `WF(Serve)`. A debug
module completes a command it started: `WF(Execute)`. A core that is stepped or
asked to halt stops: `WF(CoreStops)`. Firmware that has written DATA1 goes on to
write DATA0: `WF(PlaceData0)`. A GDB that waits reads what arrives: `WF(Listen)`. In
RspFraming a program that runs stops sooner or later (its stop is part of
`WF(Serve)`); without that a `c` has no answer to wait for. Nothing is assumed of the
flash controller, the bench, a user or a client that has nothing to wait for.

**Deadlock** is not checked for GdbServer, RspFraming, Terminal and Programmers: a
session that was closed, a client with nothing to ask, a terminal that was stopped
and a quiet bench may stop for good. That the tool does not is `SessionEnds`,
`StopReported`, `RequestAnswered`, `RegistersReturned` and `CallReturns`.

## 4. Findings

1. **A stale STRT erases a page that was not read** (`flash_ch32v0.c:161`). A call
   that loses the link at the trigger of `program_page_fast` leaves STRT, PAGE_PG
   and ADDR as they are, for the clean-up cannot be made either. The next call sets
   PAGE_ER by a read-modify-write that keeps STRT, which starts an erase at the
   page ADDR still names. In the counterexample that is the second of the two pages
   the new call covers in part: it is merged later from erased contents, and the
   call returns WL_OK. "flashing a few bytes at an offset does not wipe the rest of
   the page" (`flash_ch32v0.c:276-277`). `StoreSpec` covers calls that start with STRT
   clear; `ImageWritten` and `Confined` cover all, the latter with this page excepted.
2. **A memory access changes x8 and x9** of the stopped program (`dm.c:293`), while
   the tool speaks of preserving state (`main.c:101-102`, `main.c:1405`).
3. **`monitor read32 0x40021018` reads address 0** (`gdb_server.c:750`):
   `parse_hex_u32` stops at the `x` and accepts the `0`. It is the README's example
   (`README.md:111-112`); `write32` stores 0 at address 0 and reports success.
4. **Without a serial number the wait after a mode switch takes any programmer** in
   RISC-V mode (`usb_link.c:98`, against the comment at 72-73).
5. **A late register reply answers the next register access** (`linke.c:481`). No byte
   of it that says which register it is of is compared, so in a command that goes on
   after a failure (gdbserver, the terminal's hand-back, the clean-up of a flash
   routine and all that follows it, for its failure is not looked at) every later access
   is one reply behind. "Send one request and collect
   its reply." (`transport.h:39`)

Differences between text and code met while modelling and not checked by a run:

* M to a flash address is acknowledged and dropped (`gdb_server.c:1181`), and the
  error flag it raises makes later flash breakpoints fail.
* P parses its value with the highest byte first (`gdb_server.c:1088`), while g and p
  answer with the lowest first.
* SIGPIPE is not ignored: a client that resets the connection can end the server with
  its breakpoints in the target (`gdb_server.c:68`). `SessionEnds` allows for it.
* After `k` or a disconnect the core stays halted by DMCONTROL although
  `linke.h:138` says that `wl_linke_close` "releases the target so it runs again".
* `--no-verify` prints "now holds the image" (`main.c:530`) also when a failed
  clean-up whose result was thrown away spoiled it; with read-back it cannot
  (`ImageWritten`).
* `linke.h:112-113` promises `WL_ERR_NO_DEVICE` when no programmer matches; a serial
  number that does not match gives `WL_ERR_ACCESS`.
* `gdb_send_packet` repeats for as long as it is asked to, against "Retry once."
  (`gdb_server.c:227`).
* The reply to `qSupported` offers 4096-byte packets (`gdb_server.c:1192`), of which
  the buffer keeps 4095 bytes (274): the longest packet is answered `-` and ends
  the session. `RequestAnswered` holds because the client is told.
* `qSupported` is compared as a whole (`gdb_server.c:1191`), so a client that
  appends its features gets the empty reply.
* The checksum at `gdb_server.c:200` is taken over the payload before escaping; no
  reply contains a byte that is escaped.
* `unbrick` warns that flash is cleared and only resets (`linke.c:231-236`).

## 5. Proofs

Eight modules hold proofs, each about the component it extends: for every value of its
constants (sizes, tables, calls, command lines, and every number of faults, events
and repetitions), from the named assumptions of that component's module and nothing
else. Each theorem below states a property that a run checks on a small instance,
and each inductive invariant was checked by TLC on that instance before it was
proved. A proof that an invariant is kept has one step, or one lemma, per action.

| Module | Theorems |
|---|---|
| `FlashWriterProofs` | `TypeCorrect` (`TypeOK`), `WriteIsConfined` (`Confined`) |
| `FlashImageProofs` | `ImageIsWritten` (`ImageWritten`), `WriterImplementsStore` (`StoreSpec`), `FailuresExplained` (`FailureExplained`) |
| `GdbServerProofs` | `TypeCorrect`, `StopReports` (`StopReportIsTrue`), `ContinueArms` (`ContinueIsArmed`), `MemoryAndTable` (`MemoryMatchesTable`), `DamageIsConfined` (`DamageConfined`) |
| `ProgrammersProofs` | `TypeCorrect`, `OpenedWanted` (`OpenedIsWanted`), `RebootedWanted` (`OnlyWantedRebooted`), `ReadyUsed` (`ReadyIsUsed`) |
| `TerminalProofs` | `TypeCorrect`, `PrintedOnce` (`ExactlyOnce`), `NothingIsLost` (`NothingLost`) |
| `SessionProofs` | `TypeCorrect`, `ChipReal` (`ChipIsReal`), `TargetReleased` (`Released`), `StatusTrue` (`StatusIsTrue`), `IdentifyWorks` (`IdentifySucceeds`), `CoreKept` (`CorePreserved`), `OwnReplies` (`OwnUntilFailed`) |
| `RspFramingProofs` | `TypeCorrect`, `DocumentWhole` (`DocumentIsWhole`), `FramingImplementsRpc` (`RpcSpec`) |
| `GdbDataProofs` | `TypeCorrect` (`TypeOK`), `OnlyAsked` (`OnlyAskedWrites`), `FailuresExplained` (`FailureExplained`), `OkTrue` (`OkIsTrue`), `AnswerTrue` (`AnswerIsTrue`) |

**FlashWriter: where it writes.** `TypeOK` is not inductive alone: ADDR is assigned
`page`, which is only a natural number by its type. `InPart` says that the loop
variable names a page of the part wherever it may be written to ADDR; that follows
from the range check in `wl_flash_write` and the loop condition. What a CTLR write
erases or programs is the page in ADDR, so `Confined` needs to know what ADDR holds
while STRT is set or about to be. `Confined` itself says the first: STRT is set only
while ADDR names a page of the call or the one it named when the call found STRT set
(an abandoned clean-up included, since nothing but the call's own routines writes
ADDR). `Aimed` says the second: at the trigger step of erase and program ADDR is the
page of the loop. `CInv == TypeOK /\ InPart /\ Aimed /\ Confined`.

**FlashWriter: what it writes.** `ImageInv` adds to `CInv`: `Flow` (a routine has an
error only on its way to the clean-up), `Control` (which CTLR bits can still be set
at each step; what an interrupted call left is gone after the first erase and buffer
reset), `Buffer` (how far the page buffer agrees with `merged`, and that it is in
flash once the page is programmed), `MergedImage`, `Behind` (the pages before `page`
hold the image), `Final` and `ReadBack` (the verifying loop has compared a prefix of
the image, whatever failed before). `ImageIsWritten` covers calls that start with any
controller state, STRT included. For the refinement `StoreInv` adds `Ahead` (the
pages from `page` on are as they were when the call began) and `MergedGoal` (`merged`
is PageStore's overlay); `StoreStep` then maps every action to one step of PageStore
or to a stutter. `FailuresExplained` rests on `Smooth`: as long as nothing excuses
the call, CTLR is exactly what the step needs, the keys were accepted in order, and
the page is blank until it is programmed, so that the controller has no reason to
complain.

**GdbServer.** `TypeInv` strengthens `TypeOK` with the shape of a slot: as many saved
halfwords as the breakpoint covers, all inside memory. `RunInv`: while nothing has
failed, the core is halted whenever the server may take a request, the step bit is
set only during a step, and ebreak is enabled before the core is let go. `TableInv`
(`InStep`): while nothing has failed, breakpoints in the table do not overlap, each
holds its opcode in memory and the program's halfwords in its slot, and memory is the
program everywhere else. `DamageInv` holds whatever fails: what a slot could touch
when it is restored is part of what was touched when it was set, and so is the page
`pending` names, whichever patch or earlier run left it. `PatchConfined` is the lemma
about a patch: it changes what it covers, its page and the pending one, and leaves one
of these pending.

**Programmers.** `BusInv`: every attached programmer has an address of its own below
the next one to be given out (`Unique`, `Addressed`), and whatever has the address a
call has settled on is what the scan saw there (`Settled`), because an address that
is gone does not come back. `ReadyInv` adds that a programmer which was ready when
the call began and stays attached keeps the call from rebooting another (`Steady`,
`Present`, `Unbooted`). `OnlyWantedRebooted` is an action property, proved from
`BusInv`.

**Terminal.** `PacketInv`: whose turn it is to touch the two registers (`Turns`), and
that what is in them is the next packet (`Lower`, `Placing`). `ExactInv` says for a
loop without failures which prefix of the output has been printed at each step.
`KeptInv` holds with failures: a packet whose DATA1 has been given back has been
printed or is about to be, and no byte is printed before the bytes in front of it.

**Session.** `TransferInv` is what all its theorems rest on: the plan that is left is
one of the command that runs (`Plans`; `Following` and `Usual` say which stages a
command has and what may come after each), the message awaited is the request the
stage is at, and is either still in the box or answered by what is in the other
(`Awaited`). The remaining invariants are about the programmer as it will be once it
has looked at its box (`IfaceSoon`, `AttachedSoon`, `DmhaltSoon`, `ResetsSoon`): this
changes only when a request goes out, and not when the programmer gets round to it,
so that each says "once this request has gone out" instead of following the reply
through every delay. `ReleasedInv`: once the release of the last stage is out, the
target is let go. `HaltInv` and `ResumeInv`: while nothing was reported, a core whose
attach is out is held, a reset was made while attached, and a core whose release is
out runs. `ChipInv`: a reply that lies in front of the attach of a detection carries
no chip id, or this part's. `InSync` and `IdentifyInv`: a command that began with
empty boxes meets only its own replies, sets the interface first and lets go before
it attaches again. `CoreInv`: a core that was stopped is, and nothing that lets it run
is under way. `OwnInv`: as long as no register
access has failed, and in the read-back always, what can lie in front of a register
access is a reply of another length; for a register access follows one that was
answered or, at the start of a stage, a request of another kind (`RegisterFrom`), and
the read-back begins with an attach, which does not accept a late register reply.
`StatusTrue` also needs `ClearingInv`: a clean-up after which the command ends belongs
to a routine that failed, and the status says so.

**RspFraming.** `FrameInv`, for any number of repeats in flight: no packet in a stream
is of a later request than the one the server handled last, and what it may repeat is
of exactly that one (`Numbered`); whose turn it is (`Turns`); at most one request is
in the stream and it has not been handled (`Pending`); behind a `+` or `-` that
answers a request's own packet there is nothing older than that request (`Marks`);
until its last packet is sent no reply to the request is in the stream
(`Outstanding`); and every copy of a reply the client may still take carries the
document on from where the client is (`Document`). The refinement maps reading a
request to `Handle` or `Refuse`, taking the reply to `Answer` and all repeats,
acknowledgements and interrupts to stutters. `Repeats` is what bounds `resends`: the
repeats asked for can be numbered so that those made come before those under way,
which says without counting that each `-` is served once. That a packet holds at
least one byte of the document, which `FramingAssumption` implies, is what keeps the
transfer from standing still.

**GdbData.** Two lemmas say what the code's sequences are: `CallsAre` (the calls of an
operation are parts of it: each store is of bytes it is to write, and where it answers
each access is in memory and aligned, for which `BlockCalls` shows how
`wl_dm_read_block` cuts a block) and `AtIs` (the access at each place of a call).
`DmInv` has two halves. `Harmless` holds whatever failed: a command that is being
executed, though its operation may be long gone, writes a register with what was asked
for, or stores asked bytes from DATA0 at x9. It is kept because a busy module refuses
every write and remembers the refusal, so that nothing starts until the error is
cleared, and because of `Progress`: as long as no error is remembered, every access of
the call so far has taken effect, so that the program buffer, x9 and DATA0 are of this
call when the program is started. `Leftover` is why another debugger's
auto-execution does not break it: a memory access turns it off first. `Clean` says
that without failures one call leaves the module idle and without an error for the
next, and that an error is met only while waiting for a program whose access the
target does not accept. That the arguments of operations and requests are what a
packet's text can stand for (`OpAssumption`, `RequestAssumption`) is all that is
assumed of the callers.

That WL_OK and the replies are true (`OkIsTrue`, `AnswerIsTrue`) needs what `DmInv`
does not say: the values. `WordIs` and `ByteIs` are about words: the word put together
from four bytes has exactly these bytes, for any number of values of a byte. `CallsOf`
says that the calls of an operation follow each other through memory, so that no store
undoes an earlier one (`Following`). `Data` is the invariant. `Values`: memory,
registers and DATA0 hold bytes and words, and PROGBUF one of the programs of `dm.c`.
`Answered`, `Reached` and `Behind`: there is one word for every earlier call that
reads, the core accepted each earlier call, and while no error is remembered each has
done its work and what it read is still what the target holds. `Current`: what the
call in progress has reached, as a promise about DATA0 and the command that runs while
the module is busy and about memory and registers when it is not. It says nothing once
an error is remembered, and needs not: `Settled` says that DATA0 is fetched only after
a command that completed without one, and the last access of any call fetches DATA0 or
waits for its command, so the error is met before WL_OK is returned. `Requested`: the
operation that runs is the one its packet asks for, which carries the result over to
the reply. At the last step every call is `Behind` (`Succeeding`), and `AllIsDone` adds
them up; for a block (`BlockDone`), `BlockIs` says which call reads which byte, so that
the three loops of `wl_dm_read_block` fill the buffer without a gap. `Data` with
`Flags` also gives `TypeOK`.

**Only model-checked.** Every safety property of a passing run and both refinements are
proved. Liveness (`CallReturns`, `OperationReturns`, `StopReported`, `SessionEnds`,
`RegistersReturned`, `RequestAnswered`, `CommandReturns`) is out of the prover's reach
under fairness and stays with TLC.

## 6. Assumptions and what is left out

* Every enumeration gives an address not used before. Linux reuses them after
  wrapping round; a reuse inside one call takes over a hundred enumerations.
* The GDB client does not write memory where its own breakpoints are (GDB shadows
  them) and does not resend a request because an acknowledgement is late.
* A register access as the first thing after another debugger left auto-execution
  on is excluded in DebugModule (`Begin`): only `dm_load_program` turns it off, and
  what the other debugger's command would do is unknown. It is listed as a hazard.
* That both `haltreq` writes of `monitor reset` are lost is left out of GdbServer.
* Session stands for the accesses of a flash write, a read or a debug command by two
  register requests, and bounds those of an interactive command; what they do is the
  other modules' subject. Two page routines stand for the many of a write: a clean-up
  that fails is followed by another routine, by the read-back or by the end. The link's
  cache of the interface setting is not a variable: the one request that would be made
  twice in a command, by the read-back of flash, finds it set and is left out. That a
  register reply may report an error is left out as well; it would fail the access as
  a reply of another length does.
* GdbServer has no write-protected pages; FlashWriter has.
* No property covers what the other debugger's auto-execution does to the first access
  after it (the hazard named above), or catches a clean-up that was lost in a flash write
  without read-back: nothing in the code does either.
* Not modelled, for they keep no state, are constant data or print what is modelled:
  option parsing, file reading and writing, progress output, logging; the text of
  `target.xml` and of the memory map and the fixed answers to queries; the entries
  of the chip table and the matching of names; `monitor getcsr`, `setcsr`, `regs`,
  `info` and `help`; requests that do not parse; the bulk payload transfer and the
  instruction encoders nothing calls; the build files.

## 7. Plan

1. *(done)* FlashWriter, DebugModule, GdbServer, Terminal, Programmers, RspFraming,
   and the first theorems.
2. *(done)* Session over the USB transport; GdbData over a DebugModule with bytes,
   blocks and all registers; PageStore and RequestReply with the refinements that
   reach them; the document transfer; the end of a server whose client is gone.
3. *(done)* Proofs about FlashWriter with its implementation of PageStore, GdbServer,
   Programmers, Terminal, Session and RspFraming with its implementation of
   RequestReply: all their safety properties (section 5).
4. *(done)* Proofs about DebugModule under GdbData: `TypeOK`, `OnlyAskedWrites`,
   `FailureExplained`, `OkIsTrue`, `AnswerIsTrue`.

## 8. Running

    tlc -config FlashWriter.cfg MCFlashWriter
    tlapm FlashWriterProofs.tla

and likewise for the other configurations, whose module `PROJECT.json` names, and for
the other proof modules. Each run takes from a few seconds to two and a half minutes,
each proof module from seconds to a few minutes.
