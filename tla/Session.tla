------------------------------ MODULE Session ------------------------------
(***************************************************************************)
(* The commands of main.c as sequences of requests to the programmer       *)
(* (linke.c), each an OUT and an IN transfer with a timeout (usb.c), run   *)
(* one after another against a programmer that keeps its state, and        *)
(* perhaps an answer nobody collected, between them.                       *)
(*                                                                         *)
(* A command is a plan: the stages still to go, the current one first.  A  *)
(* stage is a list of requests, abandoned at the first that fails.  What   *)
(* happens inside the debug module is DebugModule's subject and inside the *)
(* flash controller FlashWriter's; here their accesses are a few register  *)
(* requests.  Finding and opening the programmer is Programmers' subject.  *)
(***************************************************************************)
EXTENDS Integers, Sequences

CONSTANTS
  Chips,       \* the chip table: [family, model, flash] each
  Parts,       \* what may be connected: the [family, model] it reports
  Version,     \* the version reply, and the bytes past the end of a short one,
               \* read as if they were a [family, model]
  FailAttach,  \* firmware that answers an attach while attached with no id
  CommandSet,  \* the command lines given
  MaxFaults,   \* bound: timeouts of a live programmer, lost requests, kills
  MaxCommands, \* bound: runs of the tool
  MaxAccesses  \* bound: accesses of an interactive command

NoChip == [family |-> -1, model |-> -1, flash |-> FALSE]
Generic == [family |-> 1, model |-> -1, flash |-> FALSE]

\* The commands that look at a halted core and leave it halted, those that go
\* on until they are told to stop, and the others that use the target.
DebugCommands == {"pc", "regs", "read32", "write32"}
Interactive == {"terminal", "gdbserver"}
ResetCommands == {"reset", "unbrick", "target_reset"}
Names == {"info", "flash", "read", "halt", "resume", "version"}
         \cup DebugCommands \cup Interactive \cup ResetCommands

\* chip is --chip, NoChip if it is not given; fits is wl_flash_range_ok.
Command == [name: Names, chip: Chips \cup {NoChip}, verify: BOOLEAN, fits: BOOLEAN]

ASSUME SessionAssumption ==
  /\ \A c \in Chips : c.family \in Nat /\ c.model \in Nat /\ c.flash \in BOOLEAN
  /\ \A p \in Parts \cup {Version} : p.family \in Nat /\ p.model \in Nat
  /\ FailAttach \in BOOLEAN
  /\ {MaxFaults, MaxCommands, MaxAccesses} \subseteq Nat

\* main and open_target_debug: the commands that keep the state of the core and
\* gdbserver insist on --chip; info with --chip opens nothing.
ASSUME CommandAssumption ==
  /\ CommandSet \subseteq Command
  /\ \A c \in CommandSet :
       /\ c.name \in DebugCommands \cup {"gdbserver"} => c.chip # NoChip
       /\ c.name = "info" => c.chip = NoChip

VARIABLES
  \* the programmer and the target behind it
  iface,      \* the part it has been set to, NoChip at power-up
  attached,   \* it holds the core
  dmhalt,     \* the core was stopped through DMCONTROL
  part,       \* the part that is connected
  alive,      \* it still answers
  inbox, outbox,  \* a request it has not looked at, a reply not collected
  \* the tool
  cmd, plan, at,  \* the command, its remaining stages, the next request
  sent,       \* the request whose reply is awaited, or None
  tag,        \* tells a request from the one before it
  chip, status,
  naccess,
  \* bounds and observations
  faults, ncommands,
  held,       \* "yes": stopped when the command began and since; "no": not
              \* stopped then; "let_go": stopped then, and has run since
  synced,     \* no reply was left over when the command began
  lost,       \* a request of this command did not go out
  failed,     \* a transfer of this command failed
  missed,     \* so did a register access, or its reply was not accepted
  resets      \* the target was reset during this command

programmer == <<iface, attached, dmhalt, part, alive>>
boxes == <<inbox, outbox>>
tool == <<cmd, plan, at, sent, tag, chip, status, naccess>>
seen == <<held, synced, lost, failed, missed, resets>>
vars == <<programmer, boxes, tool, faults, ncommands, seen>>

None == [cmd |-> "none", arg |-> NoChip, tag |-> 0, len |-> 0]
NoCommand == [name |-> "info", chip |-> NoChip, verify |-> FALSE, fits |-> FALSE]
Accesses == {"data", "status", "ack", "haltreq", "resumereq"}
Idle == plan = <<>>
Stage == Head(plan)
Halted == attached \/ dmhalt

---------------------------------------------------------------------------
(* Plans *)

Ask(c, a) == [cmd |-> c, arg |-> a]
Attach == Ask("attach", NoChip)
Release == Ask("release", NoChip)
Run == Ask("run", NoChip)

\* identify_chip_once selects the generic interface first.
IdentifyOnce == <<Ask("iface", Generic), Attach>>

\* Mutant: the retry attaches again instead of letting go of the target.
Retry_Attaches == <<Attach, Attach>> \o IdentifyOnce

Retry == <<Run, Release>> \o IdentifyOnce

\* A few debug-module accesses, abandoned at the first failure.
Work == <<Ask("reg", "status"), Ask("reg", "data")>>

\* Leave reset, attach, release.
wl_linke_resume == <<Run, Attach, Release>>

Requests(s) ==
  CASE s = "detect" -> IdentifyOnce
    [] s = "again" -> Retry
    [] s = "select" -> <<Ask("iface", chip)>>
    [] s = "halt" -> <<Attach>>
    [] s = "reset" -> <<Ask("reset_low", NoChip)>>
    [] s = "resume" -> wl_linke_resume
    [] s = "setup" -> <<Ask("reg", "haltreq"), Ask("reg", "status"), Ask("reg", "data")>>
    [] s \in {"work", "cleanup"} -> Work
    [] s = "verify" -> <<Attach>> \o Work
    [] s = "version" -> <<Ask("status", NoChip)>>
    [] s = "close" -> <<Release>>

\* The requests whose failure is not looked at.
Ignored(s, i) == s \in {"setup", "close"} \/ (s = "again" /\ i <= 2)

\* The stages of each command.
Detecting(c) == IF c.chip = NoChip THEN <<"detect">> ELSE <<>>
\* A routine of the flash writer clears CTLR before it returns, also when all
\* went well.  Two routines stand for the many of a write: a clean-up that fails
\* is followed by another routine, by the read-back or by the end.
Routine == <<"work", "cleanup">>
\* The read-back finds the interface selected already and halts the core again.
wl_linke_write_flash(c) ==
  <<"select", "halt">> \o Routine \o Routine
  \o (IF c.verify THEN <<"verify">> ELSE <<>>) \o <<"resume">>
wl_linke_read_memory == <<"select", "halt", "work">>
wl_linke_reset == <<"halt", "reset", "resume">>
open_target_debug == <<"select", "halt">>

cmd_info == <<"detect", "close">>
cmd_flash(c) == Detecting(c) \o <<"check">> \o wl_linke_write_flash(c) \o <<"close">>
cmd_read(c) == Detecting(c) \o wl_linke_read_memory \o <<"close">>
cmd_reset == wl_linke_reset \o <<"close">>
cmd_target_halt == <<"halt", "keep">>
cmd_target_resume == <<"resume", "close">>
cmd_target_debug == open_target_debug \o <<"work", "keep">>
cmd_terminal(c) ==
  Detecting(c) \o <<"select">>
  \o (IF c.chip = NoChip THEN <<"resume">> ELSE <<>>) \o <<"loop", "close">>
wl_gdb_server_run == <<"select", "halt", "setup", "loop", "close">>
print_programmer_version == <<"version", "keep">>

\* Mutants: the debug commands detect the part; a reset without an attach.
Plan_Detects(c) ==
  IF c.name \in DebugCommands THEN <<"detect">> \o cmd_target_debug ELSE <<"close">>
Plan_ResetOnly(c) ==
  IF c.name \in ResetCommands THEN Tail(cmd_reset) ELSE <<"halt", "keep">>

Plan(c) ==
  CASE c.name = "info" -> cmd_info
    [] c.name = "flash" -> cmd_flash(c)
    [] c.name = "read" -> cmd_read(c)
    [] c.name \in ResetCommands -> cmd_reset
    [] c.name = "halt" -> cmd_target_halt
    [] c.name = "resume" -> cmd_target_resume
    [] c.name \in DebugCommands -> cmd_target_debug
    [] c.name = "terminal" -> cmd_terminal(c)
    [] c.name = "gdbserver" -> wl_gdb_server_run
    [] c.name = "version" -> print_programmer_version

\* Mutant: a command that fails returns without closing the link.
AfterFailure_NoClose(s) == IF s = "detect" THEN {<<"again">> \o Tail(plan)} ELSE {<<"keep">>}

\* The stages that follow when stage s fails.  Every early return closes the link;
\* a page routine of the flash writer clears CTLR first, unlocking does not.  A
\* clean-up that fails is not looked at, whether its routine failed or not.
AfterFailure(s) ==
  CASE s = "detect" -> {<<"again">> \o Tail(plan)}
    [] s \in {"verify", "cleanup"} -> {Tail(plan)}
    [] s = "work" /\ cmd.name = "flash" -> {<<"close">>, <<"cleanup", "close">>}
    [] s = "work" /\ cmd.name \in DebugCommands -> {<<"keep">>}
    [] s = "version" -> {<<"keep">>}
    [] s = "halt" /\ cmd.name = "halt" -> {<<"keep">>}
    [] OTHER -> {<<"close">>}

\* wl_linke_write_flash throws away what wl_linke_resume returns, a routine what
\* its last access returns, and print_programmer_version only prints.
KeepsStatus(s) == s \in {"cleanup", "version"} \/ (s = "resume" /\ cmd.name = "flash")

---------------------------------------------------------------------------
(* Replies *)

\* Mutant: the reported pair itself, whether or not the table has it.
wl_chip_by_detect_id_Raw(id) == id

\* wl_chip_by_detect_id ignores the low four bits of the model.
Matching(id) ==
  {c \in Chips : c.family = id.family /\ c.model = id.model - (id.model % 16)}
wl_chip_by_detect_id(id) ==
  IF Matching(id) = {} THEN NoChip ELSE CHOOSE c \in Matching(id) : TRUE

\* Mutant: any reply may carry the id.
IsChipId_AnyReply(r) == r.arg \in Parts \cup {Version}

\* identify_chip_once: long enough, and an answer to a control request.
IsChipId(r) == r.len >= 6 /\ r.cmd = "control"

\* Mutant: a register reply of any length will do.
IsRegister_AnyLength(r) == r.cmd # "refused"

\* reg_access compares the length, and reply_ok the header and the status; no
\* other byte is looked at.
IsRegister(r) == r.len = 9

\* Is r an acceptable reply to the request?  send_control looks at nothing.
Accepts(q, s, r) ==
  CASE q.cmd = "iface" -> r.cmd # "refused"
    [] q.cmd = "attach" /\ s \in {"detect", "again"} ->
         IsChipId(r) /\ wl_chip_by_detect_id(r.arg) # NoChip
    [] q.cmd = "reg" -> IsRegister(r)
    [] q.cmd = "status" -> r.len >= 6
    [] OTHER -> TRUE

---------------------------------------------------------------------------
(* The programmer *)

Reply(c, n, a) ==
  outbox' = [cmd |-> c, arg |-> a, tag |-> inbox.tag, len |-> n]

\* It looks at the next request once its last answer has been collected, and
\* needs an interface setting to reach the target.
Serve ==
  /\ alive /\ inbox # None /\ outbox = None /\ inbox' = None
  /\ \/ /\ inbox.cmd = "iface" /\ iface' = inbox.arg
        /\ Reply("iface", 4, Version) /\ UNCHANGED <<attached, dmhalt, resets>>
     \/ /\ inbox.cmd = "attach"
        /\ iface = NoChip \/ (attached /\ FailAttach)
        /\ Reply("control", 4, NoChip) /\ UNCHANGED <<iface, attached, dmhalt, resets>>
     \/ /\ inbox.cmd = "attach"
        /\ iface # NoChip /\ ~(attached /\ FailAttach)
        /\ attached' = TRUE
        /\ Reply("control", 8, part) /\ UNCHANGED <<iface, dmhalt, resets>>
     \/ /\ inbox.cmd = "status"
        /\ Reply("control", 7, Version) /\ UNCHANGED <<iface, attached, dmhalt, resets>>
     \/ /\ inbox.cmd = "reset_low" /\ resets' = (resets \/ attached)
        /\ Reply("control", 4, NoChip) /\ UNCHANGED <<iface, attached, dmhalt>>
     \/ /\ inbox.cmd = "release" /\ attached' = FALSE
        /\ Reply("control", 4, NoChip) /\ UNCHANGED <<iface, dmhalt, resets>>
     \/ /\ inbox.cmd = "run" /\ attached' = FALSE /\ dmhalt' = FALSE
        /\ Reply("run", 3, NoChip) /\ UNCHANGED <<iface, resets>>
     \/ /\ inbox.cmd = "reg" /\ iface = NoChip
        /\ Reply("refused", 4, NoChip) /\ UNCHANGED <<iface, attached, dmhalt, resets>>
     \/ /\ inbox.cmd = "reg" /\ iface # NoChip
        /\ dmhalt' = CASE inbox.arg = "haltreq" -> TRUE
                       [] inbox.arg = "resumereq" -> FALSE
                       [] OTHER -> dmhalt
        /\ Reply("reg", 9, NoChip) /\ UNCHANGED <<iface, attached, resets>>
  /\ held' = IF held = "yes" /\ ~attached' /\ ~dmhalt' THEN "let_go" ELSE held
  /\ UNCHANGED <<part, alive, tool, faults, ncommands, synced, lost, failed, missed>>

\* It stops answering.
Hang ==
  /\ alive /\ alive' = FALSE
  /\ UNCHANGED <<iface, attached, dmhalt, part, boxes, tool, faults, ncommands, seen>>

\* Between two commands it may be replugged, with another part.
Replug ==
  /\ Idle /\ iface' = NoChip /\ attached' = FALSE /\ dmhalt' = FALSE
  /\ part' \in Parts /\ alive' = TRUE /\ inbox' = None /\ outbox' = None
  /\ cmd' = NoCommand /\ status' = "none" /\ chip' = NoChip /\ held' = "no" /\ resets' = FALSE
  /\ UNCHANGED <<plan, at, sent, tag, naccess, faults, ncommands, synced, lost, failed, missed>>

---------------------------------------------------------------------------
(* The tool *)

\* A command starts; it has found and opened the programmer.
Begin(c) ==
  /\ Idle /\ ncommands < MaxCommands
  /\ ncommands' = ncommands + 1
  /\ cmd' = c /\ plan' = Plan(c) /\ at' = 1 /\ naccess' = 0
  /\ chip' = c.chip /\ status' = "ok"
  /\ held' = (IF Halted /\ inbox = None THEN "yes" ELSE "no")
  /\ synced' = (inbox = None /\ outbox = None)
  /\ lost' = FALSE /\ failed' = FALSE /\ missed' = FALSE /\ resets' = FALSE
  /\ UNCHANGED <<programmer, boxes, sent, tag, faults>>

Proceed(p) == plan' = p /\ at' = 1

\* cmd_flash checks the part it has been given, before it opens anything, or the
\* one it has detected.
Refuse == Proceed(IF cmd.chip = NoChip THEN <<"close">> ELSE <<>>)
CheckPart ==
  /\ ~Idle /\ Stage = "check"
  /\ \/ ~chip.flash /\ status' = "not_implemented" /\ Refuse
     \/ chip.flash /\ ~cmd.fits /\ status' = "usage" /\ Refuse
     \/ chip.flash /\ cmd.fits /\ Proceed(Tail(plan)) /\ UNCHANGED status
  /\ UNCHANGED <<programmer, boxes, cmd, sent, tag, chip, naccess, faults, ncommands, seen>>

\* wl_linke_close_keep_target.
KeepTarget ==
  /\ ~Idle /\ Stage = "keep" /\ Proceed(<<>>)
  /\ UNCHANGED <<programmer, boxes, cmd, sent, tag, chip, status, naccess, faults, ncommands, seen>>

\* The request to make: in a loop, whatever the debugger or the target asks for.
LoopAccesses ==
  IF cmd.name = "terminal" THEN {"data", "ack"} ELSE Accesses \ {"ack"}
CurrentRequests ==
  IF Stage = "loop" THEN {Ask("reg", a) : a \in LoopAccesses}
  ELSE {Requests(Stage)[at]}

\* The stage's next request, or the next stage.
Advance ==
  IF Stage = "loop" THEN UNCHANGED <<plan, at, status>>
  ELSE IF at < Len(Requests(Stage)) THEN at' = at + 1 /\ UNCHANGED <<plan, status>>
  ELSE /\ Proceed(Tail(plan))
       /\ status' \in IF Stage = "verify" THEN {"ok", "verify"} ELSE {status}

\* A request failed with s.  gdbserver answers its client and goes on; the
\* terminal stops, unless it was only acknowledging.
Fails(q, s) ==
  IF Ignored(Stage, at) \/ (Stage = "loop" /\ (cmd.name = "gdbserver" \/ q.arg = "ack"))
  THEN Advance
  ELSE /\ plan' \in AfterFailure(Stage)
       /\ at' = 1
       /\ status' = IF KeepsStatus(Stage) \/ Stage = "detect" THEN status ELSE s

\* The programmer takes no request: it hangs, or waits for an answer to be
\* collected while the next request is there already.
Stuck == ~alive \/ (inbox # None /\ outbox # None)

\* usb_transport_command, the OUT transfer: the request goes out, or it is lost
\* or has waited for its timeout behind one the programmer has not looked at.
Request(q) ==
  /\ ~Idle /\ sent = None /\ Stage \notin {"check", "keep"} /\ q \in CurrentRequests
  /\ Stage = "loop" => naccess < MaxAccesses
  /\ naccess' = IF Stage = "loop" THEN naccess + 1 ELSE naccess
  /\ UNCHANGED <<programmer, outbox, cmd, chip, ncommands, held, synced, resets>>
  /\ \/ /\ inbox = None /\ alive
        /\ tag' = 1 - tag
        /\ inbox' = [cmd |-> q.cmd, arg |-> q.arg, tag |-> tag', len |-> 0]
        /\ sent' = inbox'
        /\ UNCHANGED <<plan, at, status, faults, lost, failed, missed>>
     \/ /\ \/ Stuck /\ UNCHANGED faults
           \/ faults < MaxFaults /\ faults' = faults + 1
        /\ Fails(q, "usb") /\ lost' = TRUE /\ failed' = TRUE
        /\ missed' = (missed \/ q.cmd = "reg")
        /\ UNCHANGED <<inbox, sent, tag>>

\* Mutant: the read waits for ever.
Collect_NoTimeout ==
  /\ sent # None
  /\ UNCHANGED <<programmer, inbox, cmd, tag, naccess, faults, ncommands, seen>>
  /\ \/ outbox = None /\ UNCHANGED <<outbox, sent, plan, at, status, chip>>
     \/ /\ outbox # None /\ outbox' = None /\ sent' = None
        /\ IF Accepts(sent, Stage, outbox) THEN Advance ELSE Fails(sent, "target")
        /\ chip' = IF Accepts(sent, Stage, outbox) /\ sent.cmd = "attach"
                      /\ Stage \in {"detect", "again"}
                   THEN wl_chip_by_detect_id(outbox.arg) ELSE chip

\* The IN transfer: the reply that is there, or none within the timeout.
Collect ==
  /\ sent # None /\ sent' = None
  /\ UNCHANGED <<programmer, inbox, cmd, tag, naccess, ncommands>>
  /\ UNCHANGED <<held, synced, lost, resets>>
  /\ \/ /\ outbox # None /\ Accepts(sent, Stage, outbox)
        /\ outbox' = None /\ Advance
        /\ chip' = IF sent.cmd = "attach" /\ Stage \in {"detect", "again"}
                   THEN wl_chip_by_detect_id(outbox.arg) ELSE chip
        /\ UNCHANGED <<faults, failed, missed>>
     \/ /\ outbox # None /\ ~Accepts(sent, Stage, outbox)
        /\ outbox' = None /\ Fails(sent, "target") /\ missed' = (missed \/ sent.cmd = "reg")
        /\ UNCHANGED <<chip, faults, failed>>
     \/ /\ outbox = None
        /\ \/ ~alive /\ UNCHANGED faults
           \/ faults < MaxFaults /\ faults' = faults + 1
        /\ Fails(sent, "usb") /\ failed' = TRUE /\ missed' = (missed \/ sent.cmd = "reg")
        /\ UNCHANGED <<outbox, chip>>

\* Ctrl-C in the terminal; the debugger detaches, kills or goes away.
Stop ==
  /\ ~Idle /\ Stage = "loop" /\ sent = None
  /\ Proceed(Tail(plan))
  /\ UNCHANGED <<programmer, boxes, cmd, sent, tag, chip, status, naccess, faults, ncommands, seen>>

\* A signal nothing has been set up for: the tool dies where it stands.
Killed ==
  /\ ~Idle /\ ~(cmd.name = "terminal" /\ Stage \in {"loop", "close"})
  /\ faults < MaxFaults
  /\ faults' = faults + 1 /\ Proceed(<<>>) /\ sent' = None /\ status' = "killed"
  /\ lost' = TRUE
  /\ UNCHANGED <<programmer, boxes, cmd, tag, chip, naccess, ncommands>>
  /\ UNCHANGED <<held, synced, failed, missed, resets>>

---------------------------------------------------------------------------

Init ==
  /\ iface = NoChip /\ attached = FALSE /\ dmhalt = FALSE /\ alive = TRUE
  /\ part \in Parts /\ inbox = None /\ outbox = None
  /\ cmd = NoCommand /\ plan = <<>> /\ at = 1 /\ sent = None /\ tag = 0
  /\ chip = NoChip /\ status = "none" /\ naccess = 0
  /\ faults = 0 /\ ncommands = 0
  /\ held = "no" /\ synced = TRUE /\ lost = FALSE
  /\ failed = FALSE /\ missed = FALSE /\ resets = FALSE

AllRequests ==
  [cmd: {"iface"}, arg: Chips \cup {Generic}] \cup [cmd: {"reg"}, arg: Accesses]
  \cup {Attach, Release, Run, Ask("reset_low", NoChip), Ask("status", NoChip)}

Transfer == Collect \/ \E q \in AllRequests : Request(q)
Tool == Transfer \/ CheckPart \/ KeepTarget
User == Stop \/ Killed \/ \E c \in CommandSet : Begin(c)
Next == Tool \/ User \/ Serve \/ Hang \/ Replug

\* The tool is one thread whose transfers all have a timeout, and it does not
\* need one to expire to go on while the programmer lives, which always answers.
Spec ==
  /\ Init /\ [][Next]_vars
  /\ WF_vars(Tool /\ UNCHANGED faults) /\ WF_vars(Serve)

---------------------------------------------------------------------------
(* Properties *)

Stages == {"detect", "again", "check", "select", "halt", "reset", "resume", "setup",
           "work", "verify", "cleanup", "version", "loop", "close", "keep"}

TypeOK ==
  /\ iface \in Chips \cup {NoChip, Generic} /\ part \in Parts
  /\ {attached, dmhalt, alive, synced, lost, failed, missed, resets} \subseteq BOOLEAN
  /\ {inbox.tag, outbox.tag, sent.tag, tag} \subseteq 0 .. 1
  /\ held \in {"yes", "no", "let_go"}
  /\ cmd \in Command /\ plan \in Seq(Stages) /\ chip \in Chips \cup {NoChip}
  /\ at \in 1 .. 4 /\ naccess \in 0 .. MaxAccesses
  /\ status \in {"none", "ok", "usb", "target", "verify", "usage", "not_implemented", "killed"}
  /\ faults \in 0 .. MaxFaults /\ ncommands \in 0 .. MaxCommands

\* A command has returned s and everything it sent has been acted on.
Returned(s) == Idle /\ status = s /\ inbox = None

\* What a command that returned WL_OK says of the core is true, whatever the
\* commands before it left behind and whether or not replies were late: "target
\* halted" means that it is held, "target resumed" and "target reset" that it
\* runs and that it was reset, and a flashed target runs whether or not it
\* verified.  A programmer that was never given an interface setting holds and
\* resets nothing.
StatusIsTrue ==
  /\ Returned("ok") =>
       /\ cmd.name = "halt" /\ iface # NoChip => attached
       /\ cmd.name \in DebugCommands => attached
       /\ cmd.name \in ResetCommands => ~Halted /\ (iface # NoChip => resets)
       /\ cmd.name = "resume" => ~Halted
  /\ Returned("ok") \/ Returned("verify") =>
       (cmd.name = "flash" /\ ~failed => ~Halted)

\* Detection finds a part that is in the table, also when an earlier command
\* left the programmer attached and its firmware does not answer a second
\* attach with the chip id.
IdentifySucceeds ==
  Returned("target") /\ cmd.chip = NoChip
  /\ cmd.name \in {"info", "flash", "read", "terminal"} /\ synced /\ ~failed =>
    Matching(part) = {}

\* A command that closes the link lets go of the target on every path, early
\* returns included, unless a request did not go out, the tool was killed, or
\* the command line was refused before the link was opened.
RefusedUnopened == cmd.chip # NoChip /\ status \in {"usage", "not_implemented"}
Released ==
  Idle /\ inbox = None /\ alive /\ ~lost /\ ~RefusedUnopened
  /\ cmd.name \in {"info", "flash", "read", "resume"} \cup ResetCommands \cup Interactive
    => ~attached

\* The commands that look at a halted core do not let it run on the way, which
\* is why they insist on --chip: "auto-detection releases and restarts the
\* target".
CorePreserved ==
  cmd.name \in DebugCommands \cup {"halt"} /\ status = "ok" => held # "let_go"

\* "The tool never guesses": the part that detection reports is the one that is
\* connected, also when every reply arrives one request late.
ChipIsReal ==
  cmd.chip = NoChip /\ chip # NoChip => chip \in Matching(part)

\* A register access succeeds with the reply to its own request.
OwnReply ==
  sent # None /\ sent' = None /\ outbox # None /\ outbox' = None
  /\ sent.cmd = "reg" /\ Accepts(sent, Stage, outbox)
    => outbox.tag = sent.tag

\* "Send one request and collect its reply": holds of every access.
RegisterReadIsTrue == [][OwnReply]_vars

\* Until a register access of its own has failed and it has gone on all the same,
\* no command takes a late reply, its own or one that an earlier command left
\* behind, for a register's value: the reply in front of the first register access
\* of a stage has another length.  A flash command goes on after a clean-up that
\* timed out, and may then take its reply for the next register's; but it reads
\* back with replies of its own, since the read-back begins with an attach.
OwnUntilFailed ==
  [][~Idle /\ (~missed \/ Stage = "verify") => OwnReply]_vars

\* Every command returns, or is in its loop waiting for its user, even if the
\* programmer never answers again: each transfer has a timeout.
InLoop == ~Idle /\ Stage = "loop"
CommandReturns == (~Idle /\ ~InLoop) ~> (Idle \/ InLoop)
=============================================================================
