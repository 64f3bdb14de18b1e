------------------------------ MODULE GdbData ------------------------------
(***************************************************************************)
(* The packets of gdb_server.c that move data, g, p, P, m, M and the       *)
(* monitor's read32 and write32, on top of DebugModule: what the text of a *)
(* request makes the server do, and what its reply says.                   *)
(*                                                                         *)
(* The text of a word or of memory is the sequence of the bytes whose two  *)
(* hexadecimal digits it is made of; what a monitor command is given is a  *)
(* number, written with 0x before it or not.                               *)
(***************************************************************************)
EXTENDS DebugModule

CONSTANTS
  RequestSet,  \* the requests of the client
  MemoryMax    \* GDB_MEMORY_MAX

\* What the text of a request can be made of.
IsRequest(r) ==
  \/ r.kind = "g"
  \/ r.kind = "p" /\ r.reg \in Regs
  \/ r.kind = "P" /\ r.reg \in Regs /\ r.text \in Seq(Byte) /\ r.text # <<>>
  \/ r.kind = "m" /\ r.addr \in Word /\ r.len \in Nat \ {0}
  \/ r.kind = "M" /\ r.addr \in Word /\ r.text \in Seq(Byte) /\ r.text # <<>>
  \/ r.kind = "read32" /\ r.addr.number \in Word /\ r.addr.prefix \in BOOLEAN
  \/ r.kind = "write32" /\ r.addr.number \in Word /\ r.addr.prefix \in BOOLEAN
                        /\ r.val.number \in Word /\ r.val.prefix \in BOOLEAN

ASSUME RequestAssumption == \A r \in RequestSet : IsRequest(r)

VARIABLE
  req          \* the last request

gvars == <<vars, req>>
NoRequest == [kind |-> "none"]

---------------------------------------------------------------------------
(* Conversions *)

\* format_hex_u32_le: the bytes of a word, the lowest first, as RSP wants it.
format_hex_u32_le(w) == [i \in 1 .. WordBytes |-> ByteOf(w, i - 1)]

\* parse_hex_u32: digits as they come, the highest first, which the word shifts out
\* when more follow than it holds; what is not a digit ends the number, and one
\* digit is enough for it to be one.
parse_hex_u32(text) ==
  LET n == Len(text) IN WordOf([i \in 0 .. 3 |-> IF i < n THEN text[n - i] ELSE 0])
parse_argument(arg) == IF arg.prefix THEN 0 ELSE arg.number

---------------------------------------------------------------------------
(* The handlers, as far as the calls they make *)

gdb_handle_g == [kind |-> "all"]
gdb_handle_p(r) ==
  IF r.kind = "p" THEN [kind |-> "get", reg |-> r.reg]
  ELSE [kind |-> "set", reg |-> r.reg, val |-> parse_hex_u32(r.text)]
gdb_handle_m(r) == [kind |-> "block", addr |-> r.addr, len |-> r.len]
gdb_handle_M(r) == [kind |-> "bytes", addr |-> r.addr, bytes |-> r.text]
monitor_read32(r) == [kind |-> "read", addr |-> parse_argument(r.addr), size |-> WordBytes]
monitor_write32(r) ==
  [kind |-> "write", addr |-> parse_argument(r.addr), size |-> WordBytes,
   val |-> parse_argument(r.val)]

OpOf(r) ==
  CASE r.kind = "g" -> gdb_handle_g
    [] r.kind \in {"p", "P"} -> gdb_handle_p(r)
    [] r.kind = "m" -> gdb_handle_m(r)
    [] r.kind = "M" -> gdb_handle_M(r)
    [] r.kind = "read32" -> monitor_read32(r)
    [] r.kind = "write32" -> monitor_write32(r)

\* Mutant: the pieces of a reply are in the order of the bus, not of RSP.
Reply_HighFirst(r, words) ==
  CASE r.kind = "p" -> [i \in 1 .. WordBytes |-> ByteOf(words[1], WordBytes - i)]
    [] r.kind = "g" -> [i \in DOMAIN words |-> format_hex_u32_le(words[i])]
    [] r.kind = "m" -> Filled(r.addr, r.len, words)
    [] OTHER -> <<>>

\* What a request that succeeded is answered with.
Reply(r, words) ==
  CASE r.kind = "p" -> format_hex_u32_le(words[1])
    [] r.kind = "g" -> [i \in DOMAIN words |-> format_hex_u32_le(words[i])]
    [] r.kind = "m" -> Filled(r.addr, r.len, words)
    [] OTHER -> <<>>

---------------------------------------------------------------------------

\* A request is refused without any access when it asks for too much.
Refused(r) == r.kind \in {"m", "M"} /\ (IF r.kind = "m" THEN r.len ELSE Len(r.text)) > MemoryMax

gdb_handle_packet(r) == ~Refused(r) /\ Begin(OpOf(r)) /\ req' = r
Refuse(r) ==
  /\ Refused(r) /\ Idle /\ nops < MaxOps
  /\ req' = r /\ nops' = nops + 1 /\ kept' = regs
  /\ result' = [op |-> NoOp, status |-> "usage", got |-> <<>>]
  /\ UNCHANGED <<target, module, op, nth, ip, got, faults, hangs, issued>>

GInit == Init /\ req = NoRequest
GNext ==
  \/ (Tool \/ Environment) /\ UNCHANGED req
  \/ \E r \in RequestSet : gdb_handle_packet(r) \/ Refuse(r)
  \/ \E o \in OpSet : Begin(o) /\ req' = NoRequest
GSpec == GInit /\ [][GNext]_gvars /\ WF_vars(Tool /\ UNCHANGED faults) /\ WF_vars(Execute)

---------------------------------------------------------------------------
(* Properties *)

Succeeds == ~Idle /\ Idle' /\ result'.status = "ok" /\ req.kind # "none"

\* What the client is told is what the target holds, in the order the protocol
\* gives it: registers with their lowest byte first, memory byte by byte from
\* the address asked for; and an M that was acknowledged is in memory.
AnswerIsTrue ==
  [][Succeeds =>
       CASE req.kind = "p" ->
              \A b \in 1 .. WordBytes : Reply(req, result'.got)[b] = ByteOf(regs'[req.reg], b - 1)
         [] req.kind = "g" ->
              \A i \in DOMAIN Registers, b \in 1 .. WordBytes :
                Reply(req, result'.got)[i][b] = ByteOf(regs'[Registers[i]], b - 1)
         [] req.kind = "m" -> Reply(req, result'.got) = Slice(req.addr, req.len)'
         [] req.kind = "M" -> Slice(req.addr, Len(req.text))' = req.text
         [] OTHER -> TRUE]_gvars

\* monitor read32 and write32 reach the word they were asked for, in the form
\* the README gives: "monitor read32 0x40021018".
MonitorReachesAddress ==
  [][Succeeds =>
       CASE req.kind = "read32" -> result'.op.addr = req.addr.number
         [] req.kind = "write32" ->
              result'.op.addr = req.addr.number /\ result'.op.val = req.val.number
         [] OTHER -> TRUE]_gvars
=============================================================================
