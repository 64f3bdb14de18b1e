------------------------------ MODULE Terminal ------------------------------
(***************************************************************************)
(* cmd_terminal: the target prints by placing packets of at most seven     *)
(* bytes in the debug module's DATA0 and DATA1; the tool polls DATA0,      *)
(* fetches the packet, hands the registers back and prints.  Both sides    *)
(* run at once and share nothing but the two registers.                    *)
(*                                                                         *)
(* The bytes the firmware prints are numbered 1, 2, 3...; a byte of a      *)
(* cleared register is 0.                                                  *)
(***************************************************************************)
EXTENDS Naturals, Sequences, SequencesExt

CONSTANTS
  Shapes,      \* the packet shapes of this firmware: "evt", "ch32fun"
  Replies,     \* low bytes with bit 7 set that announce no payload
  MaxBytes,    \* bound: bytes the firmware prints
  MaxReplies,  \* bound: how often it places a reply
  MaxFaults    \* bound: accesses of the tool that fail

ASSUME TerminalAssumption ==
  /\ Shapes \subseteq {"evt", "ch32fun"}
  /\ \A l \in Replies : l \in 128 .. 255 /\ l % 64 \notin 5 .. 11
  /\ MaxBytes \in Nat /\ MaxReplies \in Nat /\ MaxFaults \in Nat

VARIABLES
  data0,   \* the low byte, and the three above it
  data1,   \* four bytes
  \* the firmware
  place,   \* the packet it has begun to place: DATA1 is written, DATA0 is not
  sent,    \* bytes it has placed
  replies,
  \* the tool
  pc, low, buffer,
  out,     \* what has been printed
  stop,    \* terminal_stop
  status, faults,
  acked    \* observation: bytes of the packets the firmware has got back

regs == <<data0, data1>>
firmware == <<place, sent, replies>>
tool == <<pc, low, buffer, out, status>>
vars == <<regs, firmware, tool, stop, faults, acked>>

Zeros(n) == [i \in 1 .. n |-> 0]
Clear0 == [low |-> 0, bytes |-> Zeros(3)]
Clear1 == Zeros(4)
NoPacket == [shape |-> "none", n |-> 0]

---------------------------------------------------------------------------
(* The firmware (external) *)

LowByte(p) == IF p.shape = "evt" THEN p.n ELSE 128 + p.n + 4
PlacedByte(p, i) == IF i <= p.n THEN sent + i ELSE 0

\* It waits until DATA0 has been cleared, then fills DATA1 before DATA0.
PlaceData1(s, n) ==
  /\ place = NoPacket /\ data0 = Clear0 /\ sent + n <= MaxBytes
  /\ place' = [shape |-> s, n |-> n]
  /\ data1' = IF s = "evt" /\ n <= 3 THEN data1
              ELSE [i \in 1 .. 4 |-> PlacedByte(place', i + 3)]
  /\ UNCHANGED <<data0, sent, replies, tool, stop, faults, acked>>

PlaceData0 ==
  /\ place # NoPacket
  /\ data0' = [low |-> LowByte(place), bytes |-> [i \in 1 .. 3 |-> PlacedByte(place, i)]]
  /\ sent' = sent + place.n /\ place' = NoPacket
  /\ UNCHANGED <<data1, replies, tool, stop, faults, acked>>

PlaceReply(l) ==
  /\ place = NoPacket /\ data0 = Clear0 /\ replies < MaxReplies
  /\ data0' = [low |-> l, bytes |-> Zeros(3)]
  /\ replies' = replies + 1
  /\ UNCHANGED <<data1, place, sent, tool, stop, faults, acked>>

---------------------------------------------------------------------------
(* The tool *)

Fault == faults < MaxFaults /\ faults' = faults + 1

\* Mutant: the offset of the length is one too large.
Announced_Short(l) == IF l >= 128 THEN (IF l % 64 >= 5 THEN (l % 64) - 5 ELSE 0) ELSE l

\* The payload the low byte announces: bit 7 set, low six bits minus 4; or 1..7.
Announced(l) == IF l >= 128 THEN (IF l % 64 >= 4 THEN (l % 64) - 4 ELSE 0) ELSE l
\* Mutant: the length is bounded by its field, not by the two registers.
HasPayload_Nibble(l) == Announced(l) \in 1 .. 15

HasPayload(l) == Announced(l) \in 1 .. 7
\* Mutant: a reply is taken for an idle channel.
IsReply_Never(l) == FALSE

IsReply(l) == l >= 128 /\ ~HasPayload(l)

\* The payload bytes each register holds; a shift past the word gives zero.
From1(n) == [i \in 1 .. n |-> IF i <= 4 THEN data1[i] ELSE 0]
From0(d) == SubSeq(d.bytes, 1, IF Announced(d.low) > 3 THEN 3 ELSE Announced(d.low))

\* The loop condition and the read of DATA0.
PollData0 ==
  /\ pc = "poll"
  /\ UNCHANGED <<regs, firmware, out, stop, acked>>
  /\ \/ stop /\ pc' = "stopped" /\ UNCHANGED <<low, buffer, status, faults>>
     \/ ~stop /\ Fault /\ pc' = "stopped" /\ status' = "usb" /\ UNCHANGED <<low, buffer>>
     \/ /\ ~stop /\ UNCHANGED <<status, faults>>
        /\ low' = data0.low
        /\ \/ IsReply(low') /\ pc' = "reply" /\ UNCHANGED buffer
           \/ /\ HasPayload(low') /\ buffer' = From0(data0)
              /\ pc' = IF Announced(low') > 3 THEN "data1" ELSE "ack0"
           \/ ~IsReply(low') /\ ~HasPayload(low') /\ pc' = "poll" /\ UNCHANGED buffer

PollData1 ==
  /\ pc = "data1"
  /\ UNCHANGED <<regs, firmware, low, out, stop, acked>>
  /\ \/ /\ buffer' = buffer \o From1(Announced(low) - 3)
        /\ pc' = "ack1" /\ UNCHANGED <<status, faults>>
     \/ Fault /\ pc' = "stopped" /\ status' = "usb" /\ UNCHANGED buffer

\* A write whose result is thrown away: it takes effect, or fails with or
\* without effect.
Write(effect) == \/ effect /\ UNCHANGED faults
                 \/ effect /\ Fault
                 \/ UNCHANGED <<regs, acked>> /\ Fault

AckData1 ==
  /\ pc = "ack1" /\ pc' = "ack0"
  /\ Write(data1' = Clear1 /\ UNCHANGED <<data0, acked>>)
  /\ UNCHANGED <<firmware, low, buffer, out, status, stop>>

\* Mutant: a packet whose acknowledgement failed is expected to come again.
AckData0_Again ==
  /\ pc \in {"ack0", "reply"}
  /\ Write(data0' = Clear0 /\ acked' = sent /\ UNCHANGED data1)
  /\ pc' = IF pc = "ack0" /\ faults' = faults THEN "print" ELSE "poll"
  /\ UNCHANGED <<firmware, low, buffer, out, status, stop>>

\* DATA0 is handed back after a packet, and after a reply.
AckData0 ==
  /\ pc \in {"ack0", "reply"}
  /\ pc' = IF pc = "ack0" THEN "print" ELSE "poll"
  /\ Write(data0' = Clear0 /\ acked' = sent /\ UNCHANGED data1)
  /\ UNCHANGED <<firmware, low, buffer, out, status, stop>>

\* stdout takes the bytes, or the terminal ends; it returns WL_OK all the same,
\* and "stdout" only records why it ended.
Emit ==
  /\ pc = "print"
  /\ \/ out' = out \o buffer /\ pc' = "poll" /\ UNCHANGED status
     \/ pc' = "stopped" /\ status' = "stdout" /\ UNCHANGED out
  /\ UNCHANGED <<regs, firmware, low, buffer, stop, faults, acked>>

\* SIGINT or SIGTERM at any moment.
terminal_signal ==
  /\ ~stop /\ stop' = TRUE
  /\ UNCHANGED <<regs, firmware, tool, faults, acked>>

Init ==
  /\ data0 = Clear0 /\ data1 = Clear1
  /\ place = NoPacket /\ sent = 0 /\ replies = 0
  /\ pc = "poll" /\ low = 0 /\ buffer = <<>> /\ out = <<>> /\ stop = FALSE
  /\ status = "ok" /\ faults = 0 /\ acked = 0

Tool == PollData0 \/ PollData1 \/ AckData1 \/ AckData0 \/ Emit
Firmware == \/ \E s \in Shapes, n \in 1 .. 7 : PlaceData1(s, n)
            \/ PlaceData0 \/ \E l \in Replies : PlaceReply(l)
Next == Tool \/ Firmware \/ terminal_signal

\* The tool is one thread that polls, whether or not accesses fail.  The firmware
\* completes a packet it has begun; nothing makes it print.
Spec == Init /\ [][Next]_vars /\ WF_vars(Tool /\ UNCHANGED faults) /\ WF_vars(PlaceData0)

---------------------------------------------------------------------------
(* Properties *)

TypeOK ==
  /\ data0.low \in 0 .. 255 /\ data0.bytes \in [1 .. 3 -> 0 .. MaxBytes]
  /\ data1 \in [1 .. 4 -> 0 .. MaxBytes]
  /\ place.shape \in Shapes \cup {"none"} /\ place.n \in 0 .. 7
  /\ sent \in 0 .. MaxBytes /\ replies \in 0 .. MaxReplies
  /\ pc \in {"poll", "reply", "data1", "ack1", "ack0", "print", "stopped"}
  /\ low \in 0 .. 255 /\ Len(buffer) \in 0 .. 7
  /\ stop \in BOOLEAN /\ status \in {"ok", "usb", "stdout"}
  /\ faults \in 0 .. MaxFaults /\ acked \in 0 .. sent

Between == pc \in {"poll", "stopped"} /\ status # "stdout"

\* Between two packets the tool has printed exactly the bytes of the packets it
\* has handed back, once each and in order, also when it is stopped: the two
\* registers never mix bytes of two packets.
ExactlyOnce ==
  Between /\ faults = 0 => out = [i \in 1 .. acked |-> i]

\* The first time each byte is printed.
FirstAt(i) == CHOOSE j \in 1 .. Len(out) : out[j] = i /\ \A k \in 1 .. j - 1 : out[k] # i

\* When accesses fail the tool may print a packet again, or the head of one with
\* zeros behind it, but a byte the firmware was told to forget has been printed,
\* after the bytes before it.
NothingLost ==
  Between => /\ 1 .. acked \subseteq ToSet(out)
             /\ \A i, j \in 1 .. acked : i < j => FirstAt(i) < FirstAt(j)

\* The firmware is never left waiting for its registers: what it has placed is
\* taken, also after an acknowledgement was lost.
RegistersReturned == data0.low # 0 ~> (data0.low = 0 \/ pc = "stopped")
=============================================================================
