--------------------------- MODULE TerminalProofs ---------------------------
(***************************************************************************)
(* Proofs about Terminal, for every set of replies and every number of     *)
(* bytes, replies and failed accesses.                                     *)
(***************************************************************************)
EXTENDS Terminal, SequenceTheorems, WellFoundedInduction, TLAPS

---------------------------------------------------------------------------
(* The inductive invariants *)

Bytes == 0 .. MaxBytes
Packets == {NoPacket} \cup [shape: Shapes, n: 1 .. 7]

Types ==
  /\ data0 \in [low: 0 .. 255, bytes: [1 .. 3 -> Bytes]]
  /\ data1 \in [1 .. 4 -> Bytes]
  /\ place \in Packets
  /\ sent \in 0 .. MaxBytes /\ replies \in 0 .. MaxReplies
  /\ pc \in {"poll", "reply", "data1", "ack1", "ack0", "print", "stopped"}
  /\ low \in 0 .. 255 /\ buffer \in Seq(Bytes) /\ out \in Seq(Bytes)
  /\ stop \in BOOLEAN /\ status \in {"ok", "usb", "stdout"}
  /\ faults \in 0 .. MaxFaults /\ acked \in 0 .. sent
  /\ Len(buffer) <= 7

\* Who may touch the registers: the firmware while DATA0 is clear, the tool from
\* the poll that found it set to the acknowledgement.  The bytes not given back
\* yet are those of the packet in the registers.
Turns ==
  /\ data0.low = 0 => data0 = Clear0 /\ acked = sent
  /\ IsReply(data0.low) => acked = sent
  /\ data0.low # 0 => place = NoPacket /\ (IsReply(data0.low) \/ HasPayload(data0.low))
  /\ place # NoPacket => sent + place.n <= MaxBytes
  /\ status = "stdout" => pc = "stopped"
  /\ pc = "reply" => IsReply(data0.low)
  /\ pc \in {"data1", "ack1", "ack0"} => HasPayload(data0.low) /\ low = data0.low
  /\ pc = "data1" => Announced(low) > 3 /\ Len(buffer) = 3
  /\ pc \in {"ack1", "ack0"} => Len(buffer) = Announced(low)

\* DATA1 holds the bytes after the third of a packet of n bytes that starts
\* after the b-th.
Upper(b, n) == \A i \in 1 .. 4 : i + 3 <= n => data1[i] = b + 3 + i

\* The packet in the registers, and the one that is being placed.
Lower ==
  HasPayload(data0.low) =>
    /\ acked + Announced(data0.low) = sent
    /\ \A i \in 1 .. 3 : i <= Announced(data0.low) => data0.bytes[i] = acked + i
Placing == place # NoPacket => Upper(sent, place.n)

\* The bytes from the b-th on.
Run(b, n) == [i \in 1 .. n |-> b + i]

\* What has been printed, and is about to be, while no access fails.
Exact ==
  /\ HasPayload(data0.low) /\ pc # "ack0" => Upper(acked, Announced(data0.low))
  /\ pc \in {"poll", "reply", "data1", "ack1", "ack0", "stopped"} /\ status # "stdout" =>
       out = Run(0, acked)
  /\ pc = "data1" => buffer = Run(acked, 3)
  /\ pc \in {"ack1", "ack0"} => buffer = Run(acked, Announced(low))
  /\ pc = "print" =>
       Len(buffer) <= acked /\ out = Run(0, acked - Len(buffer))
       /\ buffer = Run(acked - Len(buffer), Len(buffer))

PacketInv == Types /\ Turns /\ Lower /\ Placing
ExactInv == PacketInv /\ (faults = 0 => Exact)

\* The output with the packet whose printing nothing but stdout can prevent now.
Coming == IF pc \in {"ack1", "ack0", "print"} THEN out \o buffer ELSE out

\* A byte comes after all the bytes before it.
Closed(s) == \A j \in 1 .. Len(s) : \A v \in 1 .. s[j] - 1 : \E k \in 1 .. j - 1 : s[k] = v

\* What holds when accesses fail: a packet whose DATA1 is gone has been printed.
Kept ==
  /\ 1 .. acked \subseteq ToSet(Coming)
  /\ Closed(Coming)
  /\ pc \in {"ack1", "ack0"} => 1 .. sent \subseteq ToSet(Coming)
  /\ HasPayload(data0.low) =>
       \/ Upper(acked, Announced(data0.low))
       \/ data1 = Clear1 /\ 1 .. sent \subseteq ToSet(Coming)
  /\ pc = "data1" => buffer = Run(acked, 3)

KeptInv == PacketInv /\ (status # "stdout" => Kept)

---------------------------------------------------------------------------
(* The low byte, and what the tool takes from the registers *)

\* What the low byte tells apart.
LEMMA LowByteKinds ==
  ASSUME NEW l \in 0 .. 255
  PROVE  /\ Announced(l) \in Nat
         /\ HasPayload(l) => l # 0 /\ ~IsReply(l) /\ Announced(l) \in 1 .. 7
         /\ IsReply(l) => l # 0
         /\ l = 0 => ~HasPayload(l) /\ ~IsReply(l)
<1>1. Announced(l) \in Nat
  <2>1. l % 64 \in 0 .. 63
    OBVIOUS
  <2> QED BY <2>1 DEF Announced
<1>2. l = 0 => Announced(l) = 0
  BY DEF Announced
<1> QED BY <1>1, <1>2 DEF HasPayload, IsReply

\* A packet announces its length, in either shape.
LEMMA PacketLow ==
  ASSUME NEW p \in [shape: Shapes, n: 1 .. 7]
  PROVE  LowByte(p) \in 0 .. 255 /\ Announced(LowByte(p)) = p.n /\ HasPayload(LowByte(p))
<1>1. p.n \in 1 .. 7 /\ p.shape \in {"evt", "ch32fun"}
  BY TerminalAssumption
<1>2. CASE p.shape = "evt"
  BY <1>1, <1>2 DEF LowByte, Announced, HasPayload
<1>3. CASE p.shape # "evt"
  <2>1. LowByte(p) = 132 + p.n
    BY <1>1, <1>3 DEF LowByte
  <2>2. (132 + p.n) % 64 = p.n + 4
    BY <1>1
  <2> QED BY <1>1, <2>1, <2>2 DEF Announced, HasPayload
<1> QED BY <1>2, <1>3

\* A reply announces nothing.
LEMMA ReplyLow ==
  ASSUME NEW l \in Replies
  PROVE  l \in 0 .. 255 /\ IsReply(l)
<1>1. l \in 128 .. 255 /\ l % 64 \notin 5 .. 11
  BY TerminalAssumption
<1>2. l % 64 \in 0 .. 63
  BY <1>1
<1>3. Announced(l) \notin 1 .. 7
  BY <1>1, <1>2 DEF Announced
<1> QED BY <1>1, <1>3 DEF IsReply, HasPayload

\* The bytes the poll of DATA0 takes.
LEMMA From0Properties ==
  ASSUME NEW d \in [low: 0 .. 255, bytes: [1 .. 3 -> Bytes]], HasPayload(d.low)
  PROVE  LET n == IF Announced(d.low) > 3 THEN 3 ELSE Announced(d.low)
         IN  /\ From0(d) \in Seq(Bytes) /\ Len(From0(d)) = n /\ n \in 1 .. 3
             /\ \A i \in 1 .. n : From0(d)[i] = d.bytes[i]
<1> DEFINE n == IF Announced(d.low) > 3 THEN 3 ELSE Announced(d.low)
<1>1. n \in 1 .. 3
  BY LowByteKinds
<1> HIDE DEF n
<1>2. \A i \in 1 .. n : d.bytes[i] \in Bytes
  BY <1>1
<1>3. /\ SubSeq(d.bytes, 1, n) \in Seq(Bytes)
      /\ Len(SubSeq(d.bytes, 1, n)) = (IF 1 <= n THEN n - 1 + 1 ELSE 0)
      /\ \A i \in 1 .. n - 1 + 1 : SubSeq(d.bytes, 1, n)[i] = d.bytes[1 + i - 1]
  BY <1>1, <1>2, SubSeqProperties
<1>4. From0(d) = SubSeq(d.bytes, 1, n)
  BY DEF From0, n
<1>5. Len(From0(d)) = n /\ \A i \in 1 .. n : From0(d)[i] = d.bytes[i]
  BY <1>1, <1>3, <1>4
<1> QED BY <1>1, <1>3, <1>4, <1>5 DEF n

\* The bytes the poll of DATA1 adds.
LEMMA From1Properties ==
  ASSUME data1 \in [1 .. 4 -> Bytes], NEW n \in 1 .. 4
  PROVE  /\ From1(n) \in Seq(Bytes) /\ Len(From1(n)) = n
         /\ \A i \in 1 .. n : From1(n)[i] = data1[i]
<1>1. From1(n) \in [1 .. n -> Bytes]
  BY DEF From1
<1>2. From1(n) \in Seq(Bytes)
  BY <1>1, SeqDef
<1> QED BY <1>1, <1>2 DEF From1

\* A write of the tool either takes effect or leaves the registers alone.
LEMMA WriteCases ==
  ASSUME NEW ACTION effect, faults \in 0 .. MaxFaults, Write(effect)
  PROVE  /\ effect \/ UNCHANGED <<regs, acked>>
         /\ faults' \in 0 .. MaxFaults /\ (faults' = 0 => faults = 0 /\ effect)
<1>1. CASE Fault
  <2>1. faults' \in 0 .. MaxFaults /\ faults' # 0
    BY <1>1, TerminalAssumption DEF Fault
  <2> QED BY <1>1, <2>1 DEF Write
<1>2. CASE ~Fault
  BY <1>2 DEF Write
<1> QED BY <1>1, <1>2

---------------------------------------------------------------------------
(* Both sides take turns *)

\* Steps that leave the registers and the firmware alone.
LEMMA ReadPacket ==
  ASSUME PacketInv, PollData0 \/ PollData1 \/ Emit \/ terminal_signal
  PROVE  PacketInv'
<1>0. /\ UNCHANGED <<data0, data1, place, sent, replies, acked>> /\ Types /\ Turns /\ Lower /\ Placing
      /\ MaxFaults \in Nat
  BY TerminalAssumption DEF PacketInv, PollData0, PollData1, Emit, terminal_signal, regs, firmware
<1>1. Lower' /\ Placing'
  BY <1>0 DEF Lower, Placing, Upper
<1>2. faults' \in 0 .. MaxFaults /\ stop' \in BOOLEAN
  <2>1. faults \in 0 .. MaxFaults /\ stop \in BOOLEAN
    BY <1>0 DEF Types
  <2>2. faults' = faults \/ Fault
    BY DEF PollData0, PollData1, Emit, terminal_signal
  <2>3. stop' = stop \/ stop' = TRUE
    BY DEF PollData0, PollData1, Emit, terminal_signal
  <2>4. faults' \in 0 .. MaxFaults
    BY <1>0, <2>1, <2>2 DEF Fault
  <2> QED BY <2>1, <2>3, <2>4
<1>3. data0.low \in 0 .. 255 /\ data0 \in [low: 0 .. 255, bytes: [1 .. 3 -> Bytes]]
  BY <1>0 DEF Types
<1>4. CASE PollData0
  <2>1. out' = out /\ pc = "poll" /\ status # "stdout"
    BY <1>0, <1>4 DEF PollData0, Turns
  <2>2. CASE /\ UNCHANGED <<low, buffer>> /\ pc' = "stopped" /\ status' \in {status, "usb"}
    <3>1. Types'
      BY <1>0, <1>2, <2>1, <2>2 DEF Types
    <3>2. Turns'
      BY <1>0, <2>1, <2>2 DEF Turns
    <3> QED BY <1>1, <3>1, <3>2 DEF PacketInv
  <2>3. CASE /\ low' = data0.low /\ status' = status /\ buffer' = buffer
             /\ \/ IsReply(low') /\ pc' = "reply"
                \/ pc' = "poll"
    <3>1. Types'
      BY <1>0, <1>2, <1>3, <2>1, <2>3 DEF Types
    <3>2. Turns'
      BY <1>0, <2>1, <2>3 DEF Turns
    <3> QED BY <1>1, <3>1, <3>2 DEF PacketInv
  <2>4. CASE /\ low' = data0.low /\ status' = status /\ HasPayload(low') /\ buffer' = From0(data0)
             /\ pc' = IF Announced(low') > 3 THEN "data1" ELSE "ack0"
    <3>1. /\ buffer' \in Seq(Bytes)
          /\ Len(buffer') = IF Announced(low') > 3 THEN 3 ELSE Announced(low')
          /\ Announced(low') \in 1 .. 7
      BY <1>3, <2>4, From0Properties, LowByteKinds
    <3>2. Types'
      BY <1>0, <1>2, <1>3, <2>1, <2>4, <3>1 DEF Types
    <3>3. Turns'
      BY <1>0, <2>1, <2>4, <3>1 DEF Turns
    <3> QED BY <1>1, <3>2, <3>3 DEF PacketInv
  <2> QED BY <1>4, <2>2, <2>3, <2>4 DEF PollData0
<1>5. CASE PollData1
  <2>1. out' = out /\ low' = low /\ pc = "data1" /\ status # "stdout"
    BY <1>0, <1>5 DEF PollData1, Turns
  <2>2. CASE buffer' = buffer /\ pc' = "stopped" /\ status' = "usb"
    <3>1. Types'
      BY <1>0, <1>2, <2>1, <2>2 DEF Types
    <3>2. Turns'
      BY <1>0, <2>1, <2>2 DEF Turns
    <3> QED BY <1>1, <3>1, <3>2 DEF PacketInv
  <2>3. CASE buffer' = buffer \o From1(Announced(low) - 3) /\ pc' = "ack1" /\ status' = status
    <3>1. Announced(low) \in 4 .. 7 /\ Len(buffer) = 3 /\ buffer \in Seq(Bytes)
      <4>1. low \in 0 .. 255 /\ HasPayload(low) /\ Announced(low) > 3 /\ Len(buffer) = 3
            /\ buffer \in Seq(Bytes)
        BY <1>0, <2>1 DEF Turns, Types
      <4>2. Announced(low) \in 1 .. 7
        BY <4>1, LowByteKinds
      <4> QED BY <4>1, <4>2
    <3> DEFINE n == Announced(low) - 3
    <3>2. From1(n) \in Seq(Bytes) /\ Len(From1(n)) = n
      <4>1. n \in 1 .. 4
        BY <3>1
      <4> QED BY <1>0, <4>1, From1Properties DEF Types
    <3>3. buffer' \in Seq(Bytes) /\ Len(buffer') = Announced(low)
      <4>1. /\ buffer \o From1(n) \in Seq(Bytes)
            /\ Len(buffer \o From1(n)) = Len(buffer) + Len(From1(n))
        BY <3>1, <3>2, ConcatProperties
      <4>2. Len(buffer) + Len(From1(n)) = Announced(low)
        BY <3>1, <3>2
      <4> QED BY <2>3, <4>1, <4>2
    <3>4. Types'
      BY <1>0, <1>2, <2>1, <2>3, <3>1, <3>3 DEF Types
    <3>5. Turns'
      BY <1>0, <2>1, <2>3, <3>3 DEF Turns
    <3> QED BY <1>1, <3>4, <3>5 DEF PacketInv
  <2> QED BY <1>5, <2>2, <2>3 DEF PollData1
<1>6. CASE Emit
  <2>1. /\ UNCHANGED <<low, buffer>> /\ out' \in {out, out \o buffer} /\ status' \in {status, "stdout"}
        /\ pc' \in {"poll", "stopped"} /\ (status' = "stdout" => pc' = "stopped")
    BY <1>0, <1>6 DEF Emit, Turns
  <2>2. out' \in Seq(Bytes)
    <3>1. out \in Seq(Bytes) /\ buffer \in Seq(Bytes)
      BY <1>0 DEF Types
    <3>2. out \o buffer \in Seq(Bytes)
      BY <3>1, ConcatProperties
    <3> QED BY <2>1, <3>1, <3>2
  <2>3. Types'
    BY <1>0, <1>2, <2>1, <2>2 DEF Types
  <2>4. Turns'
    BY <1>0, <2>1 DEF Turns
  <2> QED BY <1>1, <2>3, <2>4 DEF PacketInv
<1>7. CASE terminal_signal
  <2>1. Types'
    BY <1>0, <1>2, <1>7 DEF Types, terminal_signal, tool
  <2>2. Turns'
    BY <1>0, <1>7 DEF Turns, terminal_signal, tool
  <2> QED BY <1>1, <2>1, <2>2 DEF PacketInv
<1> QED BY <1>4, <1>5, <1>6, <1>7

\* The acknowledgements.
LEMMA AckPacket ==
  ASSUME PacketInv, AckData1 \/ AckData0
  PROVE  PacketInv'
<1>0. /\ UNCHANGED <<place, sent, replies, low, buffer, out, status, stop>>
      /\ Types /\ Turns /\ Lower /\ Placing /\ MaxBytes \in Nat
  BY TerminalAssumption DEF PacketInv, AckData1, AckData0, firmware
<1>1. data0.low \in 0 .. 255 /\ data0.low # 0 /\ place = NoPacket
  BY <1>0, LowByteKinds DEF Types, Turns, AckData1, AckData0
<1>2. Placing'
  BY <1>0, <1>1 DEF Placing
<1>3. CASE AckData1
  <2>1. /\ pc = "ack1" /\ pc' = "ack0" /\ Write(data1' = Clear1 /\ UNCHANGED <<data0, acked>>)
    BY <1>3 DEF AckData1
  <2>2. /\ UNCHANGED <<data0, acked>> /\ data1' \in {data1, Clear1} /\ faults' \in 0 .. MaxFaults
    BY <1>0, <2>1, WriteCases DEF regs, Types
  <2>3. Clear1 \in [1 .. 4 -> Bytes]
    BY <1>0 DEF Clear1, Zeros, Bytes
  <2>4. Types'
    BY <1>0, <2>1, <2>2, <2>3 DEF Types
  <2>5. Turns' /\ Lower'
    BY <1>0, <2>1, <2>2 DEF Turns, Lower
  <2> QED BY <1>2, <2>4, <2>5 DEF PacketInv
<1>4. CASE AckData0
  <2>1. /\ pc \in {"ack0", "reply"} /\ pc' \in {"print", "poll"}
        /\ Write(data0' = Clear0 /\ acked' = sent /\ UNCHANGED data1)
    BY <1>4 DEF AckData0
  <2>2. /\ data1' = data1 /\ faults' \in 0 .. MaxFaults
        /\ \/ UNCHANGED <<data0, acked>>
           \/ data0' = Clear0 /\ acked' = sent
    BY <1>0, <2>1, WriteCases DEF regs, Types
  <2>3. Clear0 \in [low: 0 .. 255, bytes: [1 .. 3 -> Bytes]] /\ Clear0.low = 0
    BY <1>0 DEF Clear0, Zeros, Bytes
  <2>4. Types'
    <3>1. acked' \in 0 .. sent /\ data0' \in [low: 0 .. 255, bytes: [1 .. 3 -> Bytes]]
      BY <1>0, <2>2, <2>3 DEF Types
    <3> QED BY <1>0, <2>1, <2>2, <3>1 DEF Types
  <2>5. ~HasPayload(0) /\ ~IsReply(0)
    BY LowByteKinds
  <2>6. Turns' /\ Lower'
    BY <1>0, <2>1, <2>2, <2>3, <2>5 DEF Turns, Lower
  <2> QED BY <1>2, <2>4, <2>6 DEF PacketInv
<1> QED BY <1>3, <1>4

\* The firmware places what it has to say.
LEMMA PlacePacket ==
  ASSUME PacketInv, Firmware
  PROVE  PacketInv'
<1>0. /\ UNCHANGED <<pc, low, buffer, out, status, stop, faults, acked>>
      /\ Types /\ Turns /\ Lower /\ Placing /\ MaxBytes \in Nat /\ MaxReplies \in Nat
  BY TerminalAssumption DEF PacketInv, Firmware, PlaceData1, PlaceData0, PlaceReply, tool
<1>1. data0.low = 0 /\ data0 = Clear0 /\ acked = sent /\ sent \in Nat
  BY <1>0 DEF Firmware, PlaceData1, PlaceData0, PlaceReply, Turns, Clear0, Types
<1>2. /\ ~HasPayload(0) /\ ~IsReply(0)
      /\ pc \notin {"reply", "data1", "ack1", "ack0"}
  BY <1>0, <1>1, LowByteKinds DEF Turns
<1>3. ASSUME NEW t \in Shapes, NEW n \in 1 .. 7, PlaceData1(t, n) PROVE PacketInv'
  <2>1. /\ place' = [shape |-> t, n |-> n] /\ sent + n <= MaxBytes
        /\ data1' = IF t = "evt" /\ n <= 3 THEN data1
                    ELSE [i \in 1 .. 4 |-> PlacedByte(place', i + 3)]
        /\ UNCHANGED <<data0, sent, replies>>
    BY <1>3 DEF PlaceData1
  <2>2. place' \in Packets /\ place'.n = n
    BY <2>1 DEF Packets
  <2>3. ASSUME NEW i \in 1 .. 4
        PROVE  PlacedByte(place', i + 3) \in Bytes /\ (i + 3 <= n => PlacedByte(place', i + 3) = sent + 3 + i)
    BY <1>0, <1>1, <2>1, <2>2 DEF PlacedByte, Bytes
  <2>4. data1' \in [1 .. 4 -> Bytes]
    BY <1>0, <2>1, <2>3 DEF Types
  <2>5. Types'
    BY <1>0, <2>1, <2>2, <2>4 DEF Types
  <2>6. Placing'
    <3> SUFFICES ASSUME NEW i \in 1 .. 4, i + 3 <= n PROVE data1'[i] = sent + 3 + i
      BY <2>1, <2>2 DEF Placing, Upper
    <3> QED BY <2>1, <2>3
  <2>7. Turns' /\ Lower'
    BY <1>0, <1>1, <1>2, <2>1, <2>2 DEF Turns, Lower
  <2> QED BY <2>5, <2>6, <2>7 DEF PacketInv
<1>4. CASE PlaceData0
  <2>1. /\ place # NoPacket /\ place' = NoPacket /\ sent' = sent + place.n
        /\ data0' = [low |-> LowByte(place), bytes |-> [i \in 1 .. 3 |-> PlacedByte(place, i)]]
        /\ UNCHANGED <<data1, replies>>
    BY <1>4 DEF PlaceData0
  <2>2. place \in [shape: Shapes, n: 1 .. 7] /\ place.n \in 1 .. 7 /\ sent + place.n <= MaxBytes
    BY <1>0, <2>1 DEF Types, Packets, Turns
  <2>3. /\ LowByte(place) \in 0 .. 255 /\ Announced(LowByte(place)) = place.n /\ HasPayload(LowByte(place))
        /\ LowByte(place) # 0 /\ ~IsReply(LowByte(place))
    BY <2>2, PacketLow, LowByteKinds
  <2>4. ASSUME NEW i \in 1 .. 3
        PROVE  PlacedByte(place, i) \in Bytes /\ (i <= place.n => PlacedByte(place, i) = sent + i)
    BY <1>0, <1>1, <2>2 DEF PlacedByte, Bytes
  <2>5. data0' \in [low: 0 .. 255, bytes: [1 .. 3 -> Bytes]] /\ data0'.low = LowByte(place)
    BY <2>1, <2>3, <2>4
  <2>6. Types'
    <3>1. sent' \in 0 .. MaxBytes /\ acked \in 0 .. sent'
      BY <1>0, <1>1, <2>1, <2>2
    <3> QED BY <1>0, <2>1, <2>5, <3>1 DEF Types, Packets
  <2>7. Turns'
    BY <1>0, <1>2, <2>1, <2>3, <2>5 DEF Turns
  <2>8. Lower'
    BY <1>0, <1>1, <2>1, <2>3, <2>4, <2>5 DEF Lower
  <2>9. Placing'
    BY <2>1 DEF Placing
  <2> QED BY <2>6, <2>7, <2>8, <2>9 DEF PacketInv
<1>5. ASSUME NEW l \in Replies, PlaceReply(l) PROVE PacketInv'
  <2>1. /\ place = NoPacket /\ replies < MaxReplies /\ replies' = replies + 1
        /\ data0' = [low |-> l, bytes |-> Zeros(3)]
        /\ UNCHANGED <<data1, place, sent>>
    BY <1>5 DEF PlaceReply
  <2>2. l \in 0 .. 255 /\ IsReply(l) /\ l # 0 /\ ~HasPayload(l)
    BY ReplyLow, LowByteKinds
  <2>3. data0' \in [low: 0 .. 255, bytes: [1 .. 3 -> Bytes]] /\ data0'.low = l
    BY <1>0, <2>1, <2>2 DEF Zeros, Bytes
  <2>4. Types'
    BY <1>0, <2>1, <2>3 DEF Types
  <2>5. Turns' /\ Lower' /\ Placing'
    BY <1>0, <1>1, <1>2, <2>1, <2>2, <2>3 DEF Turns, Lower, Placing
  <2> QED BY <2>4, <2>5 DEF PacketInv
<1> QED BY <1>3, <1>4, <1>5 DEF Firmware

\* The packet invariant holds initially.
LEMMA PacketInit == Init => PacketInv
<1> SUFFICES ASSUME Init PROVE PacketInv
  OBVIOUS
<1>1. MaxBytes \in Nat /\ MaxReplies \in Nat /\ MaxFaults \in Nat
  BY TerminalAssumption
<1>2. Clear0 \in [low: 0 .. 255, bytes: [1 .. 3 -> Bytes]] /\ Clear1 \in [1 .. 4 -> Bytes] /\ Clear0.low = 0
  BY <1>1 DEF Clear0, Clear1, Zeros, Bytes
<1>3. buffer \in Seq(Bytes) /\ out \in Seq(Bytes) /\ Len(buffer) = 0
  BY EmptySeq DEF Init
<1>4. Types
  <2>1. place \in Packets /\ stop \in BOOLEAN /\ status \in {"ok", "usb", "stdout"}
    BY DEF Init, Packets
  <2>2. /\ sent \in 0 .. MaxBytes /\ replies \in 0 .. MaxReplies /\ faults \in 0 .. MaxFaults
        /\ acked \in 0 .. sent /\ low \in 0 .. 255 /\ Len(buffer) <= 7
    BY <1>1, <1>3 DEF Init
  <2> QED BY <1>2, <1>3, <2>1, <2>2 DEF Init, Types
<1>5. ~HasPayload(0) /\ ~IsReply(0)
  BY LowByteKinds
<1> QED BY <1>2, <1>4, <1>5 DEF Init, PacketInv, Turns, Lower, Placing

\* It is kept by every step of the firmware, of the terminal and of the link.
LEMMA PacketNext == PacketInv /\ [Next]_vars => PacketInv'
<1> SUFFICES ASSUME PacketInv, [Next]_vars PROVE PacketInv'
  OBVIOUS
<1>1. CASE UNCHANGED vars
  BY <1>1 DEF vars, regs, firmware, tool, PacketInv, Types, Turns, Lower, Placing, Upper
<1> QED BY <1>1, ReadPacket, AckPacket, PlacePacket DEF Next, Tool

\* The state is well typed: in particular the tool never takes more than the
\* seven bytes the two registers hold, whatever low byte it reads.
THEOREM TypeCorrect == Spec => []TypeOK
<1>1. PacketInv => TypeOK
  <2> SUFFICES ASSUME PacketInv PROVE TypeOK
    OBVIOUS
  <2>1. place.shape \in Shapes \cup {"none"} /\ place.n \in 0 .. 7
    BY DEF PacketInv, Types, Packets, NoPacket
  <2>2. Len(buffer) \in 0 .. 7
    <3>1. buffer \in Seq(Bytes)
      BY DEF PacketInv, Types
    <3>2. Len(buffer) \in Nat
      BY <3>1, LenProperties
    <3>3. Len(buffer) <= 7
      BY DEF PacketInv, Types
    <3>4. \A k \in Nat : k <= 7 => k \in 0 .. 7
      OBVIOUS
    <3> QED BY <3>2, <3>3, <3>4
  <2> QED BY <2>1, <2>2 DEF TypeOK, PacketInv, Types, Bytes
<1> QED BY <1>1, PacketInit, PacketNext, PTL DEF Spec

---------------------------------------------------------------------------
(* Exactly once *)

\* A run of bytes as a sequence.
LEMMA RunProperties ==
  ASSUME NEW b \in Nat, NEW n \in Nat
  PROVE  /\ Run(b, n) \in Seq(Nat) /\ Len(Run(b, n)) = n
         /\ \A i \in 1 .. n : Run(b, n)[i] = b + i
<1>1. Run(b, n) \in [1 .. n -> Nat]
  BY DEF Run
<1>2. Run(b, n) \in Seq(Nat)
  BY <1>1, SeqDef
<1> QED BY <1>1, <1>2 DEF Run

\* A sequence that counts from b + 1 on is the run behind b.
LEMMA IsRun ==
  ASSUME NEW b \in Nat, NEW n \in Nat, NEW S, NEW s \in Seq(S), Len(s) = n,
         \A i \in 1 .. n : s[i] = b + i
  PROVE  s = Run(b, n)
<1>1. s \in [1 .. n -> S]
  BY LenProperties
<1> QED BY <1>1 DEF Run

\* Two runs, the second behind the first, are one.
LEMMA RunConcat ==
  ASSUME NEW b \in Nat, NEW m \in Nat, NEW n \in Nat
  PROVE  Run(b, m) \o Run(b + m, n) = Run(b, m + n)
<1> DEFINE s == Run(b, m)
           t == Run(b + m, n)
<1>1. /\ s \in Seq(Nat) /\ Len(s) = m /\ \A i \in 1 .. m : s[i] = b + i
      /\ t \in Seq(Nat) /\ Len(t) = n /\ \A i \in 1 .. n : t[i] = b + m + i
  <2>1. b + m \in Nat
    OBVIOUS
  <2> QED BY <2>1, RunProperties
<1> HIDE DEF s, t
<1>2. /\ s \o t \in Seq(Nat) /\ Len(s \o t) = Len(s) + Len(t)
      /\ \A i \in 1 .. Len(s) + Len(t) : (s \o t)[i] = IF i <= Len(s) THEN s[i] ELSE t[i - Len(s)]
  BY <1>1, ConcatProperties
<1>3. ASSUME NEW i \in 1 .. m + n PROVE (s \o t)[i] = b + i
  <2>1. CASE i <= m
    BY <1>1, <1>2, <2>1
  <2>2. CASE ~(i <= m)
    <3>1. i - m \in 1 .. n /\ (b + m) + (i - m) = b + i
      BY <2>2
    <3>2. (s \o t)[i] = t[i - m]
      BY <1>1, <1>2, <2>2
    <3> QED BY <1>1, <3>1, <3>2
  <2> QED BY <2>1, <2>2
<1>4. m + n \in Nat /\ Len(s \o t) = m + n
  BY <1>1, <1>2
<1>5. s \o t = Run(b, m + n)
  BY <1>2, <1>3, <1>4, IsRun
<1> QED BY <1>5 DEF s, t

\* The packet in DATA0 and DATA1 as the tool takes it.
LEMMA TakenFrom0 ==
  ASSUME PacketInv, HasPayload(data0.low)
  PROVE  From0(data0) =
           Run(acked, IF Announced(data0.low) > 3 THEN 3 ELSE Announced(data0.low))
<1> DEFINE n == IF Announced(data0.low) > 3 THEN 3 ELSE Announced(data0.low)
<1>1. data0 \in [low: 0 .. 255, bytes: [1 .. 3 -> Bytes]] /\ acked \in Nat
  BY DEF PacketInv, Types
<1>2. /\ From0(data0) \in Seq(Bytes) /\ Len(From0(data0)) = n /\ n \in 1 .. 3
      /\ \A i \in 1 .. n : From0(data0)[i] = data0.bytes[i]
  BY <1>1, From0Properties
<1>3. Announced(data0.low) \in 1 .. 7
  BY <1>1, LowByteKinds
<1>4. \A i \in 1 .. n : data0.bytes[i] = acked + i
  BY <1>2, <1>3 DEF PacketInv, Lower
<1> HIDE DEF n
<1>5. From0(data0) = Run(acked, n)
  BY <1>1, <1>2, <1>4, IsRun
<1> QED BY <1>5 DEF n

\* The payload of DATA0 and DATA1 together is the run the firmware put there.
LEMMA TakenFrom1 ==
  ASSUME data1 \in [1 .. 4 -> Bytes], NEW b \in Nat, NEW n \in 4 .. 7, Upper(b, n)
  PROVE  Run(b, 3) \o From1(n - 3) = Run(b, n)
<1>1. n - 3 \in 1 .. 4 /\ n - 3 \in Nat /\ b + 3 \in Nat
  OBVIOUS
<1>2. /\ From1(n - 3) \in Seq(Bytes) /\ Len(From1(n - 3)) = n - 3
      /\ \A i \in 1 .. n - 3 : From1(n - 3)[i] = data1[i]
  BY <1>1, From1Properties
<1>3. \A i \in 1 .. n - 3 : data1[i] = (b + 3) + i
  BY DEF Upper
<1>4. From1(n - 3) = Run(b + 3, n - 3)
  BY <1>1, <1>2, <1>3, IsRun
<1>5. Run(b, 3) \o Run(b + 3, n - 3) = Run(b, 3 + (n - 3))
  BY <1>1, RunConcat
<1>6. 3 + (n - 3) = n
  OBVIOUS
<1> QED BY <1>4, <1>5, <1>6

\* The tool's steps keep the output exact.
LEMMA ToolExact ==
  ASSUME ExactInv, Tool, faults' = 0
  PROVE  Exact'
<1>0. /\ PacketInv /\ Types /\ Turns /\ Lower /\ faults \in Nat /\ acked \in Nat /\ sent \in Nat
      /\ data0.low \in 0 .. 255
  BY DEF ExactInv, PacketInv, Types
<1>1. ~Fault
  BY <1>0 DEF Fault
<1>2. faults = 0 /\ Exact
  <2>1. faults = 0
    BY <1>0, <1>1 DEF Tool, PollData0, PollData1, AckData1, AckData0, Emit, Write
  <2> QED BY <2>1 DEF ExactInv
<1>3. CASE PollData0
  <2>1. /\ UNCHANGED <<data0, data1, acked, out, status>> /\ pc = "poll" /\ status # "stdout"
    BY <1>0, <1>1, <1>3 DEF PollData0, regs, Turns
  <2>2. out = Run(0, acked) /\ (HasPayload(data0.low) => Upper(acked, Announced(data0.low)))
    BY <1>2, <2>1 DEF Exact
  <2>3. CASE pc' \in {"stopped", "reply", "poll"}
    BY <2>1, <2>2, <2>3 DEF Exact, Upper
  <2>4. CASE /\ low' = data0.low /\ HasPayload(low') /\ buffer' = From0(data0)
             /\ pc' = IF Announced(low') > 3 THEN "data1" ELSE "ack0"
    <3>1. buffer' = Run(acked, IF Announced(low') > 3 THEN 3 ELSE Announced(low'))
      BY <1>0, <2>4, TakenFrom0
    <3> QED BY <2>1, <2>2, <2>4, <3>1 DEF Exact, Upper
  <2> QED BY <1>1, <1>3, <2>3, <2>4 DEF PollData0
<1>4. CASE PollData1
  <2>1. /\ UNCHANGED <<data0, data1, acked, out, status, low>> /\ pc = "data1" /\ status # "stdout"
        /\ buffer' = buffer \o From1(Announced(low) - 3) /\ pc' = "ack1"
    BY <1>0, <1>1, <1>4 DEF PollData1, regs, Turns
  <2>2. /\ out = Run(0, acked) /\ Upper(acked, Announced(low)) /\ buffer = Run(acked, 3)
        /\ HasPayload(low) /\ Announced(low) > 3 /\ low = data0.low
    BY <1>0, <1>2, <2>1 DEF Exact, Turns
  <2>3. Announced(low) \in 4 .. 7
    BY <1>0, <2>2, LowByteKinds
  <2>4. buffer' = Run(acked, Announced(low))
    BY <1>0, <2>1, <2>2, <2>3, TakenFrom1 DEF Types
  <2> QED BY <2>1, <2>2, <2>4 DEF Exact, Upper
<1>5. CASE AckData1
  <2>1. /\ UNCHANGED <<data0, acked, out, buffer, low, status>> /\ pc = "ack1" /\ pc' = "ack0"
    BY <1>1, <1>5 DEF AckData1, Write
  <2> QED BY <1>0, <1>2, <2>1 DEF Exact, Turns
<1>6. CASE AckData0
  <2>1. /\ UNCHANGED <<data1, out, buffer, low, status>> /\ data0' = Clear0 /\ acked' = sent
        /\ pc' = IF pc = "ack0" THEN "print" ELSE "poll"
        /\ pc \in {"ack0", "reply"}
    BY <1>1, <1>6 DEF AckData0, Write
  <2>2. ~HasPayload(data0'.low) /\ status # "stdout"
    BY <1>0, <2>1, LowByteKinds DEF Clear0, Turns
  <2>3. CASE pc = "ack0"
    <3>1. /\ out = Run(0, acked) /\ buffer = Run(acked, Announced(low)) /\ HasPayload(low)
          /\ Len(buffer) = Announced(low) /\ acked + Announced(low) = sent
      BY <1>0, <1>2, <2>2, <2>3 DEF Exact, Turns, Lower
    <3>2. Announced(low) \in Nat
      BY <1>0, LowByteKinds DEF Types
    <3>3. sent - Announced(low) = acked /\ Announced(low) <= sent
      BY <1>0, <3>1, <3>2
    <3> QED BY <2>1, <2>2, <2>3, <3>1, <3>3 DEF Exact
  <2>4. CASE pc = "reply"
    <3>1. out = Run(0, acked) /\ acked = sent
      BY <1>0, <1>2, <2>2, <2>4 DEF Exact, Turns
    <3> QED BY <2>1, <2>2, <2>4, <3>1 DEF Exact
  <2> QED BY <2>1, <2>3, <2>4
<1>7. CASE Emit
  <2>1. /\ UNCHANGED <<data0, data1, acked, buffer, low>> /\ pc = "print"
    BY <1>7 DEF Emit, regs
  <2>2. /\ Len(buffer) <= acked /\ out = Run(0, acked - Len(buffer))
        /\ buffer = Run(acked - Len(buffer), Len(buffer))
        /\ (HasPayload(data0.low) => Upper(acked, Announced(data0.low)))
    BY <1>2, <2>1 DEF Exact
  <2>3. CASE pc' = "stopped" /\ status' = "stdout"
    BY <2>1, <2>2, <2>3 DEF Exact, Upper
  <2>4. CASE out' = out \o buffer /\ pc' = "poll"
    <3> DEFINE k == Len(buffer)
    <3>1. k \in Nat
      BY <1>0, LenProperties DEF Types
    <3> HIDE DEF k
    <3>2. acked - k \in Nat /\ 0 + (acked - k) = acked - k /\ (acked - k) + k = acked
      BY <1>0, <2>2, <3>1 DEF k
    <3>3. Run(0, acked - k) \o Run(0 + (acked - k), k) = Run(0, (acked - k) + k)
      BY <3>1, <3>2, RunConcat
    <3>4. out' = Run(0, acked)
      BY <2>2, <2>4, <3>2, <3>3 DEF k
    <3> QED BY <2>1, <2>2, <2>4, <3>4 DEF Exact, Upper
  <2> QED BY <1>7, <2>3, <2>4 DEF Emit
<1> QED BY <1>3, <1>4, <1>5, <1>6, <1>7 DEF Tool

\* When DATA0 announces a packet, DATA1 holds the rest of it already.
LEMMA PlacedWhole ==
  ASSUME PacketInv, Firmware, HasPayload(data0'.low)
  PROVE  Upper(acked, Announced(data0.low))'
<1>0. Turns /\ Placing /\ UNCHANGED acked
  BY DEF PacketInv, Firmware, PlaceData1, PlaceData0, PlaceReply
<1>1. ASSUME NEW t \in Shapes, NEW n \in 1 .. 7, PlaceData1(t, n) PROVE ~HasPayload(data0'.low)
  BY <1>1, LowByteKinds DEF PlaceData1, Clear0
<1>2. CASE PlaceData0
  <2>1. place \in [shape: Shapes, n: 1 .. 7] /\ place # NoPacket
    BY <1>2 DEF PlaceData0, PacketInv, Types, Packets
  <2>2. Announced(data0'.low) = place.n
    BY <1>2, <2>1, PacketLow DEF PlaceData0
  <2>3. data0.low = 0 /\ acked = sent
    BY <1>0, <2>1 DEF Turns
  <2> QED BY <1>0, <1>2, <2>1, <2>2, <2>3 DEF Placing, Upper, PlaceData0
<1>3. ASSUME NEW l \in Replies, PlaceReply(l) PROVE ~HasPayload(data0'.low)
  BY <1>3, ReplyLow, LowByteKinds DEF PlaceReply
<1> QED BY <1>1, <1>2, <1>3 DEF Firmware

\* So does what the firmware places.
LEMMA FirmwareExact ==
  ASSUME ExactInv, Firmware, faults' = 0
  PROVE  Exact'
<1>0. PacketInv /\ UNCHANGED <<pc, low, buffer, out, status, faults, acked>>
  BY DEF ExactInv, Firmware, PlaceData1, PlaceData0, PlaceReply, tool
<1>1. Exact
  BY <1>0 DEF ExactInv
<1>2. HasPayload(data0'.low) => Upper(acked, Announced(data0.low))'
  BY <1>0, PlacedWhole
<1> QED BY <1>0, <1>1, <1>2 DEF Exact

\* Without failed accesses every byte is printed once, in order: the two
\* registers never mix bytes of two packets.
THEOREM PrintedOnce == Spec => []ExactlyOnce
<1>1. Init => ExactInv
  <2> SUFFICES ASSUME Init PROVE Exact
    BY PacketInit DEF ExactInv
  <2>1. ~HasPayload(data0.low)
    BY LowByteKinds DEF Init, Clear0
  <2>2. out = Run(0, acked)
    <3>1. out \in Seq(Nat) /\ Len(out) = 0 /\ acked = 0
      BY EmptySeq DEF Init
    <3>2. out \in [1 .. 0 -> Nat]
      BY <3>1, LenProperties
    <3> QED BY <3>1, <3>2 DEF Run
  <2> QED BY <2>1, <2>2 DEF Init, Exact
<1>2. ExactInv /\ [Next]_vars => ExactInv'
  <2> SUFFICES ASSUME ExactInv, [Next]_vars, faults' = 0 PROVE Exact'
    BY PacketNext DEF ExactInv
  <2>1. CASE UNCHANGED vars \/ terminal_signal
    BY <2>1 DEF vars, terminal_signal, regs, firmware, tool, ExactInv, Exact, Upper
  <2> QED BY <2>1, ToolExact, FirmwareExact DEF Next
<1>3. ExactInv => ExactlyOnce
  BY DEF ExactInv, Exact, ExactlyOnce, Between, Run
<1> QED BY <1>1, <1>2, <1>3, PTL DEF Spec

---------------------------------------------------------------------------
(* Nothing is lost *)

\* What is printed stays printed.
LEMMA ConcatSets ==
  ASSUME NEW S, NEW s \in Seq(S), NEW t \in Seq(S)
  PROVE  ToSet(s) \subseteq ToSet(s \o t)
<1>1. /\ s \o t \in Seq(S) /\ Len(s \o t) = Len(s) + Len(t)
      /\ \A i \in 1 .. Len(s) + Len(t) : (s \o t)[i] = IF i <= Len(s) THEN s[i] ELSE t[i - Len(s)]
  BY ConcatProperties
<1>2. /\ DOMAIN s = 1 .. Len(s) /\ Len(s) \in Nat /\ Len(t) \in Nat
      /\ DOMAIN (s \o t) = 1 .. Len(s) + Len(t)
  BY <1>1, LenProperties
<1>3. ASSUME NEW i \in 1 .. Len(s) PROVE i \in 1 .. Len(s) + Len(t) /\ (s \o t)[i] = s[i]
  BY <1>1, <1>2
<1> QED BY <1>2, <1>3 DEF ToSet

\* Printing the next bytes, whole or with zeros in the end, keeps every byte
\* behind the bytes before it.
LEMMA ExtendClosed ==
  ASSUME NEW S \in SUBSET Nat, NEW s \in Seq(S), NEW t \in Seq(S), NEW b \in Nat, NEW m \in 0 .. Len(t),
         Closed(s), 1 .. b \subseteq ToSet(s),
         \A i \in 1 .. m : t[i] = b + i,
         \A i \in m + 1 .. Len(t) : t[i] = 0
  PROVE  Closed(s \o t) /\ 1 .. b + m \subseteq ToSet(s \o t)
<1> DEFINE r == s \o t
<1>1. /\ r \in Seq(S) /\ Len(r) = Len(s) + Len(t)
      /\ \A i \in 1 .. Len(s) + Len(t) : r[i] = IF i <= Len(s) THEN s[i] ELSE t[i - Len(s)]
  BY ConcatProperties
<1>2. /\ DOMAIN s = 1 .. Len(s) /\ Len(s) \in Nat /\ Len(t) \in Nat
      /\ DOMAIN r = 1 .. Len(s) + Len(t)
  BY <1>1, LenProperties
<1> HIDE DEF r
<1>3. ASSUME NEW i \in 1 .. Len(s) PROVE i \in 1 .. Len(s) + Len(t) /\ r[i] = s[i]
  BY <1>1, <1>2
<1>4. ASSUME NEW i \in 1 .. m PROVE Len(s) + i \in 1 .. Len(s) + Len(t) /\ r[Len(s) + i] = b + i
  <2>1. Len(s) + i \in 1 .. Len(s) + Len(t) /\ ~(Len(s) + i <= Len(s)) /\ (Len(s) + i) - Len(s) = i
    BY <1>2
  <2>2. r[Len(s) + i] = t[i]
    BY <1>1, <2>1
  <2> QED BY <2>1, <2>2
\* Where the bytes up to the b-th are.
<1>5. ASSUME NEW v \in 1 .. b PROVE \E k \in 1 .. Len(s) : r[k] = v
  <2>1. v \in ToSet(s)
    OBVIOUS
  <2>2. PICK k \in 1 .. Len(s) : s[k] = v
    BY <1>2, <2>1 DEF ToSet
  <2> QED BY <1>3, <2>2
<1>6. ASSUME NEW j \in 1 .. Len(s) + Len(t), NEW v \in 1 .. r[j] - 1
      PROVE  \E k \in 1 .. j - 1 : r[k] = v
  <2>1. CASE j \in 1 .. Len(s)
    <3>1. v \in 1 .. s[j] - 1
      BY <1>3, <2>1
    <3>2. PICK k \in 1 .. j - 1 : s[k] = v
      BY <2>1, <3>1 DEF Closed
    <3>3. k \in 1 .. Len(s)
      BY <1>2, <2>1, <3>2
    <3> QED BY <1>3, <3>2, <3>3
  <2>2. CASE j \notin 1 .. Len(s)
    <3> DEFINE i == j - Len(s)
    <3>1. i \in 1 .. Len(t) /\ r[j] = t[i] /\ j = Len(s) + i
      BY <1>1, <1>2, <2>2
    <3> HIDE DEF i
    <3>2. i \in 1 .. m
      <4>1. CASE i \in m + 1 .. Len(t)
        <5>1. t[i] = 0
          BY <4>1
        <5>2. r[j] = 0
          BY <3>1, <5>1
        <5> QED BY <1>6, <5>2
      <4> QED BY <1>2, <3>1, <4>1
    <3>3. r[j] = b + i
      BY <3>1, <3>2
    <3>4. CASE v \in 1 .. b
      <4>1. PICK k \in 1 .. Len(s) : r[k] = v
        BY <1>5, <3>4
      <4>2. k \in 1 .. j - 1
        BY <1>2, <3>1, <3>2, <4>1
      <4> QED BY <4>1, <4>2
    <3>5. CASE v \notin 1 .. b
      <4>1. v - b \in 1 .. i - 1 /\ v - b \in 1 .. m
        BY <1>2, <1>6, <3>2, <3>3, <3>5
      <4>2. r[Len(s) + (v - b)] = b + (v - b)
        BY <1>4, <4>1
      <4>3. Len(s) + (v - b) \in 1 .. j - 1 /\ b + (v - b) = v
        BY <1>2, <3>1, <3>2, <4>1
      <4> QED BY <4>2, <4>3
    <3> QED BY <3>4, <3>5
  <2> QED BY <2>1, <2>2
<1>7. Closed(r)
  BY <1>1, <1>6 DEF Closed
<1>8. ASSUME NEW v \in 1 .. b + m PROVE v \in ToSet(r)
  <2>1. CASE v \in 1 .. b
    <3>1. PICK k \in 1 .. Len(s) : r[k] = v
      BY <1>5, <2>1
    <3>2. k \in DOMAIN r
      BY <1>2, <1>3, <3>1
    <3> QED BY <3>1, <3>2 DEF ToSet
  <2>2. CASE v \notin 1 .. b
    <3>1. v - b \in 1 .. m /\ b + (v - b) = v
      BY <1>2, <2>2
    <3>2. Len(s) + (v - b) \in DOMAIN r /\ r[Len(s) + (v - b)] = v
      BY <1>2, <1>4, <3>1
    <3> QED BY <3>2 DEF ToSet
  <2> QED BY <2>1, <2>2
<1> QED BY <1>7, <1>8 DEF r

\* DATA0 is polled.
LEMMA PollData0Kept ==
  ASSUME PacketInv, Kept, PollData0
  PROVE  Kept'
<1>0. /\ UNCHANGED <<data0, data1, acked, out, sent>> /\ pc = "poll" /\ Coming = out
      /\ acked \in Nat /\ sent \in Nat /\ out \in Seq(Bytes) /\ Bytes \in SUBSET Nat
      /\ data0.low \in 0 .. 255
  BY DEF PollData0, regs, firmware, Coming, PacketInv, Types, Bytes
<1>1. CASE pc' \in {"stopped", "reply", "poll"}
  BY <1>0, <1>1 DEF Kept, Coming, Upper
<1>2. CASE /\ low' = data0.low /\ HasPayload(low') /\ buffer' = From0(data0)
           /\ pc' = IF Announced(low') > 3 THEN "data1" ELSE "ack0"
  <2> DEFINE n == Announced(data0.low)
  <2>1. buffer' = Run(acked, IF n > 3 THEN 3 ELSE n) /\ n \in 1 .. 7
    BY <1>0, <1>2, TakenFrom0, LowByteKinds
  <2>2. CASE n > 3
    <3>1. pc' = "data1" /\ buffer' = Run(acked, 3)
      BY <1>2, <2>1, <2>2
    <3> QED BY <1>0, <3>1 DEF Kept, Coming, Upper
  <2>3. CASE ~(n > 3)
    <3>1. pc' = "ack0" /\ buffer' = Run(acked, n) /\ acked + n = sent
      BY <1>2, <2>1, <2>3 DEF PacketInv, Lower
    <3>2. buffer' \in Seq(Bytes) /\ Len(buffer') = n /\ \A i \in 1 .. n : buffer'[i] = acked + i
      <4>1. buffer' \in Seq(Bytes)
        BY <1>2, From0Properties DEF PacketInv, Types
      <4>2. n \in Nat
        BY <2>1
      <4>3. Len(Run(acked, n)) = n /\ \A i \in 1 .. n : Run(acked, n)[i] = acked + i
        BY <1>0, <4>2, RunProperties
      <4> QED BY <3>1, <4>1, <4>3
    <3>3. Closed(out) /\ 1 .. acked \subseteq ToSet(out)
      BY <1>0 DEF Kept
    <3>4. n \in 0 .. Len(buffer') /\ \A i \in n + 1 .. Len(buffer') : buffer'[i] = 0
      BY <2>1, <3>2
    <3>5. Closed(out \o buffer') /\ 1 .. acked + n \subseteq ToSet(out \o buffer')
      BY <1>0, <3>2, <3>3, <3>4, ExtendClosed
    <3>6. Coming' = out \o buffer'
      BY <1>0, <3>1 DEF Coming
    <3>7. 1 .. acked \subseteq ToSet(out \o buffer') /\ 1 .. sent \subseteq ToSet(out \o buffer')
      BY <1>0, <2>1, <3>1, <3>5
    <3> QED BY <1>0, <3>1, <3>5, <3>6, <3>7 DEF Kept, Upper
  <2> QED BY <2>2, <2>3
<1> QED BY <1>1, <1>2 DEF PollData0

\* DATA1 is polled: it holds the rest of the packet, or zeros when the packet was
\* printed before.
LEMMA PollData1Kept ==
  ASSUME PacketInv, Kept, PollData1
  PROVE  Kept'
<1>0. /\ UNCHANGED <<data0, data1, acked, out, sent, low>> /\ pc = "data1" /\ Coming = out
      /\ acked \in Nat /\ sent \in Nat /\ out \in Seq(Bytes) /\ Bytes \in SUBSET Nat
      /\ data1 \in [1 .. 4 -> Bytes] /\ buffer \in Seq(Bytes)
  BY DEF PollData1, regs, firmware, Coming, PacketInv, Types, Bytes
<1> DEFINE n == Announced(low)
<1>1. /\ low = data0.low /\ HasPayload(low) /\ n \in 4 .. 7 /\ buffer = Run(acked, 3)
      /\ acked + n = sent
  <2>1. low = data0.low /\ HasPayload(low) /\ n > 3 /\ low \in 0 .. 255
    BY <1>0 DEF PacketInv, Turns, Types
  <2>2. n \in 1 .. 7
    BY <2>1, LowByteKinds
  <2> QED BY <1>0, <2>1, <2>2 DEF PacketInv, Lower, Kept
<1>2. CASE pc' = "stopped"
  BY <1>0, <1>2 DEF Kept, Coming, Upper
<1>3. CASE buffer' = buffer \o From1(n - 3) /\ pc' = "ack1"
  <2>1. Closed(out) /\ 1 .. acked \subseteq ToSet(out)
    BY <1>0 DEF Kept
  <2>2. n - 3 \in 1 .. 4
    BY <1>1
  <2>3. /\ From1(n - 3) \in Seq(Bytes) /\ Len(From1(n - 3)) = n - 3
        /\ \A i \in 1 .. n - 3 : From1(n - 3)[i] = data1[i]
    BY <1>0, <2>2, From1Properties
  <2>4. Len(buffer) = 3 /\ \A i \in 1 .. 3 : buffer[i] = acked + i
    BY <1>0, <1>1, RunProperties
  <2>5. /\ buffer' \in Seq(Bytes) /\ Len(buffer') = Len(buffer) + Len(From1(n - 3))
        /\ \A i \in 1 .. Len(buffer) + Len(From1(n - 3)) :
             buffer'[i] = IF i <= Len(buffer) THEN buffer[i] ELSE From1(n - 3)[i - Len(buffer)]
    BY <1>0, <1>3, <2>3, ConcatProperties
  <2>6. Len(buffer) + Len(From1(n - 3)) = n
    <3>1. Len(buffer) = 3 /\ Len(From1(n - 3)) = n - 3
      BY <2>3, <2>4
    <3>2. 3 + (n - 3) = n
      BY <1>1
    <3> QED BY <3>1, <3>2
  <2>7. Coming' = out \o buffer'
    BY <1>0, <1>3 DEF Coming
  <2>8. ToSet(out) \subseteq ToSet(out \o buffer')
    BY <1>0, <2>5, ConcatSets
  <2>9. CASE Upper(acked, n)
    <3>1. buffer' = Run(acked, n)
      <4>1. Run(acked, 3) \o From1(n - 3) = Run(acked, n)
        BY <1>0, <1>1, <2>9, TakenFrom1
      <4> QED BY <1>1, <1>3, <4>1
    <3>2. \A i \in 1 .. n : buffer'[i] = acked + i
      <4>1. n \in Nat
        BY <1>1
      <4>2. \A i \in 1 .. n : Run(acked, n)[i] = acked + i
        BY <1>0, <4>1, RunProperties
      <4> QED BY <3>1, <4>2
    <3>3. n \in 0 .. Len(buffer') /\ \A i \in n + 1 .. Len(buffer') : buffer'[i] = 0
      BY <1>1, <2>5, <2>6
    <3>4. Closed(out \o buffer') /\ 1 .. acked + n \subseteq ToSet(out \o buffer')
      BY <1>0, <2>1, <2>5, <3>2, <3>3, ExtendClosed
    <3> QED BY <1>0, <1>1, <1>3, <2>1, <2>7, <2>8, <2>9, <3>4 DEF Kept, Upper
  <2>10. CASE data1 = Clear1 /\ 1 .. sent \subseteq ToSet(out)
    <3>1. \A i \in 1 .. 3 : buffer'[i] = acked + i
      <4>1. ASSUME NEW i \in 1 .. 3 PROVE buffer'[i] = buffer[i]
        BY <1>1, <2>4, <2>5, <2>6
      <4> QED BY <2>4, <4>1
    <3>2. \A i \in 3 + 1 .. Len(buffer') : buffer'[i] = 0
      <4> SUFFICES ASSUME NEW i \in 3 + 1 .. n PROVE buffer'[i] = 0
        BY <2>5, <2>6
      <4>1. i - 3 \in 1 .. n - 3 /\ i \in 1 .. n /\ ~(i <= 3) /\ i - 3 \in 1 .. 4
        BY <1>1
      <4>2. buffer'[i] = From1(n - 3)[i - 3]
        BY <2>4, <2>5, <2>6, <4>1
      <4>3. data1[i - 3] = 0
        BY <2>10, <4>1 DEF Clear1, Zeros
      <4> QED BY <2>3, <4>1, <4>2, <4>3
    <3>3. 3 \in 0 .. Len(buffer')
      BY <1>1, <2>5, <2>6
    <3>4. Closed(out \o buffer')
      BY <1>0, <2>1, <2>5, <3>1, <3>2, <3>3, ExtendClosed
    <3> QED BY <1>0, <1>3, <2>1, <2>7, <2>8, <2>10, <3>4 DEF Kept
  <2> QED BY <1>0, <1>1, <2>9, <2>10 DEF Kept
<1> QED BY <1>2, <1>3 DEF PollData1

\* The registers are handed back, or not.
LEMMA AckKept ==
  ASSUME PacketInv, Kept, AckData1 \/ AckData0
  PROVE  Kept'
<1>0. /\ UNCHANGED <<out, buffer, sent, low>> /\ faults \in 0 .. MaxFaults /\ data0.low \in 0 .. 255
  BY DEF AckData1, AckData0, firmware, PacketInv, Types
<1>1. CASE AckData1
  <2>1. /\ pc = "ack1" /\ pc' = "ack0" /\ Write(data1' = Clear1 /\ UNCHANGED <<data0, acked>>)
    BY <1>1 DEF AckData1
  <2>2. UNCHANGED <<data0, acked>> /\ (data1' = data1 \/ data1' = Clear1)
    BY <1>0, <2>1, WriteCases DEF regs
  <2>3. Coming' = Coming /\ 1 .. sent \subseteq ToSet(Coming)
    BY <1>0, <2>1 DEF Coming, Kept
  <2> QED BY <1>0, <2>1, <2>2, <2>3 DEF Kept, Upper
<1>2. CASE AckData0
  <2>1. /\ pc \in {"ack0", "reply"} /\ pc' = IF pc = "ack0" THEN "print" ELSE "poll"
        /\ Write(data0' = Clear0 /\ acked' = sent /\ UNCHANGED data1)
    BY <1>2 DEF AckData0
  <2>2. /\ data1' = data1
        /\ \/ UNCHANGED <<data0, acked>>
           \/ data0' = Clear0 /\ acked' = sent
    BY <1>0, <2>1, WriteCases DEF regs
  <2>3. Coming' = Coming
    BY <1>0, <2>1 DEF Coming
  <2>4. 1 .. sent \subseteq ToSet(Coming)
    BY <2>1 DEF Kept, PacketInv, Turns
  <2>5. ~HasPayload(Clear0.low)
    BY LowByteKinds DEF Clear0
  <2> QED BY <1>0, <2>1, <2>2, <2>3, <2>4, <2>5 DEF Kept, Upper
<1> QED BY <1>1, <1>2

\* The other steps.
LEMMA OtherKept ==
  ASSUME PacketInv, Kept, Emit \/ terminal_signal \/ Firmware \/ UNCHANGED vars, status' # "stdout"
  PROVE  Kept'
<1>1. CASE Emit
  <2>1. /\ pc = "print" /\ pc' = "poll" /\ out' = out \o buffer
        /\ UNCHANGED <<data0, data1, acked, sent>>
    BY <1>1 DEF Emit, regs, firmware
  <2>2. Coming' = Coming
    BY <2>1 DEF Coming
  <2> QED BY <2>1, <2>2 DEF Kept, Upper
<1>2. CASE terminal_signal \/ UNCHANGED vars
  BY <1>2 DEF terminal_signal, vars, regs, firmware, tool, Kept, Coming, Upper
<1>3. CASE Firmware
  <2>1. UNCHANGED <<pc, out, buffer, acked, low>>
    BY <1>3 DEF Firmware, PlaceData1, PlaceData0, PlaceReply, tool
  <2>2. pc \notin {"data1", "ack1", "ack0"}
    <3>1. data0.low = 0
      BY <1>3 DEF Firmware, PlaceData1, PlaceData0, PlaceReply, Clear0, PacketInv, Turns
    <3> QED BY <3>1, LowByteKinds DEF PacketInv, Turns
  <2>3. HasPayload(data0'.low) => Upper(acked, Announced(data0.low))'
    BY <1>3, PlacedWhole
  <2> QED BY <2>1, <2>2, <2>3 DEF Kept, Coming
<1> QED BY <1>1, <1>2, <1>3

\* A byte that was printed was printed a first time.
LEMMA FirstAtProperties ==
  ASSUME out \in Seq(Bytes), NEW i \in ToSet(out)
  PROVE  /\ FirstAt(i) \in 1 .. Len(out) /\ out[FirstAt(i)] = i
         /\ \A k \in 1 .. FirstAt(i) - 1 : out[k] # i
<1> DEFINE R == OpToRel(<, Nat)
           S == {j \in 1 .. Len(out) : out[j] = i}
<1>1. \A x, y \in Nat : <<y, x>> \in R <=> y < x
  BY DEF OpToRel
<1>2. IsWellFoundedOn(R, Nat)
  BY NatLessThanWellFounded
<1>3. Len(out) \in Nat /\ DOMAIN out = 1 .. Len(out)
  BY LenProperties
<1>4. S \subseteq Nat /\ S # {}
  BY <1>3 DEF ToSet
<1> HIDE DEF R, S
<1>5. PICK j \in S : \A k \in S : <<k, j>> \notin R
  BY <1>2, <1>4, WFMin
<1>6. j \in 1 .. Len(out) /\ out[j] = i
  BY <1>5 DEF S
<1>7. ASSUME NEW k \in 1 .. j - 1 PROVE out[k] # i
  <2>1. k \in 1 .. Len(out) /\ k \in Nat /\ j \in Nat /\ k < j
    BY <1>3, <1>6
  <2>2. k \notin S
    BY <1>1, <1>5, <2>1
  <2> QED BY <2>1, <2>2 DEF S
<1> QED BY <1>6, <1>7 DEF FirstAt

\* Whatever accesses fail, a byte the firmware was told to forget has been
\* printed, after the bytes before it.
THEOREM NothingIsLost == Spec => []NothingLost
<1>1. Init => KeptInv
  <2> SUFFICES ASSUME Init PROVE Kept
    BY PacketInit DEF KeptInv
  <2>1. ~HasPayload(data0.low)
    BY LowByteKinds DEF Init, Clear0
  <2>2. Coming = <<>> /\ Len(Coming) = 0
    BY EmptySeq DEF Init, Coming
  <2>3. Closed(Coming)
    BY <2>2 DEF Closed
  <2>4. 1 .. acked = {}
    BY DEF Init
  <2> QED BY <2>1, <2>3, <2>4 DEF Init, Kept
<1>2. KeptInv /\ [Next]_vars => KeptInv'
  <2> SUFFICES ASSUME KeptInv, [Next]_vars, status' # "stdout" PROVE Kept'
    BY PacketNext DEF KeptInv
  <2>1. status # "stdout"
    <3>1. ASSUME status = "stdout" PROVE FALSE
      <4>1. pc = "stopped"
        BY <3>1 DEF KeptInv, PacketInv, Turns
      <4> QED BY <3>1, <4>1 DEF Next, Tool, Firmware, PollData0, PollData1, AckData1, AckData0, Emit,
                PlaceData1, PlaceData0, PlaceReply, terminal_signal, vars, tool
    <3> QED BY <3>1
  <2>2. PacketInv /\ Kept
    BY <2>1 DEF KeptInv
  <2> QED BY <2>2, PollData0Kept, PollData1Kept, AckKept, OtherKept DEF Next, Tool
<1>3. KeptInv => NothingLost
  <2> SUFFICES ASSUME KeptInv, Between PROVE /\ 1 .. acked \subseteq ToSet(out)
                                             /\ \A i, j \in 1 .. acked : i < j => FirstAt(i) < FirstAt(j)
    BY DEF NothingLost
  <2>1. /\ 1 .. acked \subseteq ToSet(out) /\ Closed(out) /\ out \in Seq(Bytes) /\ acked \in Nat
    BY DEF KeptInv, Kept, Coming, Between, PacketInv, Types
  <2>2. ASSUME NEW i \in 1 .. acked, NEW j \in 1 .. acked, i < j PROVE FirstAt(i) < FirstAt(j)
    <3>1. /\ FirstAt(i) \in 1 .. Len(out) /\ out[FirstAt(i)] = i
          /\ \A k \in 1 .. FirstAt(i) - 1 : out[k] # i
          /\ FirstAt(j) \in 1 .. Len(out) /\ out[FirstAt(j)] = j
      BY <2>1, FirstAtProperties
    <3>2. Len(out) \in Nat
      BY <2>1, LenProperties
    <3>3. PICK k \in 1 .. FirstAt(j) - 1 : out[k] = i
      <4>1. i \in 1 .. j - 1
        BY <2>1, <2>2
      <4>2. FirstAt(j) \in 1 .. Len(out) /\ i \in 1 .. out[FirstAt(j)] - 1
        BY <3>1, <4>1
      <4>3. Closed(out)
        BY <2>1
      <4> QED BY <4>2, <4>3 DEF Closed
    <3>4. k \notin 1 .. FirstAt(i) - 1
      BY <3>1, <3>3
    <3> QED BY <3>1, <3>2, <3>3, <3>4
  <2> QED BY <2>1, <2>2
<1> QED BY <1>1, <1>2, <1>3, PTL DEF Spec
=============================================================================
