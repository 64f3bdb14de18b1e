----------------------------- MODULE RspFraming -----------------------------
(***************************************************************************)
(* The remote serial protocol under gdb_server.c: gdb_recv_packet,         *)
(* gdb_send_packet and gdb_wait_for_stop, which all read the same byte     *)
(* stream, against a client that acknowledges, asks for repeats when it    *)
(* has waited too long, and interrupts.                                    *)
(*                                                                         *)
(* The stream is TCP: nothing is lost or reordered.  An element of it is a *)
(* packet or a single byte outside packets.                                *)
(***************************************************************************)
EXTENDS Naturals, Sequences

CONSTANTS
  PacketMax,   \* GDB_PACKET_MAX
  PacketSize,  \* the size the reply to qSupported offers
  Lengths,     \* lengths of the client's packets
  DocLen,      \* length of target.xml
  Wants,       \* how much of it the client asks for at a time
  MaxOutput,   \* packets of console output before a reply
  MaxRequests, \* bound
  MaxNaks,     \* bound: repeats the client asks for
  MaxInts      \* bound: interrupts

ASSUME FramingAssumption ==
  /\ PacketMax \in Nat \ {0} /\ PacketSize \in Nat
  /\ Lengths \subseteq 1 .. PacketSize
  /\ DocLen \in 1 .. PacketMax - 1 /\ Wants \subseteq Nat \ {0}
  /\ MaxOutput \in Nat /\ MaxRequests \in Nat /\ MaxNaks \in Nat /\ MaxInts \in Nat

VARIABLES
  toServer, toClient,
  \* the server
  spc,       \* "recv", "run" (gdb_wait_for_stop), "ack" (after a send), "closed"
  framed,    \* the packet last sent
  left,      \* the packets still to be sent for this request
  resends,   \* how often framed was sent again
  \* the client
  cpc,       \* "idle", "ack" or "reply"
  asked,     \* number of its last request
  running,   \* that request resumes the program
  answered,  \* what the last reply it took was a reply to
  fetched,   \* how much of target.xml it has
  whole,     \* it has been told that this is all
  naks, ints

server == <<spc, framed, left, resends>>
doc == <<fetched, whole>>
client == <<cpc, asked, running, answered, naks, ints, doc>>
vars == <<toServer, toClient, server, client>>

Ack == [t |-> "+"]
Nak == [t |-> "-"]
Etx == [t |-> "etx"]
Req(n, len, run) == [t |-> "req", n |-> n, len |-> len, run |-> run, off |-> 0, want |-> 0]
Xfer(n, off, want) ==
  [t |-> "req", n |-> n, len |-> 1, run |-> FALSE, off |-> off, want |-> want]
Reply(n) == [t |-> "reply", n |-> n, count |-> 0, more |-> TRUE]
Chunk(n, count, more) == [t |-> "reply", n |-> n, count |-> count, more |-> more]
Output(n) == [t |-> "output", n |-> n]
NoPacket == Output(0)

---------------------------------------------------------------------------
(* The server *)

Read == toServer # <<>> /\ toServer' = Tail(toServer)
Byte == Head(toServer)

\* gdb_send_packet, up to the wait for '+'.
gdb_send_packet(p, rest) ==
  /\ toClient' = Append(toClient, p)
  /\ framed' = p /\ left' = rest /\ resends' = 0 /\ spc' = "ack"

\* The raw buffer keeps one byte for a terminator; the checksum is that of
\* what was kept, which may by chance be the right one.
Fits(len) == len + 1 <= PacketMax
ChecksumOk(len) == IF Fits(len) THEN {TRUE} ELSE BOOLEAN

\* Mutant: a chunk that fills the packet is taken for the last one.
gdb_qxfer_reply_FullIsLast(q) ==
  LET room == IF q.want > PacketMax - 1 THEN PacketMax - 1 ELSE q.want
      count == IF DocLen - q.off > room THEN room ELSE DocLen - q.off
  IN  Chunk(q.n, count, count < room)

\* gdb_qxfer_reply: the part of the document that was asked for and fits, with
\* 'm' if there is more of it and 'l' if not.
gdb_qxfer_reply(q) ==
  LET room == IF q.want > PacketMax - 1 THEN PacketMax - 1 ELSE q.want
      count == IF q.off >= DocLen THEN 0
               ELSE IF DocLen - q.off > room THEN room ELSE DocLen - q.off
  IN  Chunk(q.n, count, count # 0 /\ q.off + count < DocLen)
AnswerTo(q) == IF q.want = 0 THEN Reply(q.n) ELSE gdb_qxfer_reply(q)

\* Mutant: the stop report is the one of an earlier request.
gdb_recv_packet_StaleStop ==
  /\ spc = "recv" /\ Read /\ UNCHANGED client
  /\ \/ Byte.t # "req" /\ UNCHANGED <<toClient, server>>
     \/ /\ Byte.t = "req"
        /\ toClient' = Append(toClient, Ack)
        /\ IF Byte.run THEN spc' = "run" /\ UNCHANGED <<framed, left, resends>>
           ELSE spc' = "send" /\ left' = <<AnswerTo(Byte)>> /\ UNCHANGED <<framed, resends>>

\* gdb_recv_packet: bytes before '$' are skipped; a bad checksum is answered
\* with '-' and ends the session.  A good one is acknowledged, handled and
\* answered, after some console output if it is a monitor command.
gdb_recv_packet ==
  /\ spc = "recv" /\ Read /\ UNCHANGED client
  /\ \/ Byte.t # "req" /\ UNCHANGED <<toClient, server>>
     \/ /\ Byte.t = "req"
        /\ \E good \in ChecksumOk(Byte.len) :
             \/ ~good /\ spc' = "closed" /\ toClient' = Append(toClient, Nak)
                /\ UNCHANGED <<framed, left, resends>>
             \/ /\ good /\ Byte.run
                /\ spc' = "run" /\ toClient' = Append(toClient, Ack)
                /\ framed' = Reply(Byte.n) /\ UNCHANGED <<left, resends>>
             \/ /\ good /\ ~Byte.run
                /\ spc' = "send" /\ toClient' = Append(toClient, Ack)
                /\ \E k \in 0 .. MaxOutput :
                     left' = [i \in 1 .. k |-> Output(Byte.n)] \o <<AnswerTo(Byte)>>
                /\ UNCHANGED <<framed, resends>>

\* The request has been handled; its packets are sent one by one.
SendNext ==
  /\ spc = "send" /\ UNCHANGED <<toServer, client>>
  /\ IF left = <<>> THEN spc' = "recv" /\ UNCHANGED <<toClient, framed, left, resends>>
     ELSE gdb_send_packet(Head(left), Tail(left))

\* Mutant: any byte but '+' repeats the packet.
AwaitAck_AnyByte ==
  /\ spc = "ack" /\ Read /\ UNCHANGED <<client, framed, left>>
  /\ \/ Byte.t = "+" /\ spc' = "send" /\ UNCHANGED <<toClient, resends>>
     \/ /\ Byte.t # "+" /\ toClient' = Append(toClient, framed)
        /\ resends' = resends + 1 /\ UNCHANGED spc

\* gdb_send_packet's loop: '+' ends it, '-' repeats the packet, anything else
\* is ignored.
AwaitAck ==
  /\ spc = "ack" /\ Read /\ UNCHANGED <<client, framed, left>>
  /\ \/ Byte.t = "+" /\ spc' = "send" /\ UNCHANGED <<toClient, resends>>
     \/ /\ Byte.t = "-" /\ toClient' = Append(toClient, framed)
        /\ resends' = resends + 1 /\ UNCHANGED spc
     \/ Byte.t \notin {"+", "-"} /\ UNCHANGED <<toClient, spc, resends>>

\* Mutant: the stop is not reported.
gdb_wait_for_stop_Silent ==
  /\ spc = "run" /\ spc' = "recv"
  /\ UNCHANGED <<toServer, toClient, framed, left, resends, client>>

\* gdb_wait_for_stop: the program stops by itself or because 0x03 came; any
\* other byte is read and forgotten.
gdb_wait_for_stop ==
  /\ spc = "run" /\ UNCHANGED client
  /\ \/ toServer # <<>> /\ Byte.t # "etx" /\ Read /\ UNCHANGED <<toClient, server>>
     \/ toServer # <<>> /\ Byte.t = "etx" /\ Read /\ gdb_send_packet(framed, <<>>)
     \/ gdb_send_packet(framed, <<>>) /\ UNCHANGED toServer

---------------------------------------------------------------------------
(* The client (external): GDB's putpkt and getpkt *)

Send(b) == toServer' = Append(toServer, b)
Take == toClient # <<>> /\ toClient' = Tail(toClient)

Ask(len, run) ==
  /\ cpc = "idle" /\ spc # "closed" /\ asked < MaxRequests
  /\ asked' = asked + 1 /\ running' = run /\ cpc' = "ack"
  /\ Send(Req(asked + 1, len, run))
  /\ UNCHANGED <<toClient, server, answered, naks, ints, doc>>

\* The client reads target.xml from where it is until it is told to stop.
Fetch(want) ==
  /\ cpc = "idle" /\ spc # "closed" /\ asked < MaxRequests /\ ~whole
  /\ asked' = asked + 1 /\ running' = FALSE /\ cpc' = "ack"
  /\ Send(Xfer(asked + 1, fetched, want))
  /\ UNCHANGED <<toClient, server, answered, naks, ints, doc>>

\* It waits for '+'; a packet that comes instead is an old one, acknowledged
\* and dropped.
ReadAck ==
  /\ cpc = "ack" /\ Take /\ UNCHANGED <<server, asked, running, answered, naks, ints, doc>>
  /\ \/ Head(toClient).t = "+" /\ cpc' = "reply" /\ UNCHANGED toServer
     \/ Head(toClient).t = "-" /\ cpc' = "idle" /\ UNCHANGED toServer
     \/ Head(toClient).t \in {"reply", "output"} /\ Send(Ack) /\ UNCHANGED cpc

\* It waits for the reply, printing console output on the way.
ReadReply ==
  /\ cpc = "reply" /\ Take /\ UNCHANGED <<server, asked, running, naks, ints>>
  /\ \/ Head(toClient).t = "output" /\ Send(Ack) /\ UNCHANGED <<cpc, answered, doc>>
     \/ /\ Head(toClient).t = "reply" /\ Send(Ack)
        /\ cpc' = "idle" /\ answered' = Head(toClient).n
        /\ fetched' = fetched + Head(toClient).count
        /\ whole' = (whole \/ ~Head(toClient).more)

\* It asks for a repeat when no packet has come for too long, though one may be
\* about to.  It waits for ever while the program runs.
AskAgain ==
  /\ cpc = "reply" /\ ~running
  /\ naks < MaxNaks /\ naks' = naks + 1 /\ Send(Nak)
  /\ UNCHANGED <<toClient, server, cpc, asked, running, answered, ints, doc>>

SendEtx ==
  /\ cpc = "reply" /\ running /\ ints < MaxInts /\ ints' = ints + 1 /\ Send(Etx)
  /\ UNCHANGED <<toClient, server, cpc, asked, running, answered, naks, doc>>

Init ==
  /\ toServer = <<>> /\ toClient = <<>>
  /\ spc = "recv" /\ framed = NoPacket /\ left = <<>> /\ resends = 0
  /\ cpc = "idle" /\ asked = 0 /\ running = FALSE /\ answered = 0 /\ naks = 0 /\ ints = 0
  /\ fetched = 0 /\ whole = FALSE

Serve == gdb_recv_packet \/ SendNext \/ AwaitAck \/ gdb_wait_for_stop
Listen == ReadAck \/ ReadReply
Next == \/ Serve \/ Listen \/ AskAgain \/ SendEtx
        \/ \E len \in Lengths, run \in BOOLEAN : Ask(len, run)
        \/ \E want \in Wants : Fetch(want)

\* Each side reads what has come in; a program that runs stops sooner or later
\* or is interrupted.
Spec == Init /\ [][Next]_vars /\ WF_vars(Serve) /\ WF_vars(Listen)

---------------------------------------------------------------------------
(* Properties *)

TypeOK ==
  /\ \A i \in DOMAIN toServer : toServer[i].t \in {"+", "-", "etx", "req"}
  /\ \A i \in DOMAIN toClient : toClient[i].t \in {"+", "-", "reply", "output"}
  /\ spc \in {"recv", "run", "send", "ack", "closed"}
  /\ framed.t \in {"reply", "output"} /\ Len(left) <= MaxOutput + 1
  /\ cpc \in {"idle", "ack", "reply"} /\ running \in BOOLEAN
  /\ asked \in 0 .. MaxRequests /\ answered \in 0 .. MaxRequests
  /\ fetched \in 0 .. DocLen /\ whole \in BOOLEAN
  /\ resends \in 0 .. naks /\ naks \in 0 .. MaxNaks /\ ints \in 0 .. MaxInts

\* The request the server handles or handled last: all its packets carry its
\* number.
Handled == IF left # <<>> THEN left[1].n ELSE framed.n
Rpc == INSTANCE RequestReply WITH handled <- Handled, closed <- (spc = "closed")

\* The three loops that read one byte stream implement a request-reply channel:
\* whatever is repeated, acknowledged late or interrupted, each request is
\* handled exactly once, and the client goes on only when it has been answered.
RpcSpec == Rpc!Spec

\* The client has the whole of target.xml exactly when it has been told so,
\* whatever pieces it asked for and whatever was repeated on the way.
DocumentIsWhole == whole <=> fetched = DocLen

\* Every request is answered or refused: the two sides never wait for each other.
RequestAnswered == cpc # "idle" ~> cpc = "idle"
=============================================================================
