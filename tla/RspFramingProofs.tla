-------------------------- MODULE RspFramingProofs --------------------------
(***************************************************************************)
(* Proofs about RspFraming: the three readers of one byte stream implement *)
(* RequestReply, for every packet size, document, number of requests,      *)
(* repeats and interrupts.                                                 *)
(***************************************************************************)
EXTENDS RspFraming, SequenceTheorems, TLAPS

---------------------------------------------------------------------------
(* The invariant *)

\* What is in the two streams.
Packets ==
  [t: {"output"}, n: Nat] \cup [t: {"reply"}, n: Nat, count: Nat, more: BOOLEAN]
Up == {Ack, Nak, Etx}
      \cup [t: {"req"}, n: Nat, len: Nat, run: BOOLEAN, off: Nat, want: Nat]
Down == {Ack, Nak} \cup Packets

Types ==
  /\ toServer \in Seq(Up) /\ toClient \in Seq(Down)
  /\ framed \in Packets /\ left \in Seq(Packets) /\ Len(left) <= MaxOutput + 1
  /\ spc \in {"recv", "run", "send", "ack", "closed"}
  /\ cpc \in {"idle", "ack", "reply"} /\ running \in BOOLEAN
  /\ asked \in 0 .. MaxRequests /\ answered \in 0 .. MaxRequests
  /\ fetched \in 0 .. DocLen /\ whole \in BOOLEAN
  /\ naks \in 0 .. MaxNaks /\ ints \in 0 .. MaxInts /\ resends \in Nat

\* The server has handled the last request or the one before it; no packet is of
\* a later one, and what it sends or may repeat is of the one it handled last.
Numbered ==
  /\ Handled = asked \/ Handled + 1 = asked
  /\ \A i \in 1 .. Len(toClient) :
       toClient[i].t \in {"reply", "output"} => toClient[i].n <= Handled
  /\ framed.n <= Handled /\ \A i \in 1 .. Len(left) : left[i].n = Handled
  /\ spc \in {"ack", "run"} => framed.n = Handled

\* Whose turn it is.
Turns ==
  /\ cpc = "idle" /\ spc # "closed" => answered = asked /\ Handled = asked
  /\ cpc # "idle" => answered + 1 = asked
  /\ cpc = "reply" => Handled = asked
  /\ spc = "closed" => Handled # asked
  /\ spc \in {"recv", "run", "closed"} \/ Handled # asked => left = <<>>
  /\ spc = "run" => Handled = asked

\* The request that is under way is the last, and has not been handled.
Pending ==
  /\ \A i \in 1 .. Len(toServer) : toServer[i].t = "req" =>
       /\ spc # "closed" /\ Handled # asked /\ toServer[i].n = asked
       /\ toServer[i].want = 0 \/ (~whole /\ toServer[i].off = fetched)
  /\ \A i, j \in 1 .. Len(toServer) : toServer[i].t = "req" /\ toServer[j].t = "req" => i = j

\* The answer to the request's packet itself: what comes after it is of this
\* request.
Marks ==
  /\ \A i \in 1 .. Len(toClient) :
       /\ toClient[i].t = "+" => cpc = "ack" /\ Handled = asked
       /\ toClient[i].t = "-" => cpc = "ack" /\ spc = "closed"
  /\ \A i, j \in 1 .. Len(toClient) : toClient[i].t \in {"+", "-"} /\ i < j =>
       toClient[j].t \in {"reply", "output"} /\ toClient[j].n = asked
  /\ cpc = "reply" => \A i \in 1 .. Len(toClient) : toClient[i].n = asked

\* The reply comes last, and the client has not seen it while something is left.
IsReply(p) == p.t = "reply" /\ p.n = asked
Outstanding ==
  /\ \A i \in 1 .. Len(left) : i < Len(left) => left[i].t = "output"
  /\ left # <<>> \/ spc = "run" =>
       cpc # "idle" /\ \A i \in 1 .. Len(toClient) : ~IsReply(toClient[i])
  /\ left # <<>> => ~IsReply(framed)

\* A reply to the request at hand carries the document on from where the client is.
Suitable(p) ==
  fetched + p.count <= DocLen /\ (whole \/ ~p.more <=> fetched + p.count = DocLen)
Document ==
  /\ DocumentIsWhole
  /\ cpc # "idle" =>
       /\ IsReply(framed) => Suitable(framed)
       /\ \A i \in 1 .. Len(left) : IsReply(left[i]) => Suitable(left[i])
       /\ \A i \in 1 .. Len(toClient) : IsReply(toClient[i]) => Suitable(toClient[i])

\* The repeats that have been asked for are numbered: those made come before
\* those still under way.
Repeats ==
  /\ resends <= naks
  /\ \E f \in [1 .. Len(toServer) -> Nat] :
       /\ \A i \in 1 .. Len(toServer) : toServer[i].t = "-" => resends < f[i] /\ f[i] <= naks
       /\ \A i, j \in 1 .. Len(toServer) :
            i < j /\ toServer[i].t = "-" /\ toServer[j].t = "-" => f[i] < f[j]

FrameInv == Types /\ Numbered /\ Turns /\ Pending /\ Marks /\ Outstanding /\ Document

---------------------------------------------------------------------------
(* Streams *)

\* A stream without its first element.
LEMMA TailIs ==
  ASSUME NEW S, NEW s \in Seq(S), s # <<>>
  PROVE  /\ Tail(s) \in Seq(S) /\ Len(s) \in Nat \ {0} /\ Len(Tail(s)) = Len(s) - 1
         /\ Head(s) = s[1] /\ s[1] \in S
         /\ \A i \in 1 .. Len(Tail(s)) : i + 1 \in 1 .. Len(s) /\ Tail(s)[i] = s[i + 1]
OBVIOUS

\* A stream with one element more.
LEMMA AppendIs ==
  ASSUME NEW S, NEW s \in Seq(S), NEW e \in S
  PROVE  /\ Append(s, e) \in Seq(S) /\ Len(s) \in Nat /\ Len(Append(s, e)) = Len(s) + 1
         /\ \A i \in 1 .. Len(s) : Append(s, e)[i] = s[i]
         /\ Append(s, e)[Len(s) + 1] = e
OBVIOUS

\* The kinds of messages.
LEMMA Kinds ==
  /\ Ack.t = "+" /\ Nak.t = "-" /\ Etx.t = "etx"
  /\ {Ack, Nak, Etx} \subseteq Up /\ {Ack, Nak} \cup Packets \subseteq Down
  /\ \A p \in Packets : /\ p.t \in {"reply", "output"} /\ p.n \in Nat
                        /\ p.t = "reply" => p.count \in Nat /\ p.more \in BOOLEAN
  /\ \A m \in Down : m.t \in {"+", "-"} \/ m \in Packets
  /\ \A m \in Up : /\ m.t \in {"+", "-", "etx", "req"}
                   /\ m.t = "req" => /\ {m.n, m.len, m.off, m.want} \subseteq Nat
                                     /\ m.run \in BOOLEAN
<1> USE DEF Ack, Nak, Etx, Up, Down, Packets
<1>1. Ack.t = "+" /\ Nak.t = "-" /\ Etx.t = "etx"
  OBVIOUS
<1>2. {Ack, Nak, Etx} \subseteq Up /\ {Ack, Nak} \cup Packets \subseteq Down
  OBVIOUS
<1>3. ASSUME NEW p \in Packets
      PROVE  /\ p.t \in {"reply", "output"} /\ p.n \in Nat
             /\ p.t = "reply" => p.count \in Nat /\ p.more \in BOOLEAN
  OBVIOUS
<1>4. ASSUME NEW m \in Down PROVE m.t \in {"+", "-"} \/ m \in Packets
  OBVIOUS
<1>5. ASSUME NEW m \in Up
      PROVE  /\ m.t \in {"+", "-", "etx", "req"}
             /\ m.t = "req" => /\ {m.n, m.len, m.off, m.want} \subseteq Nat
                               /\ m.run \in BOOLEAN
  OBVIOUS
<1> QED BY <1>1, <1>2, <1>3, <1>4, <1>5

\* The number of the request that was handled last.
LEMMA HandledIs ==
  ASSUME Types
  PROVE  /\ Handled \in Nat /\ framed.n \in Nat
         /\ left = <<>> => Handled = framed.n
         /\ left # <<>> => Len(left) \in Nat \ {0} /\ Handled = left[1].n
<1>1. framed.n \in Nat
  BY Kinds DEF Types
<1>2. left # <<>> => Len(left) \in Nat \ {0} /\ left[1] \in Packets
  BY TailIs DEF Types
<1>3. left # <<>> => left[1].n \in Nat
  BY <1>2, Kinds
<1> QED BY <1>1, <1>2, <1>3 DEF Handled

\* The bounds are numbers.
LEMMA Bounds ==
  /\ MaxRequests \in Nat /\ MaxNaks \in Nat /\ MaxInts \in Nat /\ MaxOutput \in Nat
  /\ DocLen \in Nat \ {0} /\ PacketMax \in Nat \ {0} /\ DocLen <= PacketMax - 1
BY FramingAssumption

---------------------------------------------------------------------------
(* The client *)

\* Something other than a request goes to the server.
LEMMA SendsByte ==
  ASSUME FrameInv, NEW b \in {Ack, Nak, Etx}, Send(b),
         UNCHANGED <<Handled, spc, asked, fetched, whole>>
  PROVE  toServer' \in Seq(Up) /\ Pending'
<1>1. /\ toServer' \in Seq(Up) /\ Len(toServer') = Len(toServer) + 1 /\ Len(toServer) \in Nat
      /\ \A i \in 1 .. Len(toServer) : toServer'[i] = toServer[i]
      /\ toServer'[Len(toServer) + 1] = b
  BY AppendIs, Kinds DEF Send, FrameInv, Types
<1>2. b.t # "req"
  BY Kinds
<1>3. \A i \in 1 .. Len(toServer') :
        toServer'[i].t = "req" => i \in 1 .. Len(toServer) /\ toServer'[i] = toServer[i]
  BY <1>1, <1>2
<1> QED BY <1>1, <1>3 DEF FrameInv, Pending

\* It asks for a repeat or interrupts.
LEMMA ClientSends == FrameInv /\ (AskAgain \/ SendEtx) => FrameInv'
<1> SUFFICES ASSUME FrameInv, AskAgain \/ SendEtx PROVE FrameInv'
  OBVIOUS
<1>1. /\ UNCHANGED <<toClient, spc, framed, left, resends, cpc, asked, running, answered,
                     fetched, whole>>
      /\ Send(Nak) \/ Send(Etx)
      /\ naks' \in 0 .. MaxNaks /\ ints' \in 0 .. MaxInts
  BY Bounds DEF AskAgain, SendEtx, server, doc, FrameInv, Types
<1>2. Handled' = Handled
  BY <1>1 DEF Handled
<1>3. toServer' \in Seq(Up) /\ Pending'
  BY <1>1, <1>2, SendsByte
<1>4. Types'
  BY <1>1, <1>3 DEF FrameInv, Types
<1>5. Numbered' /\ Turns' /\ Marks'
  BY <1>1, <1>2 DEF FrameInv, Numbered, Turns, Marks
<1>6. Outstanding' /\ Document'
  BY <1>1 DEF FrameInv, Outstanding, Document, DocumentIsWhole, IsReply, Suitable
<1> QED BY <1>3, <1>4, <1>5, <1>6 DEF FrameInv

\* It sends its next request.
LEMMA ClientAsks ==
  FrameInv /\ ((\E l \in Lengths, r \in BOOLEAN : Ask(l, r)) \/ \E w \in Wants : Fetch(w))
    => FrameInv'
<1> SUFFICES ASSUME FrameInv,
                    (\E l \in Lengths, r \in BOOLEAN : Ask(l, r)) \/ \E w \in Wants : Fetch(w)
             PROVE  FrameInv'
  OBVIOUS
<1>1. /\ UNCHANGED <<toClient, spc, framed, left, resends, answered, naks, ints, fetched, whole>>
      /\ cpc = "idle" /\ cpc' = "ack" /\ spc # "closed" /\ running' \in BOOLEAN
      /\ asked < MaxRequests /\ asked' = asked + 1
  BY DEF Ask, Fetch, server, doc
<1>2. PICK q \in Up : /\ Send(q) /\ q.t = "req" /\ q.n = asked + 1
                      /\ q.want = 0 \/ (~whole /\ q.off = fetched)
  <2>0. asked + 1 \in Nat /\ fetched \in Nat
    BY Bounds DEF FrameInv, Types
  <2>1. ASSUME NEW l \in Lengths, NEW r \in BOOLEAN, Ask(l, r)
        PROVE  \E q \in Up : /\ Send(q) /\ q.t = "req" /\ q.n = asked + 1
                             /\ q.want = 0 \/ (~whole /\ q.off = fetched)
    <3>1. l \in Nat
      BY FramingAssumption
    <3>2. Req(asked + 1, l, r) \in Up
      BY <2>0, <3>1 DEF Req, Up
    <3>3. /\ Req(asked + 1, l, r).t = "req" /\ Req(asked + 1, l, r).n = asked + 1
          /\ Req(asked + 1, l, r).want = 0
      BY DEF Req
    <3> QED BY <2>1, <3>2, <3>3 DEF Ask
  <2>2. ASSUME NEW w \in Wants, Fetch(w)
        PROVE  \E q \in Up : /\ Send(q) /\ q.t = "req" /\ q.n = asked + 1
                             /\ q.want = 0 \/ (~whole /\ q.off = fetched)
    <3>1. w \in Nat
      BY FramingAssumption
    <3>2. Xfer(asked + 1, fetched, w) \in Up
      BY <2>0, <3>1 DEF Xfer, Up
    <3>3. /\ Xfer(asked + 1, fetched, w).t = "req" /\ Xfer(asked + 1, fetched, w).n = asked + 1
          /\ Xfer(asked + 1, fetched, w).off = fetched
      BY DEF Xfer
    <3> QED BY <2>2, <3>2, <3>3 DEF Fetch
  <2> QED BY <2>1, <2>2
<1>3. /\ Handled' = Handled /\ Handled = asked /\ answered = asked /\ asked \in Nat
  BY <1>1 DEF Handled, FrameInv, Turns, Types
<1>4. /\ toServer' \in Seq(Up) /\ Len(toServer') = Len(toServer) + 1 /\ Len(toServer) \in Nat
      /\ \A i \in 1 .. Len(toServer) : toServer'[i] = toServer[i]
      /\ toServer'[Len(toServer) + 1] = q
  BY <1>2, AppendIs DEF Send, FrameInv, Types
<1>5. \A i \in 1 .. Len(toServer) : toServer[i].t # "req"
  BY <1>3 DEF FrameInv, Pending
<1>6. Pending'
  <2>1. \A i \in 1 .. Len(toServer') : toServer'[i].t = "req" => i = Len(toServer) + 1
    BY <1>4, <1>5
  <2> QED BY <1>1, <1>2, <1>3, <1>4, <2>1 DEF Pending
<1>7. Types'
  BY <1>1, <1>4, Bounds DEF FrameInv, Types
<1>8. left = <<>> /\ spc # "run"
  BY <1>1 DEF FrameInv, Outstanding
<1>9. Numbered' /\ Turns'
  BY <1>1, <1>3, <1>8 DEF FrameInv, Numbered, Turns
<1>10. Marks'
  <2>1. \A i \in 1 .. Len(toClient) : toClient[i].t \notin {"+", "-"}
    BY <1>1 DEF FrameInv, Marks
  <2> QED BY <1>1, <2>1 DEF Marks
<1>11. Outstanding'
  BY <1>1, <1>8 DEF FrameInv, Outstanding
<1>12. Document'
  <2>1. \A i \in 1 .. Len(toClient) : ~IsReply(toClient[i])'
    <3> SUFFICES ASSUME NEW i \in 1 .. Len(toClient), toClient[i].t = "reply",
                        toClient[i].n = asked + 1
                 PROVE  FALSE
      BY <1>1 DEF IsReply
    <3> QED BY <1>3 DEF FrameInv, Numbered
  <2>2. ~IsReply(framed)'
    <3>1. framed.n <= asked
      BY <1>3 DEF FrameInv, Numbered
    <3> QED BY <1>1, <1>3, <3>1 DEF IsReply
  <2> QED BY <1>1, <1>8, <2>1, <2>2 DEF FrameInv, Document, DocumentIsWhole
<1> QED BY <1>6, <1>7, <1>9, <1>10, <1>11, <1>12 DEF FrameInv

\* Something is taken from the stream to the client.
LEMMA Takes ==
  ASSUME FrameInv, Take
  PROVE  /\ toClient' \in Seq(Down) /\ toClient[1] \in Down /\ Head(toClient) = toClient[1]
         /\ 1 \in 1 .. Len(toClient) /\ Len(toClient) \in Nat
         /\ \A i \in 1 .. Len(toClient') :
              i + 1 \in 1 .. Len(toClient) /\ 1 < i + 1 /\ toClient'[i] = toClient[i + 1]
BY TailIs DEF Take, FrameInv, Types

\* It reads '+', '-', or a packet of an earlier request.
LEMMA ClientReadsAck == FrameInv /\ ReadAck => FrameInv'
<1> SUFFICES ASSUME FrameInv, ReadAck PROVE FrameInv'
  OBVIOUS
<1>1. /\ UNCHANGED <<spc, framed, left, resends, asked, running, answered, naks, ints,
                     fetched, whole>>
      /\ cpc = "ack" /\ Take
  BY DEF ReadAck, server, doc
<1>2. Handled' = Handled
  BY <1>1 DEF Handled
<1>3. /\ toClient' \in Seq(Down) /\ toClient[1] \in Down /\ Head(toClient) = toClient[1]
      /\ 1 \in 1 .. Len(toClient) /\ Len(toClient) \in Nat
      /\ \A i \in 1 .. Len(toClient') :
           i + 1 \in 1 .. Len(toClient) /\ 1 < i + 1 /\ toClient'[i] = toClient[i + 1]
  BY <1>1, Takes
<1>4. Numbered'
  BY <1>1, <1>2, <1>3 DEF FrameInv, Numbered
<1>5. Outstanding' \/ cpc' = "idle"
  BY <1>1, <1>3 DEF FrameInv, Outstanding, IsReply
<1>6. Document'
  BY <1>1, <1>3 DEF FrameInv, Document, DocumentIsWhole, IsReply, Suitable
<1>7. CASE toClient[1].t = "+" /\ cpc' = "reply" /\ UNCHANGED toServer
  <2>1. Handled = asked
    BY <1>3, <1>7 DEF FrameInv, Marks
  <2>2. \A i \in 1 .. Len(toClient') :
          toClient'[i].t \in {"reply", "output"} /\ toClient'[i].n = asked
    BY <1>3, <1>7 DEF FrameInv, Marks
  <2>3. Marks'
    BY <1>1, <2>2 DEF Marks
  <2>4. Types' /\ Turns' /\ Pending'
    BY <1>1, <1>2, <1>3, <1>7, <2>1 DEF FrameInv, Types, Turns, Pending
  <2> QED BY <1>4, <1>5, <1>6, <1>7, <2>3, <2>4 DEF FrameInv
<1>8. CASE toClient[1].t = "-" /\ cpc' = "idle" /\ UNCHANGED toServer
  <2>1. spc = "closed"
    BY <1>3, <1>8 DEF FrameInv, Marks
  <2>2. \A i \in 1 .. Len(toClient') : toClient'[i].t \in {"reply", "output"}
    BY <1>3, <1>8 DEF FrameInv, Marks
  <2>3. Marks'
    BY <1>8, <2>2 DEF Marks
  <2>4. Types' /\ Turns' /\ Pending'
    BY <1>1, <1>2, <1>3, <1>8, <2>1 DEF FrameInv, Types, Turns, Pending
  <2>5. Outstanding'
    BY <1>1, <1>8, <2>1 DEF FrameInv, Outstanding, Turns
  <2> QED BY <1>4, <1>6, <2>3, <2>4, <2>5 DEF FrameInv
<1>9. CASE toClient[1].t \in {"reply", "output"} /\ Send(Ack) /\ UNCHANGED cpc
  <2>1. toServer' \in Seq(Up) /\ Pending'
    BY <1>1, <1>2, <1>9, SendsByte
  <2>2. Marks'
    <3>1. ASSUME NEW i \in 1 .. Len(toClient')
          PROVE  /\ toClient'[i].t = "+" => cpc' = "ack" /\ Handled' = asked'
                 /\ toClient'[i].t = "-" => cpc' = "ack" /\ spc' = "closed"
      BY <1>1, <1>2, <1>3, <1>9 DEF FrameInv, Marks
    <3>2. ASSUME NEW i \in 1 .. Len(toClient'), NEW j \in 1 .. Len(toClient'),
                 toClient'[i].t \in {"+", "-"}, i < j
          PROVE  toClient'[j].t \in {"reply", "output"} /\ toClient'[j].n = asked'
      <4>1. i + 1 < j + 1 /\ toClient[i + 1].t \in {"+", "-"}
        BY <1>3, <3>2
      <4> QED BY <1>1, <1>3, <3>2, <4>1 DEF FrameInv, Marks
    <3> QED BY <1>1, <1>9, <3>1, <3>2 DEF Marks
  <2>3. Types' /\ Turns'
    BY <1>1, <1>2, <1>3, <1>9, <2>1 DEF FrameInv, Types, Turns
  <2>4. Outstanding'
    BY <1>1, <1>5, <1>9
  <2> QED BY <1>4, <1>6, <2>1, <2>2, <2>3, <2>4 DEF FrameInv
<1> QED BY <1>3, <1>7, <1>8, <1>9 DEF ReadAck

\* What the client takes for the reply to its last request is that reply.
LEMMA ReplyTaken ==
  ASSUME FrameInv, cpc = "reply", Take, Head(toClient).t = "reply"
  PROVE  /\ Head(toClient).n = asked /\ Handled = asked /\ answered + 1 = asked
         /\ left = <<>> /\ spc \notin {"run", "closed"} /\ Suitable(Head(toClient))
         /\ Head(toClient).count \in Nat /\ Head(toClient).more \in BOOLEAN
<1>1. toClient[1] \in Down /\ Head(toClient) = toClient[1] /\ 1 \in 1 .. Len(toClient)
  BY Takes
<1>2. IsReply(toClient[1])
  BY <1>1 DEF FrameInv, Marks, IsReply
<1>3. Handled = asked /\ answered + 1 = asked /\ spc # "closed"
  BY DEF FrameInv, Turns
<1>4. left = <<>> /\ spc # "run"
  BY <1>1, <1>2 DEF FrameInv, Outstanding
<1>5. Suitable(toClient[1])
  BY <1>1, <1>2 DEF FrameInv, Document
<1>6. toClient[1].count \in Nat /\ toClient[1].more \in BOOLEAN
  BY <1>1, Kinds
<1> QED BY <1>1, <1>2, <1>3, <1>4, <1>5, <1>6 DEF IsReply

\* It reads console output or the reply.
LEMMA ClientReadsReply == FrameInv /\ ReadReply => FrameInv'
<1> SUFFICES ASSUME FrameInv, ReadReply PROVE FrameInv'
  OBVIOUS
<1>1. /\ UNCHANGED <<spc, framed, left, resends, asked, running, naks, ints>>
      /\ cpc = "reply" /\ Take /\ Send(Ack)
  BY DEF ReadReply, server
<1>2. Handled' = Handled /\ Handled = asked
  BY <1>1 DEF Handled, FrameInv, Turns
<1>3. /\ toClient' \in Seq(Down) /\ toClient[1] \in Down /\ Head(toClient) = toClient[1]
      /\ 1 \in 1 .. Len(toClient) /\ Len(toClient) \in Nat
      /\ \A i \in 1 .. Len(toClient') :
           i + 1 \in 1 .. Len(toClient) /\ 1 < i + 1 /\ toClient'[i] = toClient[i + 1]
  BY <1>1, Takes
<1>4. Numbered'
  BY <1>1, <1>2, <1>3 DEF FrameInv, Numbered
<1>5. /\ toServer' \in Seq(Up) /\ \A i \in 1 .. Len(toServer') : toServer'[i].t # "req"
  <2>1. /\ toServer' \in Seq(Up) /\ Len(toServer') = Len(toServer) + 1 /\ Len(toServer) \in Nat
        /\ \A i \in 1 .. Len(toServer) : toServer'[i] = toServer[i]
        /\ toServer'[Len(toServer) + 1] = Ack
    BY <1>1, AppendIs, Kinds DEF Send, FrameInv, Types
  <2>2. \A i \in 1 .. Len(toServer) : toServer[i].t # "req"
    BY <1>2 DEF FrameInv, Pending
  <2> QED BY <2>1, <2>2, Kinds
<1>6. Pending'
  BY <1>5 DEF Pending
<1>7. Marks'
  <2>1. \A i \in 1 .. Len(toClient') :
          toClient'[i].t \notin {"+", "-"} /\ toClient'[i].n = asked
    BY <1>1, <1>3 DEF FrameInv, Marks
  <2> QED BY <1>1, <2>1 DEF Marks
<1>8. CASE UNCHANGED <<cpc, answered, doc>>
  <2>1. Types' /\ Turns'
    BY <1>1, <1>2, <1>3, <1>5, <1>8 DEF FrameInv, Types, Turns, doc
  <2>2. Outstanding'
    BY <1>1, <1>3, <1>8 DEF FrameInv, Outstanding, IsReply
  <2>3. Document'
    BY <1>1, <1>3, <1>8 DEF FrameInv, Document, DocumentIsWhole, IsReply, Suitable, doc
  <2> QED BY <1>4, <1>6, <1>7, <2>1, <2>2, <2>3 DEF FrameInv
<1>9. CASE /\ toClient[1].t = "reply" /\ cpc' = "idle" /\ answered' = toClient[1].n
           /\ fetched' = fetched + toClient[1].count
           /\ whole' = (whole \/ ~toClient[1].more)
  <2>1. /\ toClient[1].n = asked /\ left = <<>> /\ spc \notin {"run", "closed"}
        /\ Suitable(toClient[1])
        /\ toClient[1].count \in Nat /\ toClient[1].more \in BOOLEAN
    BY <1>1, <1>3, <1>9, ReplyTaken
  <2>2. fetched' \in 0 .. DocLen
    BY <1>9, <2>1, Bounds DEF Suitable, FrameInv, Types
  <2>3. whole' \in BOOLEAN
    BY <1>9, Zenon
  <2>4. Types' /\ Turns'
    BY <1>1, <1>2, <1>3, <1>5, <1>9, <2>1, <2>2, <2>3 DEF FrameInv, Types, Turns
  <2>5. Outstanding'
    BY <1>1, <2>1 DEF FrameInv, Outstanding
  <2>6. DocumentIsWhole'
    <3>1. whole' <=> whole \/ ~toClient[1].more
      BY <1>9, Zenon
    <3> QED BY <1>9, <2>1, <3>1 DEF Suitable, DocumentIsWhole
  <2>7. Document'
    BY <1>9, <2>6 DEF Document
  <2> QED BY <1>4, <1>6, <1>7, <2>4, <2>5, <2>7 DEF FrameInv
<1> QED BY <1>3, <1>8, <1>9 DEF ReadReply

---------------------------------------------------------------------------
(* The server *)

\* A byte or a packet is read from the client.
LEMMA Reads ==
  ASSUME FrameInv, Read, UNCHANGED <<Handled, asked, fetched, whole>>,
         spc # "closed" => spc' # "closed"
  PROVE  toServer' \in Seq(Up) /\ Pending'
<1>1. /\ toServer' \in Seq(Up) /\ Len(toServer) \in Nat
      /\ \A i \in 1 .. Len(toServer') :
           i + 1 \in 1 .. Len(toServer) /\ toServer'[i] = toServer[i + 1]
  BY TailIs DEF Read, FrameInv, Types
<1>2. \A i \in 1 .. Len(toServer') : toServer'[i].t = "req" =>
        /\ spc' # "closed" /\ Handled' # asked' /\ toServer'[i].n = asked'
        /\ toServer'[i].want = 0 \/ (~whole' /\ toServer'[i].off = fetched')
  BY <1>1 DEF FrameInv, Pending
<1>3. ASSUME NEW i \in 1 .. Len(toServer'), NEW j \in 1 .. Len(toServer'),
             toServer'[i].t = "req", toServer'[j].t = "req"
      PROVE  i = j
  <2>1. i + 1 = j + 1
    BY <1>1, <1>3 DEF FrameInv, Pending
  <2> QED BY <2>1
<1> QED BY <1>1, <1>2, <1>3 DEF Pending

\* A packet of the request that was handled last is sent or sent again.
LEMMA Sends ==
  ASSUME FrameInv, NEW p \in Packets, p.n = Handled, toClient' = Append(toClient, p),
         UNCHANGED <<Handled, cpc, asked>>, spc # "closed", spc' # "closed"
  PROVE  /\ toClient' \in Seq(Down) /\ Marks' /\ Len(toClient) \in Nat
         /\ Len(toClient') = Len(toClient) + 1
         /\ \A i \in 1 .. Len(toClient) : toClient'[i] = toClient[i]
         /\ toClient'[Len(toClient) + 1] = p
<1>1. /\ toClient' \in Seq(Down) /\ Len(toClient') = Len(toClient) + 1 /\ Len(toClient) \in Nat
      /\ \A i \in 1 .. Len(toClient) : toClient'[i] = toClient[i]
      /\ toClient'[Len(toClient) + 1] = p
  BY AppendIs, Kinds DEF FrameInv, Types
<1>2. p.t \in {"reply", "output"}
  BY Kinds
<1>3. \A i \in 1 .. Len(toClient') : i \in 1 .. Len(toClient) \/ i = Len(toClient) + 1
  BY <1>1
<1>4. ASSUME NEW i \in 1 .. Len(toClient')
      PROVE  /\ toClient'[i].t = "+" => cpc' = "ack" /\ Handled' = asked'
             /\ toClient'[i].t = "-" => cpc' = "ack" /\ spc' = "closed"
  BY <1>1, <1>2, <1>3 DEF FrameInv, Marks
<1>5. ASSUME NEW i \in 1 .. Len(toClient'), NEW j \in 1 .. Len(toClient'),
             toClient'[i].t \in {"+", "-"}, i < j
      PROVE  toClient'[j].t \in {"reply", "output"} /\ toClient'[j].n = asked'
  <2>1. i \in 1 .. Len(toClient) /\ toClient[i].t \in {"+", "-"}
    BY <1>1, <1>2, <1>3, <1>5
  <2>2. CASE j \in 1 .. Len(toClient)
    BY <1>1, <1>5, <2>1, <2>2 DEF FrameInv, Marks
  <2>3. CASE j = Len(toClient) + 1
    BY <1>1, <1>2, <2>1, <2>3 DEF FrameInv, Marks
  <2> QED BY <1>3, <2>2, <2>3
<1>6. ASSUME cpc' = "reply", NEW i \in 1 .. Len(toClient')
      PROVE  toClient'[i].n = asked'
  <2>1. Handled = asked
    BY <1>6 DEF FrameInv, Turns
  <2> QED BY <1>1, <1>3, <1>6, <2>1 DEF FrameInv, Marks
<1> QED BY <1>1, <1>4, <1>5, <1>6 DEF Marks

\* gdb_send_packet's loop.
LEMMA ServerAwaitsAck == FrameInv /\ AwaitAck => FrameInv'
<1> SUFFICES ASSUME FrameInv, AwaitAck PROVE FrameInv'
  OBVIOUS
<1>1. /\ UNCHANGED <<framed, left, cpc, asked, running, answered, naks, ints, fetched, whole>>
      /\ spc = "ack" /\ spc' \in {"ack", "send"} /\ Read
  BY DEF AwaitAck, client, doc
<1>2. Handled' = Handled
  BY <1>1 DEF Handled
<1>3. toServer' \in Seq(Up) /\ Pending'
  BY <1>1, <1>2, Reads
<1>4. Turns'
  BY <1>1, <1>2 DEF FrameInv, Turns
<1>5. CASE UNCHANGED <<toClient, resends>>
  <2>1. Types'
    BY <1>1, <1>3, <1>5 DEF FrameInv, Types
  <2>2. Numbered' /\ Marks'
    BY <1>1, <1>2, <1>5 DEF FrameInv, Numbered, Marks
  <2>3. Outstanding' /\ Document'
    BY <1>1, <1>5 DEF FrameInv, Outstanding, Document, DocumentIsWhole, IsReply, Suitable
  <2> QED BY <1>3, <1>4, <2>1, <2>2, <2>3 DEF FrameInv
<1>6. CASE toClient' = Append(toClient, framed) /\ resends' = resends + 1 /\ UNCHANGED spc
  <2>1. framed \in Packets /\ framed.n = Handled
    BY <1>1 DEF FrameInv, Types, Numbered
  <2>2. /\ toClient' \in Seq(Down) /\ Marks' /\ Len(toClient) \in Nat
        /\ Len(toClient') = Len(toClient) + 1
        /\ \A i \in 1 .. Len(toClient) : toClient'[i] = toClient[i]
        /\ toClient'[Len(toClient) + 1] = framed
    BY <1>1, <1>2, <1>6, <2>1, Sends
  <2>3. \A i \in 1 .. Len(toClient') : i \in 1 .. Len(toClient) \/ i = Len(toClient) + 1
    BY <2>2
  <2>4. Types'
    BY <1>1, <1>3, <1>6, <2>2 DEF FrameInv, Types
  <2>5. Numbered'
    BY <1>1, <1>2, <1>6, <2>2, <2>3 DEF FrameInv, Numbered
  <2>6. Outstanding'
    BY <1>1, <1>6, <2>2, <2>3 DEF FrameInv, Outstanding, IsReply
  <2>7. Document'
    BY <1>1, <2>2, <2>3 DEF FrameInv, Document, DocumentIsWhole, IsReply, Suitable
  <2> QED BY <1>3, <1>4, <2>2, <2>4, <2>5, <2>6, <2>7 DEF FrameInv
<1> QED BY <1>5, <1>6 DEF AwaitAck

\* gdb_wait_for_stop.
LEMMA ServerWaitsForStop == FrameInv /\ gdb_wait_for_stop => FrameInv'
<1> SUFFICES ASSUME FrameInv, gdb_wait_for_stop PROVE FrameInv'
  OBVIOUS
<1>1. /\ UNCHANGED <<cpc, asked, running, answered, naks, ints, fetched, whole>>
      /\ spc = "run" /\ Handled = asked /\ left = <<>>
      /\ Read \/ UNCHANGED toServer
  BY DEF gdb_wait_for_stop, gdb_send_packet, client, doc, FrameInv, Turns
<1>2. CASE Read /\ UNCHANGED <<toClient, server>>
  <2>1. UNCHANGED <<spc, framed, left, resends, Handled>>
    BY <1>2 DEF server, Handled
  <2>2. toServer' \in Seq(Up) /\ Pending'
    BY <1>1, <1>2, <2>1, Reads
  <2>3. Types'
    BY <1>1, <1>2, <2>1, <2>2 DEF FrameInv, Types
  <2>4. Numbered' /\ Turns' /\ Marks'
    BY <1>1, <1>2, <2>1 DEF FrameInv, Numbered, Turns, Marks
  <2>5. Outstanding' /\ Document'
    BY <1>1, <1>2, <2>1
    DEF FrameInv, Outstanding, Document, DocumentIsWhole, IsReply, Suitable
  <2> QED BY <2>2, <2>3, <2>4, <2>5 DEF FrameInv
<1>3. CASE gdb_send_packet(framed, <<>>)
  <2>1. /\ toClient' = Append(toClient, framed) /\ framed' = framed /\ left' = <<>>
        /\ resends' = 0 /\ spc' = "ack"
    BY <1>3 DEF gdb_send_packet
  <2>2. Handled' = Handled /\ framed \in Packets /\ framed.n = Handled
    BY <1>1, <2>1 DEF Handled, FrameInv, Types, Numbered
  <2>3. toServer' \in Seq(Up) /\ Pending'
    <3>1. CASE Read
      BY <1>1, <2>1, <2>2, <3>1, Reads
    <3>2. CASE UNCHANGED toServer
      BY <1>1, <2>1, <2>2, <3>2 DEF FrameInv, Types, Pending
    <3> QED BY <1>1, <3>1, <3>2
  <2>4. /\ toClient' \in Seq(Down) /\ Marks' /\ Len(toClient) \in Nat
        /\ Len(toClient') = Len(toClient) + 1
        /\ \A i \in 1 .. Len(toClient) : toClient'[i] = toClient[i]
        /\ toClient'[Len(toClient) + 1] = framed
    BY <1>1, <2>1, <2>2, Sends
  <2>5. \A i \in 1 .. Len(toClient') : i \in 1 .. Len(toClient) \/ i = Len(toClient) + 1
    BY <2>4
  <2>6. Types'
    BY <1>1, <2>1, <2>3, <2>4 DEF FrameInv, Types
  <2>7. Numbered'
    BY <1>1, <2>1, <2>2, <2>4, <2>5 DEF FrameInv, Numbered
  <2>8. Turns'
    BY <1>1, <2>1, <2>2 DEF FrameInv, Turns
  <2>9. Outstanding'
    BY <1>1, <2>1 DEF FrameInv, Outstanding
  <2>10. Document'
    BY <1>1, <2>1, <2>4, <2>5 DEF FrameInv, Document, DocumentIsWhole, IsReply, Suitable
  <2> QED BY <2>3, <2>4, <2>6, <2>7, <2>8, <2>9, <2>10 DEF FrameInv
<1> QED BY <1>2, <1>3 DEF gdb_wait_for_stop

\* The next packet of the request is sent, or there is none.
LEMMA ServerSendsNext == FrameInv /\ SendNext => FrameInv'
<1> SUFFICES ASSUME FrameInv, SendNext PROVE FrameInv'
  OBVIOUS
<1>1. /\ UNCHANGED <<toServer, cpc, asked, running, answered, naks, ints, fetched, whole>>
      /\ spc = "send"
  BY DEF SendNext, client, doc
<1>2. CASE left = <<>> /\ spc' = "recv" /\ UNCHANGED <<toClient, framed, left, resends>>
  <2>1. Handled' = Handled
    BY <1>2 DEF Handled
  <2>2. Types' /\ Pending' /\ Marks'
    BY <1>1, <1>2, <2>1 DEF FrameInv, Types, Pending, Marks
  <2>3. Numbered' /\ Turns'
    BY <1>1, <1>2, <2>1 DEF FrameInv, Numbered, Turns
  <2>4. Outstanding' /\ Document'
    BY <1>1, <1>2 DEF FrameInv, Outstanding, Document, DocumentIsWhole, IsReply, Suitable
  <2> QED BY <2>2, <2>3, <2>4 DEF FrameInv
<1>3. CASE left # <<>> /\ gdb_send_packet(Head(left), Tail(left))
  <2>1. /\ Tail(left) \in Seq(Packets) /\ Len(left) \in Nat \ {0}
        /\ Len(Tail(left)) = Len(left) - 1
        /\ Head(left) = left[1] /\ left[1] \in Packets
        /\ \A i \in 1 .. Len(Tail(left)) :
             i + 1 \in 1 .. Len(left) /\ Tail(left)[i] = left[i + 1]
    BY <1>3, TailIs DEF FrameInv, Types
  <2>2. /\ toClient' = Append(toClient, left[1]) /\ framed' = left[1] /\ left' = Tail(left)
        /\ resends' = 0 /\ spc' = "ack"
    BY <1>3, <2>1 DEF gdb_send_packet
  <2>3. /\ Handled = asked /\ left[1].n = Handled /\ cpc # "idle"
        /\ \A i \in 1 .. Len(left') : left'[i].n = Handled
    BY <1>3, <2>1, <2>2 DEF FrameInv, Numbered, Turns, Outstanding
  <2>4. Handled' = Handled /\ Handled \in Nat
    <3>1. left' # <<>> => 1 \in 1 .. Len(left')
      BY <2>1, <2>2, TailIs
    <3> QED BY <2>2, <2>3, <3>1, HandledIs DEF Handled, FrameInv
  <2>5. Pending'
    BY <1>1, <2>2, <2>4 DEF FrameInv, Pending
  <2>6. /\ toClient' \in Seq(Down) /\ Marks' /\ Len(toClient) \in Nat
        /\ Len(toClient') = Len(toClient) + 1
        /\ \A i \in 1 .. Len(toClient) : toClient'[i] = toClient[i]
        /\ toClient'[Len(toClient) + 1] = left[1]
    BY <1>1, <2>1, <2>2, <2>3, <2>4, Sends
  <2>7. \A i \in 1 .. Len(toClient') : i \in 1 .. Len(toClient) \/ i = Len(toClient) + 1
    BY <2>6
  <2>8. Types'
    BY <1>1, <2>1, <2>2, <2>6, Bounds DEF FrameInv, Types
  <2>9. Numbered'
    BY <1>1, <2>2, <2>3, <2>4, <2>6, <2>7 DEF FrameInv, Numbered
  <2>10. Turns'
    BY <1>1, <2>2, <2>3, <2>4 DEF FrameInv, Turns
  <2>11. \A i \in 1 .. Len(toClient) : ~IsReply(toClient[i])
    BY <1>3 DEF FrameInv, Outstanding
  <2>12. Outstanding'
    <3>1. \A i \in 1 .. Len(left') : i < Len(left') => left'[i].t = "output"
      BY <2>1, <2>2 DEF FrameInv, Outstanding
    <3>2. left' # <<>> => left[1].t = "output"
      BY <2>1, <2>2 DEF FrameInv, Outstanding
    <3>3. left' # <<>> => \A i \in 1 .. Len(toClient') : ~IsReply(toClient'[i])
      BY <2>6, <2>7, <2>11, <3>2 DEF IsReply
    <3> QED BY <1>1, <2>2, <2>3, <3>1, <3>2, <3>3 DEF Outstanding, IsReply
  <2>13. Document'
    <3>1. IsReply(left[1]) => Suitable(left[1])
      BY <2>1, <2>3 DEF FrameInv, Document
    <3>2. \A i \in 1 .. Len(left') : IsReply(left'[i]) => Suitable(left'[i])
      BY <2>1, <2>2, <2>3 DEF FrameInv, Document
    <3>3. \A i \in 1 .. Len(toClient') : IsReply(toClient'[i]) => Suitable(toClient'[i])
      BY <2>6, <2>7, <2>11, <3>1
    <3> QED BY <1>1, <2>2, <3>1, <3>2, <3>3
        DEF FrameInv, Document, DocumentIsWhole, IsReply, Suitable
  <2> QED BY <2>5, <2>6, <2>8, <2>9, <2>10, <2>12, <2>13 DEF FrameInv
<1> QED BY <1>2, <1>3 DEF SendNext

\* The answer to the request at hand carries the document on.
LEMMA AnswerIsSuitable ==
  ASSUME FrameInv, NEW q \in Up, q.t = "req", q.n = asked,
         q.want = 0 \/ (~whole /\ q.off = fetched)
  PROVE  /\ AnswerTo(q) \in Packets /\ AnswerTo(q).t = "reply" /\ AnswerTo(q).n = asked
         /\ Suitable(AnswerTo(q))
<1>1. /\ q.n \in Nat /\ q.off \in Nat /\ q.want \in Nat
      /\ fetched \in 0 .. DocLen /\ DocumentIsWhole
  BY Kinds DEF FrameInv, Types, Document
<1>2. CASE q.want = 0
  <2>1. AnswerTo(q) = Reply(q.n)
    BY <1>2 DEF AnswerTo
  <2>2. Suitable(Reply(q.n))
    BY <1>1, Bounds DEF Reply, Suitable, DocumentIsWhole
  <2> QED BY <1>1, <2>1, <2>2 DEF Packets, Reply
<1>3. CASE q.want # 0
  <2> DEFINE room == IF q.want > PacketMax - 1 THEN PacketMax - 1 ELSE q.want
             count == IF q.off >= DocLen THEN 0
                      ELSE IF DocLen - q.off > room THEN room ELSE DocLen - q.off
             more == count # 0 /\ q.off + count < DocLen
  <2>1. AnswerTo(q) = Chunk(q.n, count, more)
    BY <1>3 DEF AnswerTo, gdb_qxfer_reply
  <2>2. ~whole /\ q.off = fetched /\ fetched < DocLen
    BY <1>1, <1>3, Bounds DEF DocumentIsWhole
  <2>3. room \in Nat \ {0}
    BY <1>1, <1>3, Bounds
  <2>4. /\ count \in Nat \ {0} /\ fetched + count <= DocLen /\ more \in BOOLEAN
        /\ (more <=> fetched + count # DocLen)
    <3> HIDE DEF room
    <3> QED BY <1>1, <2>2, <2>3, Bounds
  <2> HIDE DEF count, more
  <2>5. Suitable(Chunk(q.n, count, more))
    <3>1. Chunk(q.n, count, more).count = count /\ (Chunk(q.n, count, more).more <=> more)
      BY <2>4 DEF Chunk
    <3> QED BY <2>2, <2>4, <3>1 DEF Suitable
  <2> QED BY <1>1, <2>1, <2>4, <2>5 DEF Packets, Chunk
<1> QED BY <1>2, <1>3

\* What a request is answered with: some packets of console output and the reply.
LEMMA Said ==
  ASSUME NEW S, NEW o \in S, NEW r \in S, NEW k \in Nat
  PROVE  LET s == [i \in 1 .. k |-> o] \o <<r>>
         IN  /\ s \in Seq(S) /\ Len(s) = k + 1 /\ s # <<>>
             /\ \A i \in 1 .. Len(s) : IF i = k + 1 THEN s[i] = r ELSE s[i] = o
<1> DEFINE f == [i \in 1 .. k |-> o]
           s == f \o <<r>>
<1>1. f \in Seq(S) /\ Len(f) = k
  BY IsASeq
<1>2. <<r>> \in Seq(S) /\ Len(<<r>>) = 1 /\ <<r>>[1] = r
  OBVIOUS
<1>3. s \in Seq(S) /\ Len(s) = k + 1
      /\ \A i \in 1 .. k + 1 : s[i] = IF i <= k THEN f[i] ELSE <<r>>[i - k]
  <2> HIDE DEF f
  <2> QED BY <1>1, <1>2, ConcatProperties
<1>4. ASSUME NEW i \in 1 .. Len(s)
      PROVE  IF i = k + 1 THEN s[i] = r ELSE s[i] = o
  BY <1>2, <1>3, <1>4
<1> QED BY <1>3, <1>4

\* What is read is the request at hand.
LEMMA RequestRead ==
  ASSUME FrameInv, Read, Byte.t = "req"
  PROVE  /\ Byte \in Up /\ Byte.n = asked
         /\ Byte.want = 0 \/ (~whole /\ Byte.off = fetched)
         /\ Handled \in Nat /\ Handled + 1 = asked /\ cpc = "ack" /\ spc # "closed"
         /\ left = <<>> /\ framed.n < asked
         /\ toServer' \in Seq(Up) /\ \A i \in 1 .. Len(toServer') : toServer'[i].t # "req"
         /\ \A i \in 1 .. Len(toClient) : /\ toClient[i].t \in {"reply", "output"}
                                          /\ toClient[i].n < asked
<1>1. /\ toServer' \in Seq(Up) /\ Byte \in Up /\ Byte = toServer[1] /\ 1 \in 1 .. Len(toServer)
      /\ \A i \in 1 .. Len(toServer') :
           i + 1 \in 1 .. Len(toServer) /\ i + 1 # 1 /\ toServer'[i] = toServer[i + 1]
  BY TailIs DEF Read, Byte, FrameInv, Types
<1>2. /\ spc # "closed" /\ Handled # asked /\ Byte.n = asked
      /\ Byte.want = 0 \/ (~whole /\ Byte.off = fetched)
  BY <1>1 DEF FrameInv, Pending
<1>3. \A i \in 1 .. Len(toServer') : toServer'[i].t # "req"
  BY <1>1 DEF FrameInv, Pending
<1>4. Handled \in Nat /\ Handled + 1 = asked
  BY <1>2, HandledIs DEF FrameInv, Numbered
<1>5. cpc = "ack" /\ left = <<>>
  BY <1>2 DEF FrameInv, Turns, Types
<1>6. framed.n < asked
  BY <1>4, HandledIs DEF FrameInv, Numbered
<1>7. ASSUME NEW i \in 1 .. Len(toClient)
      PROVE  toClient[i].t \in {"reply", "output"} /\ toClient[i].n < asked
  <2>1. toClient[i] \in Down
    BY DEF FrameInv, Types
  <2>2. toClient[i].t \notin {"+", "-"}
    BY <1>2 DEF FrameInv, Marks
  <2>3. toClient[i] \in Packets
    BY <2>1, <2>2, Kinds
  <2>4. toClient[i].t \in {"reply", "output"} /\ toClient[i].n \in Nat
    BY <2>3, Kinds
  <2>5. toClient[i].n <= Handled
    BY <2>4 DEF FrameInv, Numbered
  <2> QED BY <1>4, <2>4, <2>5
<1> QED BY <1>1, <1>2, <1>3, <1>4, <1>5, <1>6, <1>7

\* Its packet is answered with '+' or '-'.
LEMMA Marked ==
  ASSUME FrameInv, Read, Byte.t = "req", UNCHANGED <<asked, cpc>>,
         NEW m \in {Ack, Nak}, toClient' = Append(toClient, m),
         m = Ack => Handled' = asked, m = Nak => spc' = "closed"
  PROVE  /\ toClient' \in Seq(Down) /\ Marks'
         /\ \A i \in 1 .. Len(toClient') :
              toClient'[i].t \in {"reply", "output"} => toClient'[i].n < asked
<1>1. /\ toClient' \in Seq(Down) /\ Len(toClient') = Len(toClient) + 1 /\ Len(toClient) \in Nat
      /\ \A i \in 1 .. Len(toClient) : toClient'[i] = toClient[i]
      /\ toClient'[Len(toClient) + 1] = m
  BY AppendIs, Kinds DEF FrameInv, Types
<1>2. /\ cpc = "ack" /\ \A i \in 1 .. Len(toClient) : /\ toClient[i].t \in {"reply", "output"}
                                                      /\ toClient[i].n < asked
  BY RequestRead
<1>3. \A i \in 1 .. Len(toClient') : i \in 1 .. Len(toClient) \/ i = Len(toClient) + 1
  BY <1>1
<1>4. (m.t = "+" /\ m = Ack) \/ (m.t = "-" /\ m = Nak)
  BY Kinds
<1>5. \A i \in 1 .. Len(toClient') : toClient'[i].t \in {"+", "-"} => i = Len(toClient) + 1
  BY <1>1, <1>2, <1>3
<1>6. Marks'
  BY <1>1, <1>2, <1>3, <1>4, <1>5 DEF Marks
<1> QED BY <1>1, <1>2, <1>3, <1>4, <1>6

\* gdb_recv_packet.
LEMMA ServerReceives == FrameInv /\ gdb_recv_packet => FrameInv'
<1> SUFFICES ASSUME FrameInv, gdb_recv_packet PROVE FrameInv'
  OBVIOUS
<1>1. /\ UNCHANGED <<cpc, asked, running, answered, naks, ints, fetched, whole>>
      /\ spc = "recv" /\ Read
  BY DEF gdb_recv_packet, client, doc
<1>2. CASE Byte.t # "req" /\ UNCHANGED <<toClient, server>>
  <2>1. UNCHANGED <<spc, framed, left, resends, Handled>>
    BY <1>2 DEF server, Handled
  <2>2. toServer' \in Seq(Up) /\ Pending'
    BY <1>1, <1>2, <2>1, Reads
  <2>3. Types'
    BY <1>1, <1>2, <2>1, <2>2 DEF FrameInv, Types
  <2>4. Numbered' /\ Turns' /\ Marks'
    BY <1>1, <1>2, <2>1 DEF FrameInv, Numbered, Turns, Marks
  <2>5. Outstanding' /\ Document'
    BY <1>1, <1>2, <2>1
    DEF FrameInv, Outstanding, Document, DocumentIsWhole, IsReply, Suitable
  <2> QED BY <2>2, <2>3, <2>4, <2>5 DEF FrameInv
<1>3. CASE Byte.t = "req"
  <2>1. /\ Byte \in Up /\ Byte.n = asked
        /\ Byte.want = 0 \/ (~whole /\ Byte.off = fetched)
        /\ Handled \in Nat /\ Handled + 1 = asked /\ cpc = "ack"
        /\ left = <<>> /\ framed.n < asked
        /\ toServer' \in Seq(Up) /\ \A i \in 1 .. Len(toServer') : toServer'[i].t # "req"
    BY <1>1, <1>3, RequestRead
  <2>2. Pending'
    BY <2>1 DEF Pending
  <2>3. framed.n \in Nat /\ answered + 1 = asked /\ asked \in Nat
    BY <2>1, HandledIs DEF FrameInv, Turns, Types
  <2>4. CASE /\ spc' = "closed" /\ toClient' = Append(toClient, Nak)
             /\ UNCHANGED <<framed, left, resends>>
    <3>1. Handled' = Handled
      BY <2>4 DEF Handled
    <3>2. /\ toClient' \in Seq(Down) /\ Marks'
          /\ \A i \in 1 .. Len(toClient') :
               toClient'[i].t \in {"reply", "output"} => toClient'[i].n < asked
      <4>1. Nak # Ack
        BY DEF Ack, Nak
      <4> QED BY <1>1, <1>3, <2>4, <4>1, Marked
    <3>3. Types'
      BY <1>1, <2>1, <2>4, <3>2 DEF FrameInv, Types
    <3>4. Numbered'
      <4>1. \A i \in 1 .. Len(toClient') :
              toClient'[i].t \in {"reply", "output"} => toClient'[i].n <= Handled
        <5> SUFFICES ASSUME NEW i \in 1 .. Len(toClient'), toClient'[i].t \in {"reply", "output"}
                     PROVE  toClient'[i].n <= Handled
          OBVIOUS
        <5>1. toClient'[i] \in Down
          BY <3>2
        <5>2. toClient'[i].n \in Nat
          BY <5>1, Kinds
        <5> QED BY <2>1, <3>2, <5>2
      <4> QED BY <1>1, <2>1, <2>4, <3>1, <4>1 DEF FrameInv, Numbered
    <3>5. Turns'
      BY <1>1, <2>1, <2>3, <2>4, <3>1 DEF Turns
    <3>6. Outstanding'
      BY <2>1, <2>4 DEF Outstanding
    <3>7. Document'
      <4>1. (\A i \in 1 .. Len(toClient) : ~IsReply(toClient[i]))'
        BY <1>1, <2>3, <3>2 DEF IsReply
      <4> QED BY <1>1, <2>1, <2>4, <4>1
          DEF FrameInv, Document, DocumentIsWhole, IsReply, Suitable
    <3> QED BY <2>2, <3>2, <3>3, <3>4, <3>5, <3>6, <3>7 DEF FrameInv
  <2>5. CASE /\ spc' = "run" /\ toClient' = Append(toClient, Ack)
             /\ framed' = Reply(Byte.n) /\ UNCHANGED <<left, resends>>
    <3>1. /\ framed' \in Packets /\ framed'.n = asked /\ framed'.count = 0
          /\ framed'.more = TRUE
      BY <2>1, <2>3, <2>5 DEF Reply, Packets
    <3>2. Handled' = asked
      BY <2>1, <2>5, <3>1 DEF Handled
    <3>3. /\ toClient' \in Seq(Down) /\ Marks'
          /\ \A i \in 1 .. Len(toClient') :
               toClient'[i].t \in {"reply", "output"} => toClient'[i].n < asked
      <4>1. Nak # Ack
        BY DEF Ack, Nak
      <4> QED BY <1>1, <1>3, <2>5, <3>2, <4>1, Marked
    <3>4. Types'
      BY <1>1, <2>1, <2>5, <3>1, <3>3 DEF FrameInv, Types
    <3>5. Numbered'
      <4>1. \A i \in 1 .. Len(toClient') :
              toClient'[i].t \in {"reply", "output"} => toClient'[i].n <= asked
        <5> SUFFICES ASSUME NEW i \in 1 .. Len(toClient'), toClient'[i].t \in {"reply", "output"}
                     PROVE  toClient'[i].n <= asked
          OBVIOUS
        <5>1. toClient'[i] \in Down
          BY <3>3
        <5>2. toClient'[i].n \in Nat
          BY <5>1, Kinds
        <5> QED BY <2>3, <3>3, <5>2
      <4> QED BY <1>1, <2>1, <2>3, <2>5, <3>1, <3>2, <4>1 DEF Numbered
    <3>6. Turns'
      BY <1>1, <2>1, <2>3, <2>5, <3>2 DEF Turns
    <3>7. (\A i \in 1 .. Len(toClient) : ~IsReply(toClient[i]))'
      BY <1>1, <2>3, <3>3 DEF IsReply
    <3>8. Outstanding'
      BY <1>1, <2>1, <2>5, <3>7 DEF Outstanding
    <3>9. Document'
      <4>1. DocumentIsWhole /\ fetched \in 0 .. DocLen
        BY DEF FrameInv, Document, Types
      <4>2. DocumentIsWhole'
        BY <1>1, <4>1 DEF DocumentIsWhole
      <4>3. Suitable(framed)'
        BY <1>1, <3>1, <4>1, Bounds DEF Suitable, DocumentIsWhole
      <4> QED BY <2>1, <2>5, <3>7, <4>2, <4>3 DEF Document
    <3> QED BY <2>2, <3>3, <3>4, <3>5, <3>6, <3>8, <3>9 DEF FrameInv
  <2>6. CASE /\ spc' = "send" /\ toClient' = Append(toClient, Ack)
             /\ \E k \in 0 .. MaxOutput :
                  left' = [i \in 1 .. k |-> Output(Byte.n)] \o <<AnswerTo(Byte)>>
             /\ UNCHANGED <<framed, resends>>
    <3>1. PICK k \in 0 .. MaxOutput :
                 left' = [i \in 1 .. k |-> Output(Byte.n)] \o <<AnswerTo(Byte)>>
      BY <2>6
    <3>2. /\ AnswerTo(Byte) \in Packets /\ AnswerTo(Byte).t = "reply"
          /\ AnswerTo(Byte).n = asked /\ Suitable(AnswerTo(Byte))
      BY <1>3, <2>1, AnswerIsSuitable
    <3>3. Output(Byte.n) \in Packets /\ Output(Byte.n).t = "output" /\ Output(Byte.n).n = asked
      BY <2>1, <2>3 DEF Output, Packets
    <3>4. /\ left' \in Seq(Packets) /\ Len(left') = k + 1 /\ left' # <<>>
          /\ \A i \in 1 .. Len(left') : IF i = k + 1 THEN left'[i] = AnswerTo(Byte)
                                        ELSE left'[i] = Output(Byte.n)
      BY <3>1, <3>2, <3>3, Said, Bounds
    <3>5. \A i \in 1 .. Len(left') : left'[i].n = asked
      BY <3>2, <3>3, <3>4
    <3>6. Handled' = asked
      BY <3>4, <3>5 DEF Handled
    <3>7. /\ toClient' \in Seq(Down) /\ Marks'
          /\ \A i \in 1 .. Len(toClient') :
               toClient'[i].t \in {"reply", "output"} => toClient'[i].n < asked
      <4>1. Nak # Ack
        BY DEF Ack, Nak
      <4> QED BY <1>1, <1>3, <2>6, <3>6, <4>1, Marked
    <3>8. Types'
      BY <1>1, <2>1, <2>6, <3>4, <3>7, Bounds DEF FrameInv, Types
    <3>9. Numbered'
      <4>1. \A i \in 1 .. Len(toClient') :
              toClient'[i].t \in {"reply", "output"} => toClient'[i].n <= asked
        <5> SUFFICES ASSUME NEW i \in 1 .. Len(toClient'), toClient'[i].t \in {"reply", "output"}
                     PROVE  toClient'[i].n <= asked
          OBVIOUS
        <5>1. toClient'[i] \in Down
          BY <3>7
        <5>2. toClient'[i].n \in Nat
          BY <5>1, Kinds
        <5> QED BY <2>3, <3>7, <5>2
      <4>2. framed' = framed /\ framed.n <= asked
        BY <2>1, <2>3, <2>6
      <4> QED BY <1>1, <2>6, <3>5, <3>6, <4>1, <4>2 DEF Numbered
    <3>10. Turns'
      BY <1>1, <2>1, <2>3, <2>6, <3>6 DEF Turns
    <3>11. /\ (\A i \in 1 .. Len(toClient) : ~IsReply(toClient[i]))'
           /\ ~IsReply(framed)'
      BY <1>1, <2>1, <2>3, <2>6, <3>7 DEF IsReply
    <3>12. Outstanding'
      <4>1. \A i \in 1 .. Len(left') : i < Len(left') => left'[i].t = "output"
        BY <3>3, <3>4
      <4> QED BY <1>1, <2>1, <3>11, <4>1 DEF Outstanding
    <3>13. Document'
      <4>1. (\A i \in 1 .. Len(left) : IsReply(left[i]) => Suitable(left[i]))'
        <5>1. \A i \in 1 .. Len(left') :
                left'[i].t = "reply" => left'[i] = AnswerTo(Byte)
          BY <3>3, <3>4
        <5>2. UNCHANGED <<fetched, whole>>
          BY <1>1
        <5>3. \A i \in 1 .. Len(left') : left'[i].t = "reply" => Suitable(left'[i])
          BY <3>2, <5>1
        <5> QED BY <5>2, <5>3 DEF IsReply, Suitable
      <4>2. DocumentIsWhole'
        BY <1>1 DEF FrameInv, Document, DocumentIsWhole
      <4> QED BY <3>11, <4>1, <4>2 DEF Document
    <3> QED BY <2>2, <3>7, <3>8, <3>9, <3>10, <3>12, <3>13 DEF FrameInv
  <2> QED BY <1>3, <2>4, <2>5, <2>6 DEF gdb_recv_packet
<1> QED BY <1>2, <1>3 DEF gdb_recv_packet

\* Nothing has been sent yet.
LEMMA FrameInit == Init => FrameInv
<1> SUFFICES ASSUME Init PROVE FrameInv
  OBVIOUS
<1>1. /\ toServer = <<>> /\ toClient = <<>> /\ left = <<>> /\ framed = NoPacket
      /\ spc = "recv" /\ resends = 0 /\ cpc = "idle" /\ asked = 0 /\ running = FALSE
      /\ answered = 0 /\ naks = 0 /\ ints = 0 /\ fetched = 0 /\ whole = FALSE
  BY DEF Init
<1>2. NoPacket \in Packets /\ NoPacket.n = 0 /\ NoPacket.t = "output"
  BY DEF NoPacket, Output, Packets
<1>3. Handled = 0
  BY <1>1, <1>2 DEF Handled
<1>4. /\ toServer \in Seq(Up) /\ toClient \in Seq(Down) /\ left \in Seq(Packets)
      /\ Len(toServer) = 0 /\ Len(toClient) = 0 /\ Len(left) = 0
  BY <1>1
<1>5. Types
  <2>1. /\ 0 \in 0 .. MaxRequests /\ 0 \in 0 .. DocLen /\ 0 \in 0 .. MaxNaks
        /\ 0 \in 0 .. MaxInts /\ 0 <= MaxOutput + 1
    BY Bounds
  <2> QED BY <1>1, <1>2, <1>4, <2>1 DEF Types
<1>6. Numbered /\ Turns /\ Pending /\ Marks
  BY <1>1, <1>2, <1>3, <1>4 DEF Numbered, Turns, Pending, Marks
<1>7. Outstanding /\ Document
  BY <1>1, <1>4, Bounds DEF Outstanding, Document, DocumentIsWhole
<1> QED BY <1>5, <1>6, <1>7 DEF FrameInv

\* Every step preserves the invariant.
LEMMA FrameNext == FrameInv /\ [Next]_vars => FrameInv'
<1> SUFFICES ASSUME FrameInv, [Next]_vars PROVE FrameInv'
  OBVIOUS
<1>1. CASE gdb_recv_packet
  BY <1>1, ServerReceives
<1>2. CASE SendNext
  BY <1>2, ServerSendsNext
<1>3. CASE AwaitAck
  BY <1>3, ServerAwaitsAck
<1>4. CASE gdb_wait_for_stop
  BY <1>4, ServerWaitsForStop
<1>5. CASE ReadAck
  BY <1>5, ClientReadsAck
<1>6. CASE ReadReply
  BY <1>6, ClientReadsReply
<1>7. CASE AskAgain \/ SendEtx
  BY <1>7, ClientSends
<1>8. CASE (\E l \in Lengths, r \in BOOLEAN : Ask(l, r)) \/ \E w \in Wants : Fetch(w)
  BY <1>8, ClientAsks
<1>9. CASE UNCHANGED vars
  <2>1. /\ UNCHANGED <<toServer, toClient, spc, framed, left, resends, cpc, asked, running,
                       answered, naks, ints, fetched, whole>>
    BY <1>9 DEF vars, server, client, doc
  <2>2. Handled' = Handled
    BY <2>1 DEF Handled
  <2>3. Types' /\ Numbered' /\ Turns'
    BY <2>1, <2>2 DEF FrameInv, Types, Numbered, Turns
  <2>4. Pending' /\ Marks'
    BY <2>1, <2>2 DEF FrameInv, Pending, Marks
  <2>5. Outstanding' /\ Document'
    BY <2>1 DEF FrameInv, Outstanding, Document, DocumentIsWhole, IsReply, Suitable
  <2> QED BY <2>3, <2>4, <2>5 DEF FrameInv
<1> QED BY <1>1, <1>2, <1>3, <1>4, <1>5, <1>6, <1>7, <1>8, <1>9 DEF Next, Serve, Listen

---------------------------------------------------------------------------
(* Repeats *)

\* Sending keeps the numbering; a repeat that is asked for gets the next number.
LEMMA RepeatsSent ==
  ASSUME FrameInv, Repeats, NEW b \in Up, Send(b), UNCHANGED resends,
         IF b.t = "-" THEN naks' = naks + 1 ELSE naks' = naks
  PROVE  Repeats'
<1>1. PICK f \in [1 .. Len(toServer) -> Nat] :
        /\ \A i \in 1 .. Len(toServer) :
             toServer[i].t = "-" => resends < f[i] /\ f[i] <= naks
        /\ \A i, j \in 1 .. Len(toServer) :
             i < j /\ toServer[i].t = "-" /\ toServer[j].t = "-" => f[i] < f[j]
  BY DEF Repeats
<1>2. /\ Len(toServer') = Len(toServer) + 1 /\ Len(toServer) \in Nat
      /\ \A i \in 1 .. Len(toServer) : toServer'[i] = toServer[i]
      /\ toServer'[Len(toServer) + 1] = b
  BY AppendIs DEF Send, FrameInv, Types
<1>3. naks \in Nat /\ resends \in Nat /\ resends <= naks /\ naks' \in Nat /\ naks <= naks'
  BY Bounds DEF FrameInv, Types, Repeats
<1> DEFINE g == [i \in 1 .. Len(toServer') |-> IF i <= Len(toServer) THEN f[i] ELSE naks + 1]
<1>4. g \in [1 .. Len(toServer') -> Nat]
  BY <1>2, <1>3
<1>5. \A i \in 1 .. Len(toServer') :
        \/ i \in 1 .. Len(toServer) /\ g[i] = f[i] /\ g[i] \in Nat /\ toServer'[i] = toServer[i]
        \/ i = Len(toServer) + 1 /\ g[i] = naks + 1 /\ toServer'[i] = b
  BY <1>2
<1> HIDE DEF g
<1>6. ASSUME NEW i \in 1 .. Len(toServer'), toServer'[i].t = "-"
      PROVE  resends' < g[i] /\ g[i] <= naks'
  BY <1>1, <1>3, <1>5, <1>6
<1>7. ASSUME NEW i \in 1 .. Len(toServer'), NEW j \in 1 .. Len(toServer'),
             i < j, toServer'[i].t = "-", toServer'[j].t = "-"
      PROVE  g[i] < g[j]
  <2>1. i \in 1 .. Len(toServer) /\ g[i] = f[i] /\ g[i] \in Nat /\ toServer'[i] = toServer[i]
    BY <1>2, <1>5, <1>7
  <2>2. CASE j \in 1 .. Len(toServer) /\ g[j] = f[j] /\ toServer'[j] = toServer[j]
    BY <1>1, <1>7, <2>1, <2>2
  <2>3. CASE g[j] = naks + 1
    <3>1. f[i] <= naks
      BY <1>1, <1>7, <2>1
    <3> QED BY <1>3, <2>1, <2>3, <3>1
  <2> QED BY <1>5, <2>2, <2>3
<1>8. resends' <= naks'
  BY <1>3
<1> QED BY <1>4, <1>6, <1>7, <1>8 DEF Repeats

\* Reading keeps it, if a packet is repeated only for a repeat that is read.
LEMMA RepeatsRead ==
  ASSUME FrameInv, Repeats, Read, UNCHANGED naks,
         resends' \in {0, resends} \/ (Byte.t = "-" /\ resends' = resends + 1)
  PROVE  Repeats'
<1>1. PICK f \in [1 .. Len(toServer) -> Nat] :
        /\ \A i \in 1 .. Len(toServer) :
             toServer[i].t = "-" => resends < f[i] /\ f[i] <= naks
        /\ \A i, j \in 1 .. Len(toServer) :
             i < j /\ toServer[i].t = "-" /\ toServer[j].t = "-" => f[i] < f[j]
  BY DEF Repeats
<1>2. /\ Byte = toServer[1] /\ Len(toServer) \in Nat \ {0} /\ Len(toServer') = Len(toServer) - 1
      /\ 1 \in 1 .. Len(toServer)
      /\ \A i \in 1 .. Len(toServer') :
           i + 1 \in 1 .. Len(toServer) /\ 1 < i + 1 /\ toServer'[i] = toServer[i + 1]
  BY TailIs DEF Read, Byte, FrameInv, Types
<1>3. naks \in Nat /\ resends \in Nat /\ resends <= naks
  BY Bounds DEF FrameInv, Types, Repeats
<1> DEFINE g == [i \in 1 .. Len(toServer') |-> f[i + 1]]
<1>4. /\ g \in [1 .. Len(toServer') -> Nat]
      /\ \A i \in 1 .. Len(toServer') : g[i] = f[i + 1] /\ f[i + 1] \in Nat
  BY <1>1, <1>2
<1> HIDE DEF g
<1>5. f[1] \in Nat
  BY <1>1, <1>2
<1>6. ASSUME NEW i \in 1 .. Len(toServer'), toServer'[i].t = "-"
      PROVE  resends' < g[i] /\ g[i] <= naks'
  <2>1. resends < f[i + 1] /\ f[i + 1] <= naks
    BY <1>1, <1>2, <1>6
  <2>2. CASE Byte.t = "-" /\ resends' = resends + 1
    <3>1. resends < f[1] /\ f[1] < f[i + 1]
      BY <1>1, <1>2, <1>6, <2>2
    <3> QED BY <1>3, <1>4, <1>5, <2>1, <2>2, <3>1
  <2> QED BY <1>3, <1>4, <2>1, <2>2
<1>7. ASSUME NEW i \in 1 .. Len(toServer'), NEW j \in 1 .. Len(toServer'),
             i < j, toServer'[i].t = "-", toServer'[j].t = "-"
      PROVE  g[i] < g[j]
  <2>1. i + 1 < j + 1
    BY <1>2, <1>7
  <2> QED BY <1>1, <1>2, <1>4, <1>7, <2>1
<1>8. resends' <= naks'
  <2>1. CASE Byte.t = "-" /\ resends' = resends + 1
    <3>1. resends < f[1] /\ f[1] <= naks
      BY <1>1, <1>2, <2>1
    <3> QED BY <1>3, <1>5, <2>1, <3>1
  <2> QED BY <1>3, <2>1
<1> QED BY <1>4, <1>6, <1>7, <1>8 DEF Repeats

\* Nothing is sent to the server or read by it.
LEMMA RepeatsKept ==
  ASSUME FrameInv, Repeats, UNCHANGED <<toServer, naks>>, resends' \in {0, resends}
  PROVE  Repeats'
<1>1. PICK f \in [1 .. Len(toServer) -> Nat] :
        /\ \A i \in 1 .. Len(toServer) :
             toServer[i].t = "-" => resends < f[i] /\ f[i] <= naks
        /\ \A i, j \in 1 .. Len(toServer) :
             i < j /\ toServer[i].t = "-" /\ toServer[j].t = "-" => f[i] < f[j]
  BY DEF Repeats
<1>2. naks \in Nat /\ resends \in Nat /\ resends <= naks
  BY Bounds DEF FrameInv, Types, Repeats
<1>3. resends' <= naks' /\ f \in [1 .. Len(toServer') -> Nat]
  BY <1>2
<1>4. \A i \in 1 .. Len(toServer') :
        toServer'[i].t = "-" => resends' < f[i] /\ f[i] <= naks'
  BY <1>1, <1>2
<1>5. \A i, j \in 1 .. Len(toServer') :
        i < j /\ toServer'[i].t = "-" /\ toServer'[j].t = "-" => f[i] < f[j]
  BY <1>1
<1> QED BY <1>3, <1>4, <1>5 DEF Repeats

\* A packet is repeated at most as often as the client asked for it.
LEMMA RepeatsNext == FrameInv /\ Repeats /\ [Next]_vars => Repeats'
<1> SUFFICES ASSUME FrameInv, Repeats, [Next]_vars PROVE Repeats'
  OBVIOUS
<1>0. resends \in Nat /\ naks \in Nat /\ 0 <= naks
  BY Bounds DEF FrameInv, Types
<1>1. CASE gdb_recv_packet
  <2>1. Read /\ UNCHANGED <<naks, resends>>
    BY <1>1 DEF gdb_recv_packet, client, server
  <2> QED BY <2>1, RepeatsRead
<1>2. CASE SendNext
  <2>1. UNCHANGED <<toServer, naks>> /\ resends' \in {0, resends}
    BY <1>2 DEF SendNext, gdb_send_packet, client
  <2> QED BY <2>1, RepeatsKept
<1>3. CASE AwaitAck
  <2>1. /\ Read /\ UNCHANGED naks
        /\ resends' = resends \/ (Byte.t = "-" /\ resends' = resends + 1)
    BY <1>3 DEF AwaitAck, client
  <2> QED BY <2>1, RepeatsRead
<1>4. CASE gdb_wait_for_stop
  <2>1. /\ UNCHANGED naks /\ resends' \in {0, resends}
        /\ Read \/ UNCHANGED toServer
    BY <1>4 DEF gdb_wait_for_stop, gdb_send_packet, client, server
  <2> QED BY <2>1, RepeatsRead, RepeatsKept
<1>5. CASE ReadAck \/ ReadReply
  <2>1. UNCHANGED <<resends, naks>> /\ (UNCHANGED toServer \/ Send(Ack))
    BY <1>5 DEF ReadAck, ReadReply, server
  <2>2. Ack \in Up /\ Ack.t # "-"
    BY Kinds
  <2> QED BY <2>1, <2>2, RepeatsSent, RepeatsKept
<1>6. CASE AskAgain
  <2>1. UNCHANGED resends /\ naks' = naks + 1 /\ Send(Nak)
    BY <1>6 DEF AskAgain, server
  <2>2. Nak \in Up /\ Nak.t = "-"
    BY Kinds
  <2> QED BY <2>1, <2>2, RepeatsSent
<1>7. CASE SendEtx
  <2>1. UNCHANGED <<resends, naks>> /\ Send(Etx)
    BY <1>7 DEF SendEtx, server
  <2>2. Etx \in Up /\ Etx.t # "-"
    BY Kinds
  <2> QED BY <2>1, <2>2, RepeatsSent
<1>8. ASSUME NEW l \in Lengths, NEW r \in BOOLEAN, Ask(l, r) PROVE Repeats'
  <2>1. UNCHANGED <<resends, naks>> /\ Send(Req(asked + 1, l, r))
    BY <1>8 DEF Ask, server
  <2>2. Req(asked + 1, l, r) \in Up /\ Req(asked + 1, l, r).t # "-"
    <3>1. asked + 1 \in Nat /\ l \in Nat
      BY FramingAssumption, Bounds DEF FrameInv, Types
    <3> QED BY <3>1 DEF Req, Up
  <2> QED BY <2>1, <2>2, RepeatsSent
<1>9. ASSUME NEW w \in Wants, Fetch(w) PROVE Repeats'
  <2>1. UNCHANGED <<resends, naks>> /\ Send(Xfer(asked + 1, fetched, w))
    BY <1>9 DEF Fetch, server
  <2>2. Xfer(asked + 1, fetched, w) \in Up /\ Xfer(asked + 1, fetched, w).t # "-"
    <3>1. asked + 1 \in Nat /\ w \in Nat /\ fetched \in Nat
      BY FramingAssumption, Bounds DEF FrameInv, Types
    <3> QED BY <3>1 DEF Xfer, Up
  <2> QED BY <2>1, <2>2, RepeatsSent
<1>10. CASE UNCHANGED vars
  <2>1. UNCHANGED <<toServer, resends, naks>>
    BY <1>10 DEF vars, server, client
  <2> QED BY <2>1, RepeatsKept
<1> QED BY <1>1, <1>2, <1>3, <1>4, <1>5, <1>6, <1>7, <1>8, <1>9, <1>10
    DEF Next, Serve, Listen

---------------------------------------------------------------------------
(* What is proved *)

\* Every state satisfies the invariant.
LEMMA FrameInductive == Spec => [](FrameInv /\ Repeats)
<1>1. Init => FrameInv /\ Repeats
  <2> SUFFICES ASSUME Init PROVE FrameInv /\ Repeats
    OBVIOUS
  <2>1. FrameInv /\ Len(toServer) = 0 /\ resends = 0 /\ naks = 0
    BY FrameInit DEF Init
  <2>2. [i \in 1 .. Len(toServer) |-> 0] \in [1 .. Len(toServer) -> Nat]
    OBVIOUS
  <2>3. \A i \in 1 .. Len(toServer) : FALSE
    BY <2>1
  <2>4. resends <= naks
    BY <2>1
  <2> QED BY <2>1, <2>2, <2>3, <2>4, Zenon DEF Repeats
<1>2. FrameInv /\ Repeats /\ [Next]_vars => (FrameInv /\ Repeats)'
  BY FrameNext, RepeatsNext
<1> QED BY <1>1, <1>2, PTL DEF Spec

\* Both sides keep within their types: no packet is repeated more often than the
\* client asked for, and never more is fetched than there is.
THEOREM TypeCorrect == Spec => []TypeOK
<1>1. FrameInv /\ Repeats => TypeOK
  <2> SUFFICES ASSUME FrameInv, Repeats PROVE TypeOK
    OBVIOUS
  <2>1. \A i \in DOMAIN toServer : toServer[i].t \in {"+", "-", "etx", "req"}
    <3>1. \A i \in DOMAIN toServer : toServer[i] \in Up
      BY DEF FrameInv, Types
    <3> QED BY <3>1, Kinds
  <2>2. \A i \in DOMAIN toClient : toClient[i].t \in {"+", "-", "reply", "output"}
    <3>1. \A i \in DOMAIN toClient : toClient[i] \in Down
      BY DEF FrameInv, Types
    <3> QED BY <3>1, Kinds
  <2>3. framed.t \in {"reply", "output"}
    BY Kinds DEF FrameInv, Types
  <2>4. resends \in 0 .. naks
    BY Bounds DEF FrameInv, Types, Repeats
  <2> QED BY <2>1, <2>2, <2>3, <2>4 DEF FrameInv, Types, TypeOK
<1> QED BY <1>1, FrameInductive, PTL

\* The client has all of target.xml exactly when it has been told so, whatever
\* pieces it asked for and whatever was repeated on the way.
THEOREM DocumentWhole == Spec => []DocumentIsWhole
<1>1. FrameInv => DocumentIsWhole
  BY DEF FrameInv, Document
<1> QED BY <1>1, FrameInductive, PTL

\* A step that disturbs none of the channel's four variables.
LEMMA Stutters ==
  ASSUME UNCHANGED <<asked, Handled, answered>>, spc' = "closed" <=> spc = "closed"
  PROVE  UNCHANGED Rpc!vars
BY DEF Rpc!vars

\* The server's steps: a request is handled once, or refused.
LEMMA ServerImplements == FrameInv /\ Serve => [Rpc!Next]_(Rpc!vars)
<1> SUFFICES ASSUME FrameInv, Serve PROVE [Rpc!Next]_(Rpc!vars)
  OBVIOUS
<1>1. CASE gdb_recv_packet
  <2>1. UNCHANGED <<asked, answered>> /\ Read /\ spc = "recv"
    BY <1>1 DEF gdb_recv_packet, client
  <2>2. CASE Byte.t # "req"
    <3>1. UNCHANGED <<spc, Handled>>
      BY <1>1, <2>2 DEF gdb_recv_packet, server, Handled
    <3> QED BY <2>1, <3>1, Stutters
  <2>3. CASE Byte.t = "req"
    <3>1. /\ Handled \in Nat /\ Handled + 1 = asked /\ Byte.n = asked /\ Byte \in Up
          /\ left = <<>>
          /\ Byte.want = 0 \/ (~whole /\ Byte.off = fetched)
      BY <2>1, <2>3, RequestRead
    <3>2. CASE spc' = "closed" /\ UNCHANGED <<framed, left>>
      <4>1. Handled' = Handled
        BY <3>2 DEF Handled
      <4>2. Rpc!Refuse
        BY <2>1, <3>1, <3>2, <4>1 DEF Rpc!Refuse
      <4> QED BY <4>2 DEF Rpc!Next
    <3>3. CASE /\ spc' # "closed"
               /\ \/ framed' = Reply(Byte.n) /\ UNCHANGED left
                  \/ \E k \in 0 .. MaxOutput :
                       left' = [i \in 1 .. k |-> Output(Byte.n)] \o <<AnswerTo(Byte)>>
      <4>1. Handled' = asked
        <5>1. CASE framed' = Reply(Byte.n) /\ UNCHANGED left
          BY <3>1, <5>1 DEF Handled, Reply
        <5>2. ASSUME NEW k \in 0 .. MaxOutput,
                     left' = [i \in 1 .. k |-> Output(Byte.n)] \o <<AnswerTo(Byte)>>
              PROVE  Handled' = asked
          <6>1. AnswerTo(Byte) \in Packets /\ AnswerTo(Byte).n = asked
            BY <2>3, <3>1, AnswerIsSuitable
          <6>2. Output(Byte.n) \in Packets /\ Output(Byte.n).n = asked
            BY <2>3, <3>1, Kinds DEF Output, Packets
          <6>3. /\ Len(left') = k + 1 /\ left' # <<>> /\ k \in Nat
                /\ \A i \in 1 .. Len(left') : IF i = k + 1 THEN left'[i] = AnswerTo(Byte)
                                              ELSE left'[i] = Output(Byte.n)
            BY <5>2, <6>1, <6>2, Said, Bounds
          <6>4. left'[1].n = asked
            BY <6>1, <6>2, <6>3
          <6> QED BY <6>3, <6>4 DEF Handled
        <5> QED BY <3>3, <5>1, <5>2
      <4>2. Rpc!Handle
        BY <2>1, <3>1, <3>3, <4>1 DEF Rpc!Handle
      <4> QED BY <4>2 DEF Rpc!Next
    <3> QED BY <1>1, <2>3, <3>2, <3>3 DEF gdb_recv_packet
  <2> QED BY <2>2, <2>3
<1>2. CASE SendNext
  <2>1. UNCHANGED <<asked, answered>> /\ spc = "send" /\ spc' \in {"recv", "ack"}
    BY <1>2 DEF SendNext, gdb_send_packet, client
  <2>2. Handled' = Handled
    <3>1. CASE left = <<>>
      BY <1>2, <3>1 DEF SendNext, Handled
    <3>2. CASE left # <<>>
      <4>1. /\ framed' = left[1] /\ left' = Tail(left)
            /\ \A i \in 1 .. Len(left') : i + 1 \in 1 .. Len(left) /\ left'[i] = left[i + 1]
        BY <1>2, <3>2, TailIs DEF SendNext, gdb_send_packet, FrameInv, Types
      <4>2. left[1].n = Handled /\ \A i \in 1 .. Len(left') : left'[i].n = Handled
        BY <3>2, <4>1, HandledIs DEF FrameInv, Numbered
      <4>3. left' # <<>> => 1 \in 1 .. Len(left')
        BY <3>2, <4>1, TailIs DEF FrameInv, Types
      <4> QED BY <4>1, <4>2, <4>3 DEF Handled
    <3> QED BY <3>1, <3>2
  <2> QED BY <2>1, <2>2, Stutters
<1>3. CASE AwaitAck
  <2>1. /\ UNCHANGED <<asked, answered, framed, left>>
        /\ spc = "ack" /\ spc' \in {"ack", "send"}
    BY <1>3 DEF AwaitAck, client
  <2> QED BY <2>1, Stutters DEF Handled
<1>4. CASE gdb_wait_for_stop
  <2>1. /\ UNCHANGED <<asked, answered, framed>> /\ spc = "run" /\ spc' \in {"run", "ack"}
        /\ left = <<>> /\ left' = <<>>
    BY <1>4 DEF gdb_wait_for_stop, gdb_send_packet, client, server, FrameInv, Turns
  <2> QED BY <2>1, Stutters DEF Handled
<1> QED BY <1>1, <1>2, <1>3, <1>4 DEF Serve

\* The client's steps: it takes one reply for a request, the one to its last.
LEMMA ClientImplements ==
  /\ FrameInv /\ (Listen \/ AskAgain \/ SendEtx) => [Rpc!Next]_(Rpc!vars)
  /\ FrameInv /\ ((\E l \in Lengths, r \in BOOLEAN : Ask(l, r)) \/ \E w \in Wants : Fetch(w))
       => Rpc!Ask
<1>1. ASSUME FrameInv, ReadAck \/ AskAgain \/ SendEtx PROVE UNCHANGED Rpc!vars
  <2>1. UNCHANGED <<spc, framed, left, asked, answered>>
    BY <1>1 DEF ReadAck, AskAgain, SendEtx, server
  <2> QED BY <2>1, Stutters DEF Handled
<1>2. ASSUME FrameInv, ReadReply PROVE [Rpc!Next]_(Rpc!vars)
  <2>1. UNCHANGED <<spc, framed, left, asked>> /\ cpc = "reply" /\ Take
    BY <1>2 DEF ReadReply, server
  <2>2. Handled' = Handled
    BY <2>1 DEF Handled
  <2>3. CASE UNCHANGED answered
    BY <2>1, <2>2, <2>3, Stutters
  <2>4. CASE Head(toClient).t = "reply" /\ answered' = Head(toClient).n
    <3>1. Head(toClient).n = asked /\ Handled = asked /\ answered + 1 = asked
      BY <1>2, <2>1, <2>4, ReplyTaken
    <3>2. answered \in Nat
      BY <1>2, Bounds DEF FrameInv, Types
    <3>3. Rpc!Answer
      BY <2>1, <2>2, <2>4, <3>1, <3>2 DEF Rpc!Answer
    <3> QED BY <3>3 DEF Rpc!Next
  <2> QED BY <1>2, <2>3, <2>4 DEF ReadReply
<1>3. ASSUME FrameInv,
             (\E l \in Lengths, r \in BOOLEAN : Ask(l, r)) \/ \E w \in Wants : Fetch(w)
      PROVE  Rpc!Ask
  <2>1. /\ UNCHANGED <<spc, framed, left, answered>> /\ cpc = "idle" /\ spc # "closed"
        /\ asked' = asked + 1
    BY <1>3 DEF Ask, Fetch, server
  <2>2. answered = asked
    BY <1>3, <2>1 DEF FrameInv, Turns
  <2> QED BY <2>1, <2>2 DEF Rpc!Ask, Handled
<1> QED BY <1>1, <1>2, <1>3 DEF Listen

\* gdb_recv_packet, gdb_send_packet and gdb_wait_for_stop implement a
\* request-reply channel: each request is handled once and in order, and the
\* client goes on only when it has been answered.
THEOREM FramingImplementsRpc == Spec => RpcSpec
<1>1. Init => Rpc!Init
  BY DEF Init, Rpc!Init, Handled, NoPacket, Output
<1>2. FrameInv /\ [Next]_vars => [Rpc!Next]_(Rpc!vars)
  <2> SUFFICES ASSUME FrameInv, [Next]_vars PROVE [Rpc!Next]_(Rpc!vars)
    OBVIOUS
  <2>1. CASE UNCHANGED vars
    BY <2>1 DEF vars, server, client, Rpc!vars, Handled
  <2> QED BY <2>1, ServerImplements, ClientImplements DEF Next, Rpc!Next
<1> QED BY <1>1, <1>2, FrameInductive, PTL DEF Spec, RpcSpec, Rpc!Spec
=============================================================================
