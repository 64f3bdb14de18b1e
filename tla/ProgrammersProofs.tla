------------------------- MODULE ProgrammersProofs -------------------------
(***************************************************************************)
(* Proofs about Programmers, for every bench of programmers, set of        *)
(* requests, length of the scan and number of polls.                       *)
(***************************************************************************)
EXTENDS Programmers, SequenceTheorems, WellFoundedInduction, TLAPS

---------------------------------------------------------------------------
(* The inductive invariant *)

\* The types, and the bus as a sequence of different programmers that each took
\* an address of their own.
BusType ==
  /\ bus \in Seq(Prog) /\ Len(bus) < next
  /\ address \in [Prog -> 0 .. MaxAddress] /\ next \in 1 .. MaxAddress + 1
  /\ mode \in [Prog -> {"rv", "arm", "iap"}] /\ access \in [Prog -> BOOLEAN]
CallType ==
  /\ pc \in {"idle", "scan", "boot", "wait", "open"}
  /\ req.op \in Ops /\ req.filter # Unreadable
  /\ waited \in 0 .. MaxPolls
  /\ result \in {"none", "ok", "no_device", "access", "usb"}
  /\ opened \in Prog \cup {None} /\ target \in Prog \cup {None}
  /\ steady \subseteq Prog /\ missing \in {"none", "empty", "denied", "absent"}
  /\ faults \in Nat /\ events \in Nat

Unique == \A i, j \in 1 .. Len(bus) : bus[i] = bus[j] => i = j
Addressed ==
  /\ \A p \in Attached : address[p] < next
  /\ \A p, q \in Attached : address[p] = address[q] => p = q
  /\ info.address \in 0 .. next - 1

\* Whatever has the address the call has settled on is what the scan saw there.
Settled ==
  /\ pc = "open" => \A p \in AtAddress(info.address) : Wanted(p) /\ mode[p] = "rv"
  /\ pc = "boot" => \A p \in AtAddress(info.address) : Wanted(p) /\ mode[p] # "rv"
  /\ opened # None => pc = "idle" /\ Wanted(opened) /\ mode[opened] = "rv"

BusInv == BusType /\ CallType /\ Unique /\ Addressed /\ Settled

\* A steady programmer is ready for the call wherever the call is, and while no
\* call of libusb fails it keeps the call from booting one.
Steady ==
  \A p \in steady : p \in ToSet(Listed) /\ mode[p] = "rv" /\ access[p] /\ Wanted(p)
Present ==
  pc = "open" /\ events = 0 =>
    AtAddress(info.address) # {} /\ \A p \in AtAddress(info.address) : access[p]
Unbooted ==
  steady # {} /\ faults = 0 => pc \notin {"boot", "wait"}

ReadyInv == BusInv /\ Steady /\ Present /\ Unbooted /\ ReadyIsUsed

---------------------------------------------------------------------------
(* The bus and the scan *)

\* A sequence without its i-th element.
LEMMA RemoveAtProperties ==
  ASSUME NEW S, NEW s \in Seq(S), NEW i \in 1 .. Len(s)
  PROVE  /\ RemoveAt(s, i) \in Seq(S)
         /\ Len(RemoveAt(s, i)) = Len(s) - 1
         /\ \A j \in 1 .. Len(s) - 1 : RemoveAt(s, i)[j] = IF j < i THEN s[j] ELSE s[j + 1]
<1> DEFINE a == SubSeq(s, 1, i - 1)
           b == SubSeq(s, i + 1, Len(s))
<1>1. Len(s) \in Nat /\ i - 1 \in Int /\ i + 1 \in Int
  BY LenProperties
<1>2. /\ a \in Seq(S) /\ Len(a) = i - 1
      /\ \A j \in 1 .. i - 1 : a[j] = s[j]
  <2>1. \A j \in 1 .. i - 1 : s[j] \in S
    BY <1>1, ElementOfSeq
  <2> QED BY <1>1, <2>1, SubSeqProperties
<1>3. /\ b \in Seq(S) /\ Len(b) = Len(s) - i
      /\ \A j \in 1 .. Len(s) - i : b[j] = s[i + j]
  <2>1. \A j \in i + 1 .. Len(s) : s[j] \in S
    BY <1>1, ElementOfSeq
  <2>2. /\ b \in Seq(S) /\ Len(b) = (IF i + 1 <= Len(s) THEN Len(s) - (i + 1) + 1 ELSE 0)
        /\ \A j \in 1 .. Len(s) - (i + 1) + 1 : b[j] = s[i + 1 + j - 1]
    BY <1>1, <2>1, SubSeqProperties
  <2> QED BY <1>1, <2>2
<1> HIDE DEF a, b
<1>4. /\ a \o b \in Seq(S) /\ Len(a \o b) = Len(a) + Len(b)
      /\ \A j \in 1 .. Len(a) + Len(b) : (a \o b)[j] = IF j <= Len(a) THEN a[j] ELSE b[j - Len(a)]
  BY <1>2, <1>3, ConcatProperties
<1>5. RemoveAt(s, i) = a \o b
  BY DEF RemoveAt, a, b
<1>6. ASSUME NEW j \in 1 .. Len(s) - 1
      PROVE  (a \o b)[j] = IF j < i THEN s[j] ELSE s[j + 1]
  <2>1. j \in 1 .. Len(a) + Len(b)
    BY <1>1, <1>2, <1>3
  <2>2. CASE j < i
    BY <1>1, <1>2, <1>4, <2>1, <2>2
  <2>3. CASE ~(j < i)
    <3>1. j - (i - 1) \in 1 .. Len(s) - i /\ i + (j - (i - 1)) = j + 1
      BY <1>1, <2>3
    <3> QED BY <1>1, <1>2, <1>3, <1>4, <2>1, <2>3, <3>1
  <2> QED BY <2>2, <2>3
<1>7. Len(a) + Len(b) = Len(s) - 1
  BY <1>1, <1>2, <1>3
<1> QED BY <1>4, <1>5, <1>6, <1>7

\* A non-empty set of naturals has a least member, which is its First.
LEMMA FirstIsMember ==
  ASSUME NEW S \in SUBSET Nat, S # {}
  PROVE  First(S) \in S
<1> DEFINE R == OpToRel(<, Nat)
<1>1. \A x, y \in Nat : <<y, x>> \in R <=> y < x
  BY DEF OpToRel
<1>2. IsWellFoundedOn(R, Nat)
  BY NatLessThanWellFounded
<1> HIDE DEF R
<1>3. PICK i \in S : \A j \in S : <<j, i>> \notin R
  BY <1>2, WFMin
<1>4. ASSUME NEW j \in S PROVE i <= j
  <2>1. i \in Nat /\ j \in Nat
    OBVIOUS
  <2>2. ~(j < i)
    BY <1>1, <1>3, <2>1
  <2> QED BY <2>1, <2>2
<1> QED BY <1>4 DEF First

\* The first MaxLinks elements of a sequence, or all of a shorter one.
LEMMA FirstOfSequence ==
  ASSUME NEW s \in Seq(Prog)
  PROVE  LET n == IF Len(s) < MaxLinks THEN Len(s) ELSE MaxLinks
             t == SubSeq(s, 1, n)
         IN  /\ n \in Nat /\ n <= Len(s)
             /\ t \in Seq(Prog) /\ Len(t) = n
             /\ \A i \in 1 .. n : t[i] = s[i]
             /\ ToSet(t) = {s[i] : i \in 1 .. n}
             /\ ToSet(t) \subseteq ToSet(s)
<1> DEFINE n == IF Len(s) < MaxLinks THEN Len(s) ELSE MaxLinks
           t == SubSeq(s, 1, n)
<1>1. Len(s) \in Nat /\ MaxLinks \in Nat
  BY LenProperties, ProgrammersAssumption
<1>2. n \in Nat /\ n <= Len(s)
  BY <1>1
<1> HIDE DEF n
<1>3. \A i \in 1 .. n : s[i] \in Prog
  BY <1>1, <1>2, ElementOfSeq
<1>4. /\ t \in Seq(Prog)
      /\ Len(t) = IF 1 <= n THEN n - 1 + 1 ELSE 0
      /\ \A i \in 1 .. n - 1 + 1 : t[i] = s[1 + i - 1]
  BY <1>2, <1>3, SubSeqProperties
<1> HIDE DEF t
<1>5. Len(t) = n /\ \A i \in 1 .. n : t[i] = s[i]
  BY <1>2, <1>4
<1>6. ToSet(t) = {s[i] : i \in 1 .. n}
  BY <1>4, <1>5, LenProperties DEF ToSet
<1>7. ToSet(t) \subseteq ToSet(s)
  BY <1>1, <1>2, <1>6, LenProperties DEF ToSet
<1> QED BY <1>2, <1>4, <1>5, <1>6, <1>7 DEF n, t

\* What leaving the bus does to it: the others stay, and none of them drops out
\* of the scan.
LEMMA LeaveBusEffect ==
  ASSUME bus \in Seq(Prog), Unique, NEW p \in Prog, LeaveBus(p)
  PROVE  /\ bus' \in Seq(Prog) /\ Len(bus') = Len(bus) - 1 /\ Unique'
         /\ Attached' = Attached \ {p}
         /\ ToSet(Listed) \ {p} \subseteq ToSet(Listed)'
<1>1. Len(bus) \in Nat /\ DOMAIN bus = 1 .. Len(bus)
  BY LenProperties
<1>2. PICK i \in 1 .. Len(bus) : bus[i] = p /\ bus' = RemoveAt(bus, i)
  BY <1>1 DEF LeaveBus
<1>3. /\ bus' \in Seq(Prog) /\ Len(bus') = Len(bus) - 1
      /\ \A j \in 1 .. Len(bus) - 1 : bus'[j] = IF j < i THEN bus[j] ELSE bus[j + 1]
  BY <1>2, RemoveAtProperties
<1>4. DOMAIN bus' = 1 .. Len(bus) - 1
  BY <1>3, LenProperties
<1>5. Unique'
  <2> SUFFICES ASSUME NEW j \in 1 .. Len(bus) - 1, NEW k \in 1 .. Len(bus) - 1, bus'[j] = bus'[k]
               PROVE  j = k
    BY <1>3 DEF Unique
  <2>1. /\ j \in 1 .. Len(bus) /\ j + 1 \in 1 .. Len(bus)
        /\ k \in 1 .. Len(bus) /\ k + 1 \in 1 .. Len(bus)
    BY <1>1
  <2>2. bus[IF j < i THEN j ELSE j + 1] = bus[IF k < i THEN k ELSE k + 1]
    BY <1>3
  <2>3. (IF j < i THEN j ELSE j + 1) = (IF k < i THEN k ELSE k + 1)
    BY <2>1, <2>2 DEF Unique
  <2> QED BY <1>1, <2>3
<1>6. ASSUME NEW k \in 1 .. Len(bus), bus[k] # p
      PROVE  \E j \in 1 .. Len(bus) - 1 : j <= k /\ bus'[j] = bus[k]
  <2>1. CASE k < i
    BY <1>1, <1>3, <2>1
  <2>2. CASE ~(k < i)
    <3>1. k # i
      BY <1>2, <1>6
    <3>2. k - 1 \in 1 .. Len(bus) - 1 /\ ~(k - 1 < i) /\ (k - 1) + 1 = k
      BY <1>1, <2>2, <3>1
    <3>3. bus'[k - 1] = bus[k] /\ k - 1 <= k
      BY <1>1, <1>3, <3>2
    <3> QED BY <3>2, <3>3
  <2> QED BY <2>1, <2>2
<1>7. ASSUME NEW j \in 1 .. Len(bus) - 1
      PROVE  \E k \in 1 .. Len(bus) : k # i /\ bus'[j] = bus[k]
  <2>1. CASE j < i
    BY <1>1, <1>3, <2>1
  <2>2. CASE ~(j < i)
    <3>1. j + 1 \in 1 .. Len(bus) /\ j + 1 # i
      BY <1>1, <2>2
    <3> QED BY <1>3, <2>2, <3>1
  <2> QED BY <2>1, <2>2
<1>8. Attached' = Attached \ {p}
  <2>1. ASSUME NEW q \in Attached' PROVE q \in Attached \ {p}
    <3>1. PICK j \in 1 .. Len(bus) - 1 : q = bus'[j]
      BY <1>4, <2>1 DEF Attached, ToSet
    <3>2. PICK k \in 1 .. Len(bus) : k # i /\ q = bus[k]
      BY <1>7, <3>1
    <3>3. q # p
      BY <1>2, <3>2 DEF Unique
    <3> QED BY <1>1, <3>2, <3>3 DEF Attached, ToSet
  <2>2. ASSUME NEW q \in Attached, q # p PROVE q \in Attached'
    <3>1. PICK k \in 1 .. Len(bus) : q = bus[k]
      BY <1>1, <2>2 DEF Attached, ToSet
    <3>2. PICK j \in 1 .. Len(bus) - 1 : bus'[j] = q
      BY <1>6, <2>2, <3>1
    <3> QED BY <1>4, <3>2 DEF Attached, ToSet
  <2> QED BY <2>1, <2>2
<1>9. ASSUME NEW q \in ToSet(Listed), q # p PROVE q \in ToSet(Listed)'
  <2> DEFINE n(s) == IF Len(s) < MaxLinks THEN Len(s) ELSE MaxLinks
  <2>1. n(bus) \in Nat /\ n(bus) <= Len(bus) /\ ToSet(Listed) = {bus[k] : k \in 1 .. n(bus)}
    BY FirstOfSequence DEF Listed
  <2>2. n(bus') \in Nat /\ ToSet(Listed)' = {bus'[k] : k \in 1 .. n(bus')}
    BY <1>3, FirstOfSequence DEF Listed
  <2>3. PICK k \in 1 .. n(bus) : q = bus[k]
    BY <1>9, <2>1
  <2>4. PICK j \in 1 .. Len(bus) - 1 : j <= k /\ bus'[j] = q
    BY <1>1, <1>6, <1>9, <2>1, <2>3
  <2>5. j \in 1 .. n(bus')
    BY <1>1, <1>3, <2>1, <2>2, <2>3, <2>4, ProgrammersAssumption
  <2> QED BY <2>2, <2>4, <2>5
<1> QED BY <1>3, <1>5, <1>8, <1>9

\* The address of a programmer is its own.
LEMMA OwnAddress ==
  ASSUME Addressed, NEW p \in Attached
  PROVE  AtAddress(address[p]) = {p}
BY DEF AtAddress, Addressed

\* The scan has an entry for each programmer it lists, in their order.
LEMMA ScanEntries ==
  ASSUME bus \in Seq(Prog), NEW unread
  PROVE  LET found == wl_usb_scan(unread)
         IN  /\ DOMAIN found = 1 .. Len(Listed) /\ Len(Listed) \in Nat
             /\ \A i \in 1 .. Len(Listed) :
                  /\ Listed[i] \in Attached
                  /\ found[i] = Entry(Listed[i], Listed[i] \notin unread)
             /\ \A p \in ToSet(Listed) : \E i \in 1 .. Len(Listed) : Listed[i] = p
             /\ ToSet(Listed) \subseteq Attached
<1>1. Listed \in Seq(Prog) /\ Len(Listed) \in Nat /\ ToSet(Listed) \subseteq Attached
  BY FirstOfSequence DEF Listed, Attached
<1>2. DOMAIN Listed = 1 .. Len(Listed)
  BY <1>1, LenProperties
<1>3. \A i \in 1 .. Len(Listed) : Listed[i] \in Attached
  BY <1>1, <1>2 DEF ToSet
<1> QED BY <1>1, <1>2, <1>3 DEF wl_usb_scan, ToSet

\* What a call settles on is an attached programmer, accessible, with the serial
\* number asked for and in one of the modes asked for.
LEMMA CandidateIsWanted ==
  ASSUME bus \in Seq(Prog), NEW unread, NEW ms, NEW f, f # Unreadable,
         HasCandidate(wl_usb_scan(unread), f, ms)
  PROVE  \E p \in Attached :
           /\ Candidate(wl_usb_scan(unread), f, ms).address = address[p]
           /\ mode[p] \in ms /\ access[p] /\ f \in {AnySerial, Serial[p]}
<1> DEFINE found == wl_usb_scan(unread)
           C == Candidates(found, f, ms)
<1>1. /\ DOMAIN found = 1 .. Len(Listed) /\ Len(Listed) \in Nat
      /\ \A i \in 1 .. Len(Listed) :
           Listed[i] \in Attached /\ found[i] = Entry(Listed[i], Listed[i] \notin unread)
  BY ScanEntries
<1> HIDE DEF found
<1>2. C \in SUBSET Nat /\ C # {}
  BY <1>1 DEF Candidates, HasCandidate, found
<1>3. First(C) \in C
  BY <1>2, FirstIsMember
<1> DEFINE i == First(C)
           p == Listed[i]
<1>4. i \in 1 .. Len(Listed) /\ Usable(found[i], f) /\ found[i].mode \in ms
  BY <1>1, <1>3 DEF Candidates
<1>5. p \in Attached /\ found[i] = Entry(p, p \notin unread)
  BY <1>1, <1>4
<1>6. Candidate(found, f, ms) = found[i]
  BY DEF Candidate
<1> HIDE DEF C, i, p
<1>7. found[i].address = address[p] /\ mode[p] \in ms /\ access[p]
  BY <1>4, <1>5 DEF Entry, Usable
<1>8. f \in {AnySerial, Serial[p]}
  BY <1>4, <1>5 DEF Entry, Usable, serial_matches
<1> QED BY <1>5, <1>6, <1>7, <1>8 DEF found

\* A scan that reads every serial number finds a programmer that is ready.
LEMMA ReadyIsFound ==
  ASSUME bus \in Seq(Prog), NEW ms, NEW f, NEW p \in ToSet(Listed),
         mode[p] \in ms, access[p], f \in {AnySerial, Serial[p]}
  PROVE  HasCandidate(wl_usb_scan({}), f, ms) /\ wl_usb_scan({}) # <<>>
<1> DEFINE found == wl_usb_scan({})
<1>1. PICK i \in 1 .. Len(Listed) : Listed[i] = p /\ found[i] = Entry(p, TRUE)
  BY ScanEntries
<1>2. DOMAIN found = 1 .. Len(Listed) /\ Len(Listed) \in Nat
  BY ScanEntries
<1> HIDE DEF found
<1>3. i \in Candidates(found, f, ms)
  BY <1>1, <1>2 DEF Candidates, Entry, Usable, serial_matches
<1>4. found # <<>>
  BY <1>2
<1> QED BY <1>3, <1>4 DEF HasCandidate, found

---------------------------------------------------------------------------
(* What the steps that scan can do *)

\* A programmer the call can use as it is.
Ready(p) == p \in ToSet(Listed) /\ mode[p] = "rv" /\ access[p] /\ Wanted(p)

\* The call settles on an accessible programmer it wants, in a mode of ms.
SettlesIn(ms) ==
  \E p \in Attached :
    /\ info'.address = address[p] /\ mode[p] \in ms /\ access[p] /\ Wanted(p)

\* The modes a programmer is booted out of are not RISC-V debug mode.
LEMMA BootModesProperties ==
  ASSUME NEW op \in Ops
  PROVE  /\ DOMAIN BootModes(op) \in SUBSET Nat
         /\ \A i \in DOMAIN BootModes(op) : BootModes(op)[i] # "rv"
         /\ "rv" \in ReadyModes(op)
         /\ op = "open" => ReadyModes(op) = {"rv"}
<1>1. CASE op = "find"
  BY <1>1 DEF BootModes, ReadyModes
<1>2. CASE op = "switch_rv"
  BY <1>2 DEF BootModes, ReadyModes
<1>3. CASE op = "eject_iap"
  BY <1>3 DEF BootModes, ReadyModes
<1>4. CASE op = "open"
  BY <1>4 DEF BootModes, ReadyModes
<1> QED BY <1>1, <1>2, <1>3, <1>4 DEF Ops

\* The scan a call begins with.
LEMMA ScanCases ==
  ASSUME BusInv, Scan
  PROVE  /\ faults' \in Nat /\ (faults' = 0 => faults = 0)
         /\ \/ Return("usb") /\ faults' # 0 /\ UNCHANGED missing
            \/ /\ \/ Return("no_device") /\ missing' = "empty"
                  \/ Return("access") /\ missing' = "denied"
               /\ faults' = 0 => \A p \in Prog : ~Ready(p)
            \/ Settle(info') /\ SettlesIn(ReadyModes(req.op)) /\ UNCHANGED missing
            \/ /\ pc' = "boot" /\ SettlesIn({"arm", "iap"}) /\ UNCHANGED <<req, waited, result, missing>>
               /\ faults' = 0 => \A p \in Prog : ~Ready(p)
<1> DEFINE f == req.filter
           op == req.op
<1>0. bus \in Seq(Prog) /\ op \in Ops /\ f # Unreadable /\ faults \in Nat /\ mode \in [Prog -> {"rv", "arm", "iap"}]
  BY DEF BusInv, BusType, CallType
<1>1. CASE Fault /\ Return("usb") /\ UNCHANGED missing
  BY <1>0, <1>1 DEF Fault
<1>2. ASSUME NEW unread \in {{}} \cup {{p} : p \in Attached},
             IF unread = {} THEN UNCHANGED faults ELSE Fault
      PROVE  faults' \in Nat /\ (faults' = 0 => faults = 0 /\ unread = {})
  BY <1>0, <1>2 DEF Fault
<1>3. ASSUME NEW p \in Prog, Ready(p)
      PROVE  HasCandidate(wl_usb_scan({}), f, ReadyModes(op)) /\ wl_usb_scan({}) # <<>>
  BY <1>0, <1>3, BootModesProperties, ReadyIsFound DEF Ready, Wanted
<1>4. ASSUME NEW unread \in {{}} \cup {{p} : p \in Attached},
             IF unread = {} THEN UNCHANGED faults ELSE Fault,
             NEW found, found = wl_usb_scan(unread),
             NEW boots, boots = {i \in DOMAIN BootModes(op) : HasCandidate(found, f, {BootModes(op)[i]})},
             \/ found = <<>> /\ Return("no_device") /\ missing' = "empty"
             \/ /\ HasCandidate(found, f, ReadyModes(op)) /\ UNCHANGED missing
                /\ Settle(Candidate(found, f, ReadyModes(op)))
             \/ /\ ~HasCandidate(found, f, ReadyModes(op)) /\ boots # {} /\ UNCHANGED missing
                /\ info' = Candidate(found, f, {BootModes(op)[First(boots)]})
                /\ pc' = "boot" /\ UNCHANGED <<req, waited, result>>
             \/ /\ found # <<>> /\ ~HasCandidate(found, f, ReadyModes(op)) /\ boots = {}
                /\ Return("access") /\ missing' = "denied"
      PROVE  \/ /\ \/ Return("no_device") /\ missing' = "empty"
                   \/ Return("access") /\ missing' = "denied"
                /\ faults' = 0 => \A p \in Prog : ~Ready(p)
             \/ Settle(info') /\ SettlesIn(ReadyModes(op)) /\ UNCHANGED missing
             \/ /\ pc' = "boot" /\ SettlesIn({"arm", "iap"}) /\ UNCHANGED <<req, waited, result, missing>>
                /\ faults' = 0 => \A p \in Prog : ~Ready(p)
  <2>1. faults' = 0 => found = wl_usb_scan({})
    BY <1>2, <1>4
  <2>2. CASE found = <<>> /\ Return("no_device") /\ missing' = "empty"
    BY <1>3, <2>1, <2>2
  <2>3. CASE /\ HasCandidate(found, f, ReadyModes(op)) /\ UNCHANGED missing
             /\ Settle(Candidate(found, f, ReadyModes(op)))
    <3>1. info' = Candidate(found, f, ReadyModes(op))
      BY <2>3 DEF Settle
    <3>2. PICK p \in Attached :
            /\ Candidate(found, f, ReadyModes(op)).address = address[p]
            /\ mode[p] \in ReadyModes(op) /\ access[p] /\ f \in {AnySerial, Serial[p]}
      BY <1>0, <1>4, <2>3, CandidateIsWanted
    <3>3. SettlesIn(ReadyModes(op))
      BY <3>1, <3>2 DEF SettlesIn, Wanted
    <3> QED BY <2>3, <3>1, <3>3
  <2>4. CASE /\ ~HasCandidate(found, f, ReadyModes(op)) /\ boots # {} /\ UNCHANGED missing
             /\ info' = Candidate(found, f, {BootModes(op)[First(boots)]})
             /\ pc' = "boot" /\ UNCHANGED <<req, waited, result>>
    <3>1. boots \in SUBSET Nat
      BY <1>0, <1>4, BootModesProperties
    <3>2. First(boots) \in boots
      BY <2>4, <3>1, FirstIsMember
    <3> DEFINE m == BootModes(op)[First(boots)]
    <3>3. m # "rv" /\ HasCandidate(found, f, {m})
      BY <1>0, <1>4, <3>2, BootModesProperties
    <3> HIDE DEF m
    <3>4. PICK p \in Attached :
            /\ Candidate(found, f, {m}).address = address[p]
            /\ mode[p] \in {m} /\ access[p] /\ f \in {AnySerial, Serial[p]}
      BY <1>0, <1>4, <3>3, CandidateIsWanted
    <3>5. p \in Prog
      BY <1>0, LenProperties DEF Attached, ToSet
    <3>6. SettlesIn({"arm", "iap"})
      BY <1>0, <2>4, <3>3, <3>4, <3>5 DEF SettlesIn, Wanted, m
    <3> QED BY <1>3, <2>1, <2>4, <3>6
  <2>5. CASE /\ found # <<>> /\ ~HasCandidate(found, f, ReadyModes(op)) /\ boots = {}
             /\ Return("access") /\ missing' = "denied"
    BY <1>3, <2>1, <2>5
  <2> QED BY <1>4, <2>2, <2>3, <2>4, <2>5
<1> HIDE DEF f, op
<1>5. CASE ~(Fault /\ Return("usb") /\ UNCHANGED missing)
  <2> DEFINE boots(found) == {i \in DOMAIN BootModes(op) : HasCandidate(found, f, {BootModes(op)[i]})}
  <2>1. PICK unread \in {{}} \cup {{p} : p \in Attached} :
          /\ IF unread = {} THEN UNCHANGED faults ELSE Fault
          /\ LET found == wl_usb_scan(unread)
             IN
             \/ found = <<>> /\ Return("no_device") /\ missing' = "empty"
             \/ /\ HasCandidate(found, f, ReadyModes(op)) /\ UNCHANGED missing
                /\ Settle(Candidate(found, f, ReadyModes(op)))
             \/ /\ ~HasCandidate(found, f, ReadyModes(op)) /\ boots(found) # {} /\ UNCHANGED missing
                /\ info' = Candidate(found, f, {BootModes(op)[First(boots(found))]})
                /\ pc' = "boot" /\ UNCHANGED <<req, waited, result>>
             \/ /\ found # <<>> /\ ~HasCandidate(found, f, ReadyModes(op)) /\ boots(found) = {}
                /\ Return("access") /\ missing' = "denied"
    BY <1>5, Zenon DEF Scan, f, op
  <2>2. faults' \in Nat /\ (faults' = 0 => faults = 0)
    BY <1>2, <2>1
  <2> HIDE DEF boots
  <2> QED BY <1>4, <2>1, <2>2 DEF boots, f, op
<1> QED BY <1>1, <1>5

\* One round of wait_for_mode.
LEMMA WaitCases ==
  ASSUME BusInv, wait_for_mode
  PROVE  /\ faults' \in Nat /\ (faults' = 0 => faults = 0)
         /\ \/ Return("no_device") /\ missing' = "absent"
            \/ Return("usb") /\ faults' # 0 /\ UNCHANGED missing
            \/ Settle(info') /\ SettlesIn({"rv"}) /\ UNCHANGED missing
            \/ waited < MaxPolls /\ waited' = waited + 1 /\ UNCHANGED <<pc, req, info, result, missing>>
<1>0. bus \in Seq(Prog) /\ req.filter # Unreadable /\ faults \in Nat
  BY DEF BusInv, BusType, CallType
<1>1. faults' \in Nat /\ (faults' = 0 => faults = 0)
  BY <1>0 DEF wait_for_mode, Fault
<1>2. CASE waited = MaxPolls /\ Return("no_device") /\ missing' = "absent"
  BY <1>1, <1>2
<1>3. CASE waited < MaxPolls /\ Fault /\ Return("usb") /\ UNCHANGED missing
  BY <1>0, <1>1, <1>3 DEF Fault
<1>4. CASE waited < MaxPolls /\ PollOnce(req.filter) /\ UNCHANGED missing
  <2>1. CASE HasCandidate(wl_usb_scan({}), req.filter, {"rv"})
    <3>1. Settle(Candidate(wl_usb_scan({}), req.filter, {"rv"}))
      BY <1>4, <2>1 DEF PollOnce
    <3>2. info' = Candidate(wl_usb_scan({}), req.filter, {"rv"})
      BY <3>1 DEF Settle
    <3>3. SettlesIn({"rv"})
      BY <1>0, <2>1, <3>2, CandidateIsWanted DEF SettlesIn, Wanted
    <3> QED BY <1>1, <1>4, <3>1, <3>2, <3>3
  <2>2. CASE ~HasCandidate(wl_usb_scan({}), req.filter, {"rv"})
    BY <1>1, <1>4, <2>2 DEF PollOnce
  <2> QED BY <2>1, <2>2
<1> QED BY <1>2, <1>3, <1>4 DEF wait_for_mode

---------------------------------------------------------------------------
(* The bus and the address a call holds *)

\* A step that leaves the bus alone leaves what is known of it.
LEMMA BusUnchanged ==
  ASSUME BusInv, UNCHANGED hw
  PROVE  /\ BusType' /\ Unique' /\ Attached' = Attached /\ Listed' = Listed
         /\ \A a : AtAddress(a)' = AtAddress(a)
BY DEF BusInv, hw, BusType, Unique, Attached, Listed, AtAddress

\* Settling on a programmer gives the call an address at which there is no other.
LEMMA SettledAddress ==
  ASSUME BusInv, NEW ms, SettlesIn(ms)
  PROVE  /\ info'.address \in 0 .. next - 1
         /\ AtAddress(info'.address) # {}
         /\ \A p \in AtAddress(info'.address) : Wanted(p) /\ mode[p] \in ms /\ access[p]
<1>1. PICK p \in Attached : info'.address = address[p] /\ mode[p] \in ms /\ access[p] /\ Wanted(p)
  BY DEF SettlesIn
<1>2. AtAddress(info'.address) = {p}
  BY <1>1, OwnAddress DEF BusInv
<1>3. p \in Prog
  BY LenProperties DEF BusInv, BusType, Attached, ToSet
<1>4. address[p] \in Nat /\ address[p] < next /\ next \in Nat
  BY <1>3 DEF BusInv, BusType, Addressed
<1> QED BY <1>1, <1>2, <1>4

\* The steps of the tool that neither reboot nor open.
LEMMA ScanBus ==
  ASSUME BusInv, Scan \/ wait_for_mode
  PROVE  BusInv'
<1>0. /\ UNCHANGED <<hw, opened, events, target, steady>> /\ pc # "idle" /\ opened = None
      /\ req' = req /\ req.op \in Ops
  <2>1. UNCHANGED <<hw, opened, events, target, steady>> /\ pc \in {"scan", "wait"}
    BY DEF Scan, wait_for_mode
  <2>2. req' = req
    BY ScanCases, WaitCases DEF Return, Settle
  <2> QED BY <2>1, <2>2 DEF BusInv, Settled, CallType
<1>1. /\ BusType' /\ Unique' /\ Attached' = Attached
      /\ \A a : AtAddress(a)' = AtAddress(a)
      /\ \A p : Wanted(p)' = Wanted(p)
      /\ next' = next /\ address' = address /\ mode' = mode
  BY <1>0, BusUnchanged DEF hw, Wanted
<1>2. faults' \in Nat
  BY ScanCases, WaitCases
<1>2a. MaxPolls \in Nat /\ CallType /\ UNCHANGED <<opened, events, target, steady>>
  BY <1>0, ProgrammersAssumption DEF BusInv
<1>3. ASSUME NEW r \in {"usb", "access", "no_device"}, Return(r), missing' \in {"none", "empty", "denied", "absent"}
      PROVE  BusInv'
  <2>1. CallType'
    BY <1>0, <1>2, <1>2a, <1>3 DEF CallType, Return
  <2>2. Addressed'
    <3>1. 0 \in 0 .. next - 1
      BY DEF BusInv, BusType
    <3>2. info'.address = 0
      BY <1>3 DEF Return, NoInfo
    <3> QED BY <1>1, <3>1, <3>2 DEF BusInv, Addressed
  <2>3. Settled'
    BY <1>0, <1>3 DEF Settled, Return
  <2> QED BY <1>1, <2>1, <2>2, <2>3 DEF BusInv
<1>4. ASSUME NEW ms, Settle(info'), SettlesIn(ms), req.op = "open" => ms = {"rv"}, UNCHANGED missing
      PROVE  BusInv'
  <2>1. CallType'
    BY <1>0, <1>2, <1>2a, <1>4 DEF CallType, Settle
  <2>2. Addressed'
    BY <1>1, <1>4, SettledAddress DEF BusInv, Addressed
  <2>3. Settled'
    <3>1. pc' = IF req.op = "open" THEN "open" ELSE "idle"
      BY <1>4 DEF Settle
    <3>2. pc' = "open" => \A p \in AtAddress(info'.address) : Wanted(p) /\ mode[p] = "rv"
      BY <1>4, <3>1, SettledAddress
    <3>3. AtAddress(info.address)' = AtAddress(info'.address)
      BY <1>1 DEF AtAddress
    <3> QED BY <1>0, <1>1, <3>1, <3>2, <3>3 DEF Settled
  <2> QED BY <1>1, <2>1, <2>2, <2>3 DEF BusInv
<1>5. ASSUME pc' = "boot", SettlesIn({"arm", "iap"}), UNCHANGED <<req, waited, result, missing>>
      PROVE  BusInv'
  <2>1. CallType'
    BY <1>0, <1>2, <1>5 DEF BusInv, CallType
  <2>2. Addressed'
    BY <1>1, <1>5, SettledAddress DEF BusInv, Addressed
  <2>3. Settled'
    <3>1. \A p \in AtAddress(info'.address) : Wanted(p) /\ mode[p] # "rv"
      BY <1>5, SettledAddress
    <3>3. AtAddress(info.address)' = AtAddress(info'.address)
      BY <1>1 DEF AtAddress
    <3> QED BY <1>0, <1>1, <1>5, <3>1, <3>3 DEF Settled
  <2> QED BY <1>1, <2>1, <2>2, <2>3 DEF BusInv
<1>6. CASE Scan
  <2>1. req.op = "open" => ReadyModes(req.op) = {"rv"}
    BY <1>0, BootModesProperties
  <2>2. missing \in {"none", "empty", "denied", "absent"}
    BY DEF BusInv, CallType
  <2> QED BY <1>3, <1>4, <1>5, <1>6, <2>1, <2>2, ScanCases
<1>7. CASE wait_for_mode
  <2>2. missing \in {"none", "empty", "denied", "absent"}
    BY DEF BusInv, CallType
  <2>3. CASE waited < MaxPolls /\ waited' = waited + 1 /\ UNCHANGED <<pc, req, info, result, missing>>
    <3>1. CallType'
      BY <1>0, <1>2, <1>2a, <2>3 DEF CallType
    <3>2. Addressed'
      BY <1>1, <2>3 DEF BusInv, Addressed
    <3>3. Settled'
      BY <1>0, <1>7, <2>3 DEF Settled, wait_for_mode
    <3> QED BY <1>1, <3>1, <3>2, <3>3 DEF BusInv
  <2> QED BY <1>3, <1>4, <1>7, <2>2, <2>3, WaitCases
<1> QED BY <1>6, <1>7

\* The boot command takes the programmer off the bus, and the call does not keep
\* its address any longer.
LEMMA BootBus ==
  ASSUME BusInv, Boot
  PROVE  /\ BusInv'
         /\ target' # target => Wanted(target') /\ mode[target'] # "rv"
<1>0. /\ UNCHANGED <<opened, events, steady, missing>> /\ pc = "boot" /\ opened = None
      /\ req' = req /\ CallType /\ MaxPolls \in Nat
  BY ProgrammersAssumption DEF Boot, Return, BusInv, Settled
<1>1. /\ \A p : Wanted(p)' = Wanted(p)
      /\ \A p \in AtAddress(info.address) : p \in Prog /\ Wanted(p) /\ mode[p] # "rv"
      /\ faults' \in Nat
  <2>1. Attached \subseteq Prog
    BY LenProperties DEF BusInv, BusType, Attached, ToSet
  <2>2. \A p \in AtAddress(info.address) : p \in Prog /\ Wanted(p) /\ mode[p] # "rv"
    BY <1>0, <2>1 DEF BusInv, Settled, AtAddress
  <2> QED BY <1>0, <2>2 DEF Wanted, CallType, Boot, Fault
<1>2. /\ \/ \E r \in {"usb", "access"} : Return(r)
         \/ pc' = "wait" /\ UNCHANGED <<info, waited, result>>
      /\ \/ UNCHANGED <<hw, target>>
         \/ \E p \in AtAddress(info.address) : Leave(p)
  BY DEF Boot
<1>3. CallType'
  <2>1. target' \in Prog \cup {None}
    BY <1>0, <1>1, <1>2 DEF Leave, CallType
  <2> QED BY <1>0, <1>1, <1>2, <2>1 DEF CallType, Return
<1>4. Settled'
  BY <1>0, <1>2 DEF Settled, Return
<1>5. CASE UNCHANGED <<hw, target>>
  <2>1. info'.address \in 0 .. next - 1
    BY <1>2 DEF Return, NoInfo, BusInv, Addressed, BusType
  <2>2. Addressed'
    BY <1>5, <2>1, BusUnchanged DEF BusInv, Addressed, hw
  <2> QED BY <1>3, <1>4, <1>5, <2>2, BusUnchanged DEF BusInv
<1>6. ASSUME NEW p \in AtAddress(info.address), Leave(p)
      PROVE  BusInv' /\ Wanted(target') /\ mode[target'] # "rv"
  <2>1. LeaveBus(p) /\ mode' = [mode EXCEPT ![p] = "rv"] /\ target' = p
        /\ UNCHANGED <<address, access, next>>
    BY <1>6 DEF Leave
  <2>2. /\ bus' \in Seq(Prog) /\ Len(bus') = Len(bus) - 1 /\ Unique'
        /\ Attached' = Attached \ {p}
    BY <1>1, <2>1, LeaveBusEffect DEF BusInv, BusType
  <2>3. BusType'
    <3>1. Len(bus) \in Nat /\ Len(bus) < next /\ next \in 1 .. MaxAddress + 1
      BY LenProperties DEF BusInv, BusType
    <3>2. Len(bus') < next'
      BY <2>1, <2>2, <3>1
    <3> QED BY <1>1, <2>1, <2>2, <3>2 DEF BusInv, BusType
  <2>4. info'.address \in 0 .. next - 1
    BY <1>2 DEF Return, NoInfo, BusInv, Addressed, BusType
  <2>5. Addressed'
    BY <2>1, <2>2, <2>4 DEF BusInv, Addressed
  <2> QED BY <1>1, <1>3, <1>4, <2>1, <2>2, <2>3, <2>5 DEF BusInv
<1> QED BY <1>2, <1>5, <1>6

\* A call begins, opens what it has settled on, or closes it.
LEMMA CallBus ==
  ASSUME BusInv, wl_usb_open \/ wl_linke_close \/ (\E r \in Requests : Call(r))
  PROVE  BusInv'
<1>0. /\ UNCHANGED <<hw, events>> /\ MaxPolls \in Nat /\ CallType /\ Settled
      /\ Attached \subseteq Prog
  BY ProgrammersAssumption, LenProperties
     DEF wl_usb_open, wl_linke_close, Call, BusInv, BusType, Attached, ToSet
<1>1. /\ BusType' /\ Unique' /\ Attached' = Attached /\ next' = next /\ address' = address
      /\ mode' = mode
  BY <1>0, BusUnchanged DEF hw
<1>2. info'.address \in 0 .. next - 1 => Addressed'
  BY <1>1 DEF BusInv, Addressed
<1>3. 0 \in 0 .. next - 1 /\ info.address \in 0 .. next - 1
  BY DEF BusInv, BusType, Addressed
<1>4. CASE wl_usb_open
  <2>1. /\ pc' = "idle" /\ info' = NoInfo /\ waited' = 0 /\ req' = req
        /\ result' \in {"usb", "access", "ok"} /\ faults' \in Nat
        /\ UNCHANGED <<target, steady, missing>>
    BY <1>0, <1>4 DEF wl_usb_open, Return, Fault, CallType, obs
  <2>2. \/ opened' = opened
        \/ opened' \in AtAddress(info.address)
    BY <1>4 DEF wl_usb_open
  <2>3. pc = "open" /\ opened = None
    BY <1>0, <1>4 DEF wl_usb_open, Settled
  <2>4. opened' # None => opened' \in Prog /\ Wanted(opened') /\ mode[opened'] = "rv"
    BY <1>0, <2>2, <2>3 DEF Settled, AtAddress
  <2>5. Settled'
    BY <1>1, <2>1, <2>4 DEF Settled, Wanted
  <2>6. CallType'
    BY <1>0, <2>1, <2>3, <2>4 DEF CallType
  <2>7. Addressed'
    BY <1>2, <1>3, <2>1 DEF NoInfo
  <2> QED BY <1>1, <2>5, <2>6, <2>7 DEF BusInv
<1>5. CASE wl_linke_close
  <2>1. opened' = None /\ UNCHANGED <<pc, req, info, waited, result, faults, target, steady, missing>>
    BY <1>5 DEF wl_linke_close, obs
  <2>2. pc = "idle"
    BY <1>0, <1>5 DEF wl_linke_close, Settled
  <2>3. CallType'
    BY <1>0, <2>1 DEF CallType
  <2>4. Settled'
    BY <2>1, <2>2 DEF Settled
  <2> QED BY <1>1, <1>2, <1>3, <2>1, <2>3, <2>4 DEF BusInv
<1>6. ASSUME NEW r \in Requests, Call(r) PROVE BusInv'
  <2>1. /\ pc' = "scan" /\ req' = r /\ info' = NoInfo /\ waited' = 0 /\ result' = "none"
        /\ target' = None /\ missing' = "none" /\ opened' = None /\ UNCHANGED <<faults, events>>
    BY <1>6 DEF Call
  <2>2. steady' \subseteq Prog
    <3>1. ToSet(Listed) \subseteq Attached
      BY ScanEntries DEF BusInv, BusType
    <3> QED BY <1>0, <1>6, <3>1 DEF Call
  <2>3. r.op \in Ops /\ r.filter # Unreadable
    BY ProgrammersAssumption
  <2>4. CallType'
    BY <1>0, <2>1, <2>2, <2>3 DEF CallType
  <2>5. Settled'
    BY <2>1 DEF Settled
  <2> QED BY <1>1, <1>2, <1>3, <2>1, <2>4, <2>5 DEF BusInv, NoInfo
<1> QED BY <1>4, <1>5, <1>6

\* A programmer enumerates.
LEMMA EnumerateBus ==
  ASSUME BusInv, NEW p \in Prog, Enumerate(p)
  PROVE  /\ BusInv' /\ Attached' = Attached \cup {p} /\ p \notin Attached
         /\ ToSet(Listed) \subseteq ToSet(Listed)'
         /\ AtAddress(info.address)' = AtAddress(info.address)
         /\ \A q \in Prog \ {p} : access'[q] = access[q]
<1>0. /\ p \notin Attached /\ next <= MaxAddress /\ next' = next + 1
      /\ address' = [address EXCEPT ![p] = next] /\ bus' = Append(bus, p)
      /\ UNCHANGED <<mode, tool, faults, events, obs>>
      /\ bus \in Seq(Prog) /\ Len(bus) \in Nat /\ DOMAIN bus = 1 .. Len(bus)
      /\ next \in 1 .. MaxAddress + 1 /\ MaxAddress \in Nat /\ Len(bus) < next
  BY ProgrammersAssumption, LenProperties DEF Enumerate, BusInv, BusType
<1>1. /\ bus' \in Seq(Prog) /\ Len(bus') = Len(bus) + 1
      /\ \A i \in 1 .. Len(bus) : bus'[i] = bus[i]
      /\ bus'[Len(bus) + 1] = p
  BY <1>0, AppendProperties
<1>2. DOMAIN bus' = 1 .. Len(bus) + 1
  BY <1>1, LenProperties
<1>3. Attached' = Attached \cup {p}
  <2>1. ASSUME NEW i \in 1 .. Len(bus) + 1 PROVE bus'[i] \in Attached \cup {p}
    <3>1. CASE i = Len(bus) + 1
      BY <1>1, <3>1
    <3>2. CASE i # Len(bus) + 1
      <4>1. i \in 1 .. Len(bus)
        BY <1>0, <3>2
      <4> QED BY <1>0, <1>1, <4>1 DEF Attached, ToSet
    <3> QED BY <3>1, <3>2
  <2>2. ASSUME NEW i \in 1 .. Len(bus) PROVE bus[i] \in Attached'
    <3>1. i \in 1 .. Len(bus) + 1
      BY <1>0
    <3> QED BY <1>1, <1>2, <3>1 DEF Attached, ToSet
  <2>3. p \in Attached'
    <3>1. Len(bus) + 1 \in 1 .. Len(bus) + 1
      BY <1>0
    <3> QED BY <1>1, <1>2, <3>1 DEF Attached, ToSet
  <2> QED BY <1>0, <1>2, <2>1, <2>2, <2>3 DEF Attached, ToSet
<1>4. Unique'
  <2> SUFFICES ASSUME NEW i \in 1 .. Len(bus) + 1, NEW j \in 1 .. Len(bus) + 1, bus'[i] = bus'[j]
               PROVE  i = j
    BY <1>1 DEF Unique
  <2>1. \A k \in 1 .. Len(bus) : bus'[k] # p
    BY <1>0, <1>1 DEF Attached, ToSet
  <2>2. CASE i = Len(bus) + 1 \/ j = Len(bus) + 1
    BY <1>0, <1>1, <2>1, <2>2
  <2>3. CASE i \in 1 .. Len(bus) /\ j \in 1 .. Len(bus)
    BY <1>1, <2>3 DEF BusInv, Unique
  <2> QED BY <1>0, <2>2, <2>3
<1>5. BusType'
  <2>1. access' \in [Prog -> BOOLEAN]
    BY DEF Enumerate, BusInv, BusType
  <2>2. address' \in [Prog -> 0 .. MaxAddress]
    BY <1>0 DEF BusInv, BusType
  <2>3. mode' \in [Prog -> {"rv", "arm", "iap"}]
    BY <1>0 DEF BusInv, BusType
  <2>4. Len(bus') < next' /\ next' \in 1 .. MaxAddress + 1
    BY <1>0, <1>1
  <2> QED BY <1>1, <2>1, <2>2, <2>3, <2>4 DEF BusType
<1>6. /\ \A q \in Attached : address'[q] = address[q] /\ address[q] \in Nat /\ address[q] < next
      /\ address'[p] = next
  <2>1. Attached \subseteq Prog
    BY <1>0 DEF Attached, ToSet
  <2> QED BY <1>0, <2>1 DEF BusInv, BusType, Addressed
<1>7. info' = info /\ info.address \in 0 .. next - 1
  BY <1>0 DEF tool, BusInv, Addressed
<1>8. Addressed'
  <2>1. \A q \in Attached' : address'[q] < next'
    BY <1>0, <1>3, <1>6
  <2>2. \A q, r \in Attached' : address'[q] = address'[r] => q = r
    BY <1>0, <1>3, <1>6 DEF BusInv, Addressed
  <2>3. info'.address \in 0 .. next' - 1
    BY <1>0, <1>7
  <2> QED BY <2>1, <2>2, <2>3 DEF Addressed
<1>9. AtAddress(info.address)' = AtAddress(info.address)
  <2>1. info.address # next
    BY <1>0, <1>7
  <2> QED BY <1>3, <1>6, <1>7, <2>1 DEF AtAddress
<1>10. CallType' /\ Settled'
  BY <1>0, <1>9 DEF BusInv, CallType, Settled, tool, obs, Wanted
<1>11. ToSet(Listed) \subseteq ToSet(Listed)'
  <2> DEFINE n(s) == IF Len(s) < MaxLinks THEN Len(s) ELSE MaxLinks
  <2>1. n(bus) \in Nat /\ n(bus) <= Len(bus) /\ ToSet(Listed) = {bus[k] : k \in 1 .. n(bus)}
    BY <1>0, FirstOfSequence DEF Listed
  <2>2. n(bus') \in Nat /\ ToSet(Listed)' = {bus'[k] : k \in 1 .. n(bus')}
    BY <1>1, FirstOfSequence DEF Listed
  <2>3. n(bus) <= n(bus')
    <3>1. MaxLinks \in Nat
      BY ProgrammersAssumption
    <3> QED BY <1>0, <1>1, <3>1
  <2> HIDE DEF n
  <2>4. ASSUME NEW k \in 1 .. n(bus) PROVE k \in 1 .. n(bus') /\ bus'[k] = bus[k]
    BY <1>0, <1>1, <2>1, <2>2, <2>3
  <2> QED BY <2>1, <2>2, <2>4
<1>12. \A q \in Prog \ {p} : access'[q] = access[q]
  BY DEF Enumerate, BusInv, BusType
<1> QED BY <1>0, <1>3, <1>4, <1>5, <1>8, <1>9, <1>10, <1>11, <1>12 DEF BusInv

\* A programmer is unplugged.
LEMMA UnplugBus ==
  ASSUME BusInv, NEW p \in Prog, Unplug(p)
  PROVE  BusInv'
<1>0. /\ UNCHANGED <<address, access, next, pc, req, info, waited, result, faults, target, missing>>
      /\ steady' = steady \ {p} /\ opened' = IF opened = p THEN None ELSE opened
      /\ LeaveBus(p) /\ p \in Attached /\ events' = events + 1
  BY DEF Unplug, Event
<1>1. mode' \in [Prog -> {"rv", "arm", "iap"}] /\ \A q \in Prog : q # p => mode'[q] = mode[q]
  BY DEF Unplug, BusInv, BusType
<1>2. /\ bus' \in Seq(Prog) /\ Len(bus') = Len(bus) - 1 /\ Unique'
      /\ Attached' = Attached \ {p} /\ Attached \subseteq Prog
  <2>1. Attached \subseteq Prog
    BY LenProperties DEF BusInv, BusType, Attached, ToSet
  <2> QED BY <1>0, <2>1, LeaveBusEffect DEF BusInv, BusType
<1>3. BusType'
  <2>1. Len(bus) \in Nat /\ Len(bus) < next /\ next \in 1 .. MaxAddress + 1
    BY LenProperties DEF BusInv, BusType
  <2>2. Len(bus') < next'
    BY <1>0, <1>2, <2>1
  <2> QED BY <1>0, <1>1, <1>2, <2>2 DEF BusInv, BusType
<1>4. Addressed'
  BY <1>0, <1>2 DEF BusInv, Addressed
<1>5. CallType'
  BY <1>0 DEF BusInv, CallType
<1>6. Settled'
  <2>1. AtAddress(info.address)' = AtAddress(info.address) \ {p}
    BY <1>0, <1>2 DEF AtAddress
  <2>2. \A q \in AtAddress(info.address) : q \in Prog
    BY <1>2 DEF AtAddress
  <2>3. opened' # None => opened' = opened /\ opened # p /\ opened \in Prog
    BY <1>0 DEF BusInv, CallType
  <2> QED BY <1>0, <1>1, <2>1, <2>2, <2>3 DEF BusInv, Settled, Wanted
<1> QED BY <1>2, <1>3, <1>4, <1>5, <1>6 DEF BusInv

\* Its permissions change.
LEMMA ChangeAccessBus ==
  ASSUME BusInv, NEW p \in Prog, ChangeAccess(p)
  PROVE  BusInv'
<1>0. /\ UNCHANGED <<bus, address, mode, next, tool, faults, target, missing>>
      /\ steady' = steady \ {p} /\ events' = events + 1
      /\ access' = [access EXCEPT ![p] = ~@]
  BY DEF ChangeAccess, Event
<1>1. access' \in [Prog -> BOOLEAN]
  BY <1>0 DEF BusInv, BusType
<1>2. BusType' /\ Unique' /\ Attached' = Attached
  BY <1>0, <1>1 DEF BusInv, BusType, Unique, Attached
<1>3. CallType'
  BY <1>0 DEF BusInv, CallType, tool
<1>4. Addressed' /\ Settled'
  BY <1>0, <1>2 DEF BusInv, Addressed, Settled, AtAddress, Wanted, tool
<1> QED BY <1>2, <1>3, <1>4 DEF BusInv

\* The bus invariant holds initially.
LEMMA BusInit == Init => BusInv
<1> SUFFICES ASSUME Init PROVE BusInv
  OBVIOUS
<1>1. bus = <<>> /\ Len(bus) = 0 /\ bus \in Seq(Prog) /\ Attached = {} /\ next = 1
  BY EmptySeq DEF Init, Attached, ToSet
<1>2. MaxAddress \in Nat /\ MaxPolls \in Nat
  BY ProgrammersAssumption
<1>3. BusType
  BY <1>1, <1>2 DEF Init, BusType
<1>4. CallType
  BY <1>2 DEF Init, CallType, Ops, Unreadable, AnySerial
<1>5. Unique
  BY <1>1 DEF Unique
<1>6. Addressed
  BY <1>1 DEF Init, Addressed, NoInfo
<1>7. Settled
  BY DEF Init, Settled
<1> QED BY <1>3, <1>4, <1>5, <1>6, <1>7 DEF BusInv

\* It is kept by every step of the tool and of the bus.
LEMMA BusNext == BusInv /\ [Next]_vars => BusInv'
<1> SUFFICES ASSUME BusInv, [Next]_vars PROVE BusInv'
  OBVIOUS
<1>1. CASE UNCHANGED vars
  BY <1>1 DEF vars, hw, tool, obs, BusInv, BusType, CallType, Unique, Addressed, Settled,
              Attached, AtAddress, Wanted
<1> QED BY <1>1, ScanBus, BootBus, CallBus, EnumerateBus, UnplugBus, ChangeAccessBus
        DEF Next, Tool, Bench

\* The state is well typed: in particular the bus never holds more programmers
\* than addresses have been given, and the wait never exceeds its limit.
THEOREM TypeCorrect == Spec => []TypeOK
<1>1. BusInv => TypeOK
  <2> SUFFICES ASSUME BusInv PROVE TypeOK
    OBVIOUS
  <2>1. Attached \subseteq Prog /\ Len(bus) \in Nat
    BY LenProperties DEF BusInv, BusType, Attached, ToSet
  <2>2. MaxAddress \in Nat
    BY ProgrammersAssumption
  <2>3. Len(bus) <= MaxAddress /\ info.address \in 0 .. MaxAddress
    BY <2>1, <2>2 DEF BusInv, BusType, Addressed
  <2> QED BY <2>1, <2>3 DEF TypeOK, BusInv, BusType, CallType
<1> QED BY <1>1, BusInit, BusNext, PTL DEF Spec

\* What is opened is a programmer the caller asked for, in RISC-V debug mode,
\* however the bus changed between the scan and the open.
THEOREM OpenedWanted == Spec => []OpenedIsWanted
<1>1. BusInv => OpenedIsWanted
  BY DEF BusInv, Settled, OpenedIsWanted
<1> QED BY <1>1, BusInit, BusNext, PTL DEF Spec

\* No programmer is rebooted that the caller did not ask for, or that was in
\* RISC-V debug mode already.
THEOREM RebootedWanted == Spec => OnlyWantedRebooted
<1> DEFINE A == target' # target /\ target' # None => Wanted(target') /\ mode[target'] # "rv"
<1>1. BusInv /\ [Next]_vars => [A]_vars
  <2> SUFFICES ASSUME BusInv, Next PROVE A
    BY DEF vars
  <2>1. CASE Boot
    BY <2>1, BootBus
  <2>2. CASE ~Boot
    BY <2>2 DEF Next, Tool, Bench, Scan, wait_for_mode, wl_usb_open, wl_linke_close, Call,
                Enumerate, Unplug, ChangeAccess, obs
  <2> QED BY <2>1, <2>2
<1> QED BY <1>1, BusInit, BusNext, PTL DEF Spec, OnlyWantedRebooted

---------------------------------------------------------------------------
(* A programmer that is ready is used *)

\* The steps of a call, up to the open.
LEMMA ScanReady ==
  ASSUME ReadyInv, Scan \/ wait_for_mode
  PROVE  ReadyInv'
<1>0. /\ BusInv /\ BusInv' /\ UNCHANGED <<hw, opened, events, target, steady>> /\ pc \in {"scan", "wait"}
      /\ steady \subseteq Prog /\ events \in Nat
  BY ScanBus DEF ReadyInv, Scan, wait_for_mode, BusInv, CallType
<1>1. /\ faults' \in Nat /\ (faults' = 0 => faults = 0) /\ req' = req
  BY <1>0, ScanCases, WaitCases DEF Return, Settle
<1>2. Steady'
  BY <1>0, <1>1, BusUnchanged DEF ReadyInv, Steady, Wanted, hw
<1>3. ASSUME NEW p \in steady PROVE p \in Prog /\ Ready(p)
  BY <1>0 DEF ReadyInv, Steady, Ready
\* When a steady programmer is there the call settles or fails.
<1>4. steady # {} /\ faults' = 0 => pc = "scan" /\ Settle(info') /\ UNCHANGED missing
  <2> SUFFICES ASSUME steady # {}, faults' = 0 PROVE pc = "scan" /\ Settle(info') /\ UNCHANGED missing
    OBVIOUS
  <2>1. faults = 0 /\ pc = "scan"
    BY <1>0, <1>1 DEF ReadyInv, Unbooted
  <2>2. Scan /\ \E p \in Prog : Ready(p)
    BY <1>3, <2>1 DEF wait_for_mode
  <2> QED BY <1>0, <2>1, <2>2, ScanCases
<1>5. Unbooted'
  BY <1>0, <1>4 DEF Unbooted, Settle
<1>6. Present'
  <2> SUFFICES ASSUME pc' = "open"
               PROVE  AtAddress(info.address)' # {} /\ \A p \in AtAddress(info.address)' : access'[p]
    BY DEF Present
  <2>1. \E ms : SettlesIn(ms)
    BY <1>0, ScanCases, WaitCases DEF Return
  <2>2. AtAddress(info'.address) # {} /\ \A p \in AtAddress(info'.address) : access[p]
    BY <1>0, <2>1, SettledAddress
  <2>3. AtAddress(info.address)' = AtAddress(info'.address) /\ access' = access
    BY <1>0 DEF AtAddress, Attached, hw
  <2> QED BY <2>2, <2>3
<1>7. ReadyIsUsed'
  <2> SUFFICES ASSUME steady # {}, faults' = 0
               PROVE  target = None /\ missing' = "none" /\ (events = 0 => result' \in {"none", "ok"})
    BY <1>0 DEF ReadyIsUsed
  <2>1. /\ target = None /\ missing = "none" /\ (events = 0 => result \in {"none", "ok"})
    BY <1>1 DEF ReadyInv, ReadyIsUsed
  <2> QED BY <1>4, <2>1 DEF Settle
<1> QED BY <1>0, <1>2, <1>5, <1>6, <1>7 DEF ReadyInv

\* A reboot: none of a steady programmer, and none at all while no call failed.
LEMMA BootReady ==
  ASSUME ReadyInv, Boot
  PROVE  ReadyInv'
<1>0. /\ BusInv /\ BusInv' /\ UNCHANGED <<opened, events, steady, missing>> /\ pc = "boot"
      /\ pc' \in {"idle", "wait"} /\ steady \subseteq Prog /\ req' = req
      /\ (target' # target => Wanted(target') /\ mode[target'] # "rv")
  BY BootBus DEF ReadyInv, Boot, BusInv, CallType, Return
<1>1. faults \in Nat /\ faults' \in Nat /\ (faults' = 0 => faults = 0)
  BY <1>0 DEF Boot, Fault, BusInv, CallType
<1>2. steady = {} \/ faults' # 0
  BY <1>0, <1>1 DEF ReadyInv, Unbooted
<1>3. Steady'
  <2>1. CASE UNCHANGED hw
    BY <1>0, <2>1, BusUnchanged DEF ReadyInv, Steady, Wanted, hw
  <2>2. ASSUME NEW p \in AtAddress(info.address), Leave(p) PROVE Steady'
    <3>1. p \in Prog /\ mode[p] # "rv"
      <4>1. Attached \subseteq Prog
        BY LenProperties DEF ReadyInv, BusInv, BusType, Attached, ToSet
      <4> QED BY <1>0, <4>1 DEF BusInv, Settled, AtAddress
    <3>2. ToSet(Listed) \ {p} \subseteq ToSet(Listed)'
      BY <1>0, <2>2, <3>1, LeaveBusEffect DEF Leave, BusInv, BusType
    <3>3. \A q \in Prog : q # p => mode'[q] = mode[q] /\ access' = access
      BY <1>0, <2>2 DEF Leave, BusInv, BusType
    <3>4. \A q \in steady : q # p
      BY <3>1 DEF ReadyInv, Steady
    <3> QED BY <1>0, <3>2, <3>3, <3>4 DEF ReadyInv, Steady, Wanted
  <2> QED BY <2>1, <2>2 DEF Boot
<1> QED BY <1>0, <1>2, <1>3 DEF ReadyInv, Present, Unbooted, ReadyIsUsed

\* A call begins, opens what it has settled on, or closes it.
LEMMA CallReady ==
  ASSUME ReadyInv, wl_usb_open \/ wl_linke_close \/ (\E r \in Requests : Call(r))
  PROVE  ReadyInv'
<1>0. BusInv /\ BusInv' /\ UNCHANGED <<hw, events>> /\ faults \in Nat /\ events \in Nat
  BY CallBus DEF ReadyInv, wl_usb_open, wl_linke_close, Call, BusInv, CallType
<1>1. Listed' = Listed /\ mode' = mode /\ access' = access
  BY <1>0, BusUnchanged DEF hw
<1>2. CASE wl_usb_open
  <2>1. pc = "open" /\ pc' = "idle" /\ req' = req /\ UNCHANGED obs
        /\ faults' \in Nat /\ (faults' = 0 => faults = 0)
    BY <1>0, <1>2 DEF wl_usb_open, Return, Fault
  <2>2. Steady'
    BY <1>1, <2>1 DEF ReadyInv, Steady, Wanted, obs
  <2>3. Present' /\ Unbooted'
    BY <2>1 DEF Present, Unbooted
  <2>4. faults' = 0 /\ events = 0 => result' = "ok"
    <3> SUFFICES ASSUME faults' = 0, events = 0 PROVE result' = "ok"
      OBVIOUS
    <3>1. AtAddress(info.address) # {} /\ \A p \in AtAddress(info.address) : access[p]
      BY <2>1 DEF ReadyInv, Present
    <3>2. ~Fault
      BY <1>0 DEF Fault
    <3> QED BY <1>2, <3>1, <3>2 DEF wl_usb_open, Return
  <2>5. ReadyIsUsed'
    BY <1>0, <2>1, <2>4 DEF ReadyInv, ReadyIsUsed, obs
  <2> QED BY <1>0, <2>2, <2>3, <2>5 DEF ReadyInv
<1>3. CASE wl_linke_close
  <2>1. UNCHANGED <<pc, req, info, result, faults, obs>>
    BY <1>3 DEF wl_linke_close
  <2>2. Steady'
    BY <1>1, <2>1 DEF ReadyInv, Steady, Wanted, obs
  <2>3. Present'
    BY <1>0, <1>1, <2>1, BusUnchanged DEF ReadyInv, Present
  <2>4. Unbooted' /\ ReadyIsUsed'
    BY <1>0, <2>1 DEF ReadyInv, Unbooted, ReadyIsUsed, obs
  <2> QED BY <1>0, <2>2, <2>3, <2>4 DEF ReadyInv
<1>4. ASSUME NEW r \in Requests, Call(r) PROVE ReadyInv'
  <2>1. /\ pc' = "scan" /\ result' = "none" /\ target' = None /\ missing' = "none" /\ req' = r
        /\ steady' = {p \in ToSet(Listed) : mode[p] = "rv" /\ access[p] /\ r.filter \in {AnySerial, Serial[p]}}
    BY <1>4 DEF Call
  <2>2. Steady'
    BY <1>1, <2>1 DEF Steady, Wanted
  <2>3. Present' /\ Unbooted' /\ ReadyIsUsed'
    BY <2>1 DEF Present, Unbooted, ReadyIsUsed
  <2> QED BY <1>0, <2>2, <2>3 DEF ReadyInv
<1> QED BY <1>2, <1>3, <1>4

\* What happens on the bench.
LEMMA BenchReady ==
  ASSUME ReadyInv, NEW p \in Prog, Enumerate(p) \/ Unplug(p) \/ ChangeAccess(p)
  PROVE  ReadyInv'
<1>0. /\ BusInv /\ BusInv' /\ steady \subseteq Prog /\ faults \in Nat /\ events \in Nat
  BY EnumerateBus, UnplugBus, ChangeAccessBus DEF ReadyInv, BusInv, CallType
<1>1. UNCHANGED <<pc, req, info, result, faults, target, missing>>
  BY DEF Enumerate, Unplug, ChangeAccess, tool, obs
<1>2. CASE Enumerate(p)
  <2>1. /\ p \notin Attached /\ ToSet(Listed) \subseteq ToSet(Listed)'
        /\ AtAddress(info.address)' = AtAddress(info.address)
        /\ \A q \in Prog \ {p} : access'[q] = access[q]
        /\ UNCHANGED <<steady, events, mode>>
    BY <1>0, <1>2, EnumerateBus DEF Enumerate, obs
  <2>2. ToSet(Listed) \subseteq Attached
    BY <1>0, ScanEntries DEF BusInv, BusType
  <2>3. Attached \subseteq Prog
    BY <1>0, LenProperties DEF BusInv, BusType, Attached, ToSet
  <2>4. Steady'
    BY <1>0, <1>1, <2>1, <2>2 DEF ReadyInv, Steady, Wanted
  <2>5. Present'
    BY <1>1, <2>1, <2>3 DEF ReadyInv, Present, AtAddress
  <2>6. Unbooted' /\ ReadyIsUsed'
    BY <1>1, <2>1 DEF ReadyInv, Unbooted, ReadyIsUsed
  <2> QED BY <1>0, <2>4, <2>5, <2>6 DEF ReadyInv
<1>3. CASE Unplug(p) \/ ChangeAccess(p)
  <2>1. steady' = steady \ {p} /\ events' = events + 1 /\ events' # 0
    BY <1>0, <1>3 DEF Unplug, ChangeAccess, Event
  <2>2. Present'
    BY <2>1 DEF Present
  <2>3. Unbooted' /\ ReadyIsUsed'
    BY <1>1, <2>1 DEF ReadyInv, Unbooted, ReadyIsUsed
  <2>4. ToSet(Listed) \ {p} \subseteq ToSet(Listed)'
    <3>1. CASE Unplug(p)
      BY <1>0, <3>1, LeaveBusEffect DEF Unplug, BusInv, BusType
    <3>2. CASE ChangeAccess(p)
      BY <3>2 DEF ChangeAccess, Listed
    <3> QED BY <1>3, <3>1, <3>2
  <2>5. \A q \in Prog : q # p => mode'[q] = mode[q] /\ access'[q] = access[q]
    BY <1>0, <1>3 DEF Unplug, ChangeAccess, BusInv, BusType
  <2>6. Steady'
    BY <1>0, <1>1, <2>1, <2>4, <2>5 DEF ReadyInv, Steady, Wanted
  <2> QED BY <1>0, <2>2, <2>3, <2>6 DEF ReadyInv
<1> QED BY <1>2, <1>3

\* While a programmer that is ready for the call stays attached, the call reboots
\* none and does not say there is none; and it fails only if a call of libusb
\* fails or something on the bus changes.
THEOREM ReadyUsed == Spec => []ReadyIsUsed
<1>1. Init => ReadyInv
  <2> SUFFICES ASSUME Init PROVE ReadyInv
    OBVIOUS
  <2>1. Steady /\ Present /\ Unbooted /\ ReadyIsUsed
    BY DEF Init, Steady, Present, Unbooted, ReadyIsUsed
  <2> QED BY <2>1, BusInit DEF ReadyInv
<1>2. ReadyInv /\ [Next]_vars => ReadyInv'
  <2> SUFFICES ASSUME ReadyInv, [Next]_vars PROVE ReadyInv'
    OBVIOUS
  <2>1. CASE UNCHANGED vars
    <3>1. BusInv'
      BY BusNext DEF ReadyInv
    <3> QED BY <2>1, <3>1 DEF vars, hw, tool, obs, ReadyInv, Steady, Present, Unbooted,
                              ReadyIsUsed, Listed, Attached, AtAddress, Wanted
  <2> QED BY <2>1, ScanReady, BootReady, CallReady, BenchReady DEF Next, Tool, Bench
<1>3. ReadyInv => ReadyIsUsed
  BY DEF ReadyInv
<1> QED BY <1>1, <1>2, <1>3, PTL DEF Spec
=============================================================================
