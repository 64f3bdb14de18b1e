----------------------------- MODULE Programmers -----------------------------
(***************************************************************************)
(* usb_link.c over usb.c: how a call finds the programmer it is to use,    *)
(* brings it into RISC-V debug mode when that takes a boot command, and    *)
(* opens it, while programmers are plugged, unplugged, re-enumerate and    *)
(* get their permissions late.                                             *)
(*                                                                         *)
(* A device is known to the tool by the address it had when the bus was    *)
(* scanned; every enumeration gives a new one.                             *)
(***************************************************************************)
EXTENDS Naturals, Sequences, SequencesExt

CONSTANTS
  Prog,        \* the programmers of the bench
  Serial,      \* Serial[p]: the serial number p reports
  Requests,    \* [op, filter]: what the commands ask for
  MaxLinks,    \* WL_MAX_LINKS
  MaxPolls,    \* WL_MODE_SWITCH_WAIT_MS / WL_MODE_SWITCH_POLL_MS
  MaxAddress,  \* bound: enumerations
  MaxFaults,   \* bound: libusb calls that fail
  MaxEvents    \* bound: cables pulled and permissions changed

Ops == {"find", "switch_rv", "eject_iap", "open"}
Unreadable == "unreadable"  \* a serial number that could not be read
AnySerial == "any"          \* no filter

ASSUME ProgrammersAssumption ==
  /\ \A p \in Prog : Serial[p] \notin {AnySerial, Unreadable}
  /\ \A r \in Requests : r.op \in Ops /\ r.filter # Unreadable
  /\ MaxLinks \in Nat \ {0} /\ MaxPolls \in Nat /\ MaxAddress \in Nat
  /\ MaxFaults \in Nat /\ MaxEvents \in Nat

VARIABLES
  \* the bus
  bus,       \* the attached programmers, in the order libusb lists them
  address,   \* their addresses
  mode,      \* what each presents itself as: "rv", "arm" or "iap"
  access,    \* whether each may be opened
  next,      \* the next address to be given
  \* the call
  pc, req,
  info,      \* the scan's entry the call has settled on
  waited,    \* polls of wait_for_mode
  result,
  opened,    \* the programmer whose interface is claimed, or None
  faults, events,
  \* observations of the call
  target,    \* the programmer the boot command reached, or None
  steady,    \* listed, matching, accessible and in RISC-V mode since the call began
  missing    \* why no programmer was found: "none" while one may be

hw == <<bus, address, mode, access, next>>
tool == <<pc, req, info, waited, result, opened>>
obs == <<target, steady, missing>>
vars == <<hw, tool, faults, events, obs>>

None == "none"
NoInfo == [address |-> 0, mode |-> "rv", serial |-> Unreadable, accessible |-> FALSE]
Attached == ToSet(bus)

---------------------------------------------------------------------------
(* usb.c *)

Fault == faults < MaxFaults /\ faults' = faults + 1

\* One entry of the scan: a device that cannot be opened has no serial, and one
\* that can may still not say it.
Entry(p, readable) ==
  [address |-> address[p], mode |-> mode[p], accessible |-> access[p],
   serial |-> IF access[p] /\ readable THEN Serial[p] ELSE Unreadable]

\* wl_usb_scan lists the first MaxLinks programmers.
Listed == SubSeq(bus, 1, IF Len(bus) < MaxLinks THEN Len(bus) ELSE MaxLinks)
wl_usb_scan(unread) ==
  [i \in 1 .. Len(Listed) |-> Entry(Listed[i], Listed[i] \notin unread)]

\* wl_usb_open and wl_usb_send_boot_command look the device up by its address.
AtAddress(a) == {p \in Attached : address[p] = a}

---------------------------------------------------------------------------
(* usb_link.c *)

serial_matches(e, filter) == filter = AnySerial \/ e.serial = filter
Usable(e, filter) == e.accessible /\ serial_matches(e, filter)

\* The first entry of found that is usable and in one of the modes ms.
Candidates(found, filter, ms) ==
  {i \in DOMAIN found : Usable(found[i], filter) /\ found[i].mode \in ms}
First(S) == CHOOSE i \in S : \A j \in S : i <= j
HasCandidate(found, filter, ms) == Candidates(found, filter, ms) # {}
Candidate(found, filter, ms) == found[First(Candidates(found, filter, ms))]

\* Mutant: a programmer that needs no switching is passed over.
ReadyModes_None(op) == IF op = "find" THEN {"rv", "arm", "iap"} ELSE {}

\* The modes that need no switching, and those it can be brought out of, in
\* the order they are tried.
ReadyModes(op) == IF op = "find" THEN {"rv", "arm", "iap"} ELSE {"rv"}
BootModes(op) == CASE op = "find" -> <<>>
                   [] op = "switch_rv" -> <<"arm">>
                   [] op = "eject_iap" -> <<"iap">>
                   [] op = "open" -> <<"arm", "iap">>

\* A call's locals are gone when it returns.
Return(s) == pc' = "idle" /\ result' = s /\ info' = NoInfo /\ waited' = 0 /\ UNCHANGED req
Settle(e) ==
  /\ info' = e
  /\ IF req.op = "open" THEN pc' = "open" /\ UNCHANGED result
     ELSE pc' = "idle" /\ result' = "ok"
  /\ waited' = 0 /\ UNCHANGED req

Call(r) ==
  /\ pc = "idle" /\ opened = None
  /\ pc' = "scan" /\ req' = r /\ info' = NoInfo /\ waited' = 0 /\ result' = "none"
  /\ target' = None /\ missing' = "none"
  /\ steady' = {p \in ToSet(Listed) : mode[p] = "rv" /\ access[p] /\ r.filter \in {AnySerial, Serial[p]}}
  /\ UNCHANGED <<hw, opened, faults, events>>

\* The scan a call begins with, and what it decides from it.
Scan ==
  /\ pc = "scan"
  /\ UNCHANGED <<hw, opened, events, target, steady>>
  /\ \/ Fault /\ Return("usb") /\ UNCHANGED missing
     \/ \E unread \in {{}} \cup {{p} : p \in Attached} :
          LET found == wl_usb_scan(unread)
              Has(ms) == HasCandidate(found, req.filter, ms)
              boots == {i \in DOMAIN BootModes(req.op) : Has({BootModes(req.op)[i]})}
          IN /\ IF unread = {} THEN UNCHANGED faults ELSE Fault
             /\ \/ found = <<>> /\ Return("no_device") /\ missing' = "empty"
                \/ /\ Has(ReadyModes(req.op)) /\ UNCHANGED missing
                   /\ Settle(Candidate(found, req.filter, ReadyModes(req.op)))
                \/ /\ ~Has(ReadyModes(req.op)) /\ boots # {} /\ UNCHANGED missing
                   /\ info' = Candidate(found, req.filter, {BootModes(req.op)[First(boots)]})
                   /\ pc' = "boot" /\ UNCHANGED <<req, waited, result>>
                \/ /\ found # <<>> /\ ~Has(ReadyModes(req.op)) /\ boots = {}
                   /\ Return("access") /\ missing' = "denied"

\* A programmer leaves the bus.
LeaveBus(p) == \E i \in DOMAIN bus : bus[i] = p /\ bus' = RemoveAt(bus, i)

\* wl_usb_switch_arm_to_rv and wl_usb_eject_iap.  The programmer leaves the bus;
\* the transfer may be reported as failed all the same.
Leave(p) ==
  /\ LeaveBus(p)
  /\ mode' = [mode EXCEPT ![p] = "rv"]
  /\ target' = p
  /\ UNCHANGED <<address, access, next>>
\* Mutant: the boot command goes to the first programmer of the bus.
Boot_FirstListed ==
  /\ pc = "boot"
  /\ UNCHANGED <<opened, events, steady, missing, faults>>
  /\ \/ bus = <<>> /\ Return("usb") /\ UNCHANGED <<hw, target>>
     \/ /\ bus # <<>> /\ Leave(Head(bus))
        /\ pc' = "wait" /\ UNCHANGED <<req, info, waited, result>>

Boot ==
  /\ pc = "boot"
  /\ UNCHANGED <<opened, events, steady, missing>>
  /\ \/ /\ AtAddress(info.address) = {} /\ Return("usb")
        /\ UNCHANGED <<hw, faults, target>>
     \/ \E p \in AtAddress(info.address) :
          \/ ~access[p] /\ Return("access") /\ UNCHANGED <<hw, faults, target>>
          \/ access[p] /\ Leave(p) /\ UNCHANGED faults
             /\ pc' = "wait" /\ UNCHANGED <<req, info, waited, result>>
          \/ access[p] /\ Return("usb") /\ Fault
             /\ (Leave(p) \/ UNCHANGED <<hw, target>>)

PollOnce(filter) ==
  LET found == wl_usb_scan({})
  IN IF HasCandidate(found, filter, {"rv"})
     THEN Settle(Candidate(found, filter, {"rv"}))
     ELSE waited' = waited + 1 /\ UNCHANGED <<pc, req, info, result>>

\* Mutants: the serial number is not looked at again; one poll too many; no limit.
wait_for_mode_AnySerial ==
  /\ pc = "wait"
  /\ UNCHANGED <<hw, opened, events, faults, target, steady>>
  /\ \/ waited = MaxPolls /\ Return("no_device") /\ missing' = "absent"
     \/ waited < MaxPolls /\ PollOnce(AnySerial) /\ UNCHANGED missing
wait_for_mode_OneMore ==
  /\ pc = "wait"
  /\ UNCHANGED <<hw, opened, events, faults, target, steady>>
  /\ \/ waited > MaxPolls /\ Return("no_device") /\ missing' = "absent"
     \/ waited <= MaxPolls /\ PollOnce(req.filter) /\ UNCHANGED missing
wait_for_mode_NoLimit ==
  /\ pc = "wait"
  /\ UNCHANGED <<hw, opened, events, faults, obs>>
  /\ LET found == wl_usb_scan({})
     IN IF HasCandidate(found, req.filter, {"rv"})
        THEN Settle(Candidate(found, req.filter, {"rv"}))
        ELSE UNCHANGED <<pc, req, info, waited, result>>

\* One round of wait_for_mode(WL_USB_MODE_RV).
wait_for_mode ==
  /\ pc = "wait"
  /\ UNCHANGED <<hw, opened, events, target, steady>>
  /\ \/ waited = MaxPolls /\ Return("no_device") /\ missing' = "absent" /\ UNCHANGED faults
     \/ waited < MaxPolls /\ Fault /\ Return("usb") /\ UNCHANGED missing
     \/ waited < MaxPolls /\ PollOnce(req.filter) /\ UNCHANGED <<faults, missing>>

\* wl_usb_open: by address; claiming the interface may fail.
wl_usb_open ==
  /\ pc = "open"
  /\ UNCHANGED <<hw, events, obs>>
  /\ \/ AtAddress(info.address) = {} /\ Return("usb") /\ UNCHANGED <<opened, faults>>
     \/ \E p \in AtAddress(info.address) :
          \/ ~access[p] /\ Return("access") /\ UNCHANGED <<opened, faults>>
          \/ access[p] /\ Return("ok") /\ opened' = p /\ UNCHANGED faults
          \/ access[p] /\ Return("usb") /\ Fault /\ UNCHANGED opened

wl_linke_close ==
  /\ opened # None /\ opened' = None
  /\ UNCHANGED <<hw, pc, req, info, waited, result, faults, events, obs>>

---------------------------------------------------------------------------
(* The bench.  A programmer enumerates after it was plugged in or rebooted; *)
(* its permissions come from udev, at once or later.                        *)

Event == events < MaxEvents /\ events' = events + 1

Enumerate(p) ==
  /\ p \notin Attached /\ next <= MaxAddress
  /\ bus' = Append(bus, p)
  /\ address' = [address EXCEPT ![p] = next] /\ next' = next + 1
  /\ access' \in {[access EXCEPT ![p] = b] : b \in BOOLEAN}
  /\ UNCHANGED <<mode, tool, faults, events, obs>>

Unplug(p) ==
  /\ p \in Attached /\ Event
  /\ LeaveBus(p)
  \* without power it forgets what it was switched to
  /\ mode' \in {[mode EXCEPT ![p] = m] : m \in {"rv", "arm", "iap"}}
  /\ opened' = IF opened = p THEN None ELSE opened
  /\ steady' = steady \ {p}
  /\ UNCHANGED <<address, access, next, pc, req, info, waited, result, faults, target, missing>>

ChangeAccess(p) ==
  /\ p \in Attached /\ Event
  /\ access' = [access EXCEPT ![p] = ~@]
  /\ steady' = steady \ {p}
  /\ UNCHANGED <<bus, address, mode, next, tool, faults, target, missing>>

Init ==
  /\ bus = <<>> /\ address = [p \in Prog |-> 0] /\ next = 1
  /\ mode \in [Prog -> {"rv", "arm", "iap"}] /\ access = [p \in Prog |-> FALSE]
  /\ pc = "idle" /\ req = [op |-> "find", filter |-> AnySerial] /\ info = NoInfo /\ waited = 0
  /\ result = "none" /\ opened = None /\ faults = 0 /\ events = 0
  /\ target = None /\ steady = {} /\ missing = "none"

Tool == Scan \/ Boot \/ wait_for_mode \/ wl_usb_open
Bench == \E p \in Prog : Enumerate(p) \/ Unplug(p) \/ ChangeAccess(p)
Next == Tool \/ Bench \/ wl_linke_close \/ \E r \in Requests : Call(r)

\* The tool is one thread whose wait is bounded, and it does not need a call to
\* fail to go on; nobody has to plug anything.
Spec == Init /\ [][Next]_vars /\ WF_vars(Tool /\ UNCHANGED faults)

---------------------------------------------------------------------------
(* Properties *)

TypeOK ==
  /\ Attached \subseteq Prog /\ Len(bus) <= MaxAddress
  /\ address \in [Prog -> 0 .. MaxAddress] /\ next \in 1 .. MaxAddress + 1
  /\ mode \in [Prog -> {"rv", "arm", "iap"}] /\ access \in [Prog -> BOOLEAN]
  /\ pc \in {"idle", "scan", "boot", "wait", "open"}
  /\ req.op \in Ops
  /\ info.address \in 0 .. MaxAddress /\ waited \in 0 .. MaxPolls
  /\ result \in {"none", "ok", "no_device", "access", "usb"}
  /\ opened \in Prog \cup {None} /\ target \in Prog \cup {None}
  /\ steady \subseteq Prog /\ missing \in {"none", "empty", "denied", "absent"}

Wanted(p) == req.filter \in {AnySerial, Serial[p]}

\* The programmer that is opened is one the caller asked for and in RISC-V
\* debug mode, however the bus has changed between the scan and the open: an
\* address the scan reported is never that of another programmer, or of the
\* same one in another mode.
OpenedIsWanted == opened # None => Wanted(opened) /\ mode[opened] = "rv"

\* No programmer is rebooted that the caller did not ask for, or that was in
\* RISC-V debug mode already.
OnlyWantedRebooted ==
  [][target' # target /\ target' # None =>
       Wanted(target') /\ mode[target'] # "rv"]_vars

\* While a programmer that is ready for the call stays attached, among the first
\* MaxLinks, the call reboots none and does not say there is none; and it fails
\* only if something on the bus changes under it.
ReadyIsUsed ==
  steady # {} /\ faults = 0 =>
    /\ target = None /\ missing = "none"
    /\ events = 0 => result \in {"none", "ok"}

\* Every call returns, also when a rebooted programmer never comes back.
CallReturns == pc # "idle" ~> pc = "idle"

\* wait_for_mode: "several programmers can be attached, and only the one we
\* asked to switch should be picked up".
OnlySwitchedPickedUp ==
  pc = "open" /\ target # None => AtAddress(info.address) \subseteq {target}
=============================================================================
