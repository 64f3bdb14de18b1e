--------------------------- MODULE SessionProofs ---------------------------
(***************************************************************************)
(* Proofs about Session, for every chip table, every set of command lines, *)
(* any number of commands, faults and accesses.                            *)
(***************************************************************************)
EXTENDS Session, SequenceTheorems, TLAPS

---------------------------------------------------------------------------
(* Stages *)

\* The stage a command is in, "done" between two commands.
First(p) == IF p = <<>> THEN "done" ELSE Head(p)
now == First(plan)

\* The commands that close the link and let go of the target.
Closers == {"info", "flash", "read", "resume"} \cup ResetCommands \cup Interactive

\* The stages that come after stage s in a command called n.
Following(n, s) ==
  CASE s \in {"detect", "again"} ->
         (CASE n = "info" -> {"close"} [] n = "flash" -> {"check"} [] OTHER -> {"select"})
    [] s = "check" -> {"select"}
    [] s = "select" -> IF n = "terminal" THEN {"resume", "loop"} ELSE {"halt"}
    [] s = "halt" ->
         (CASE n \in ResetCommands -> {"reset"} [] n = "halt" -> {"keep"}
            [] n = "gdbserver" -> {"setup"} [] OTHER -> {"work"})
    [] s = "work" ->
         (CASE n = "flash" -> {"cleanup"} [] n = "read" -> {"close"} [] OTHER -> {"keep"})
    [] s = "cleanup" -> {"work", "verify", "resume", "close"}
    [] s = "resume" -> IF n = "terminal" THEN {"loop"} ELSE {"close"}
    [] s \in {"reset", "verify"} -> {"resume"}
    [] s = "setup" -> {"loop"}
    [] s = "loop" -> {"close"}
    [] s = "version" -> {"keep"}
    [] OTHER -> {"done"}

\* The stages a command called n has.
Usual(n) ==
  CASE n = "info" -> {"detect", "again", "close"}
    [] n = "flash" -> {"detect", "again", "check", "select", "halt", "work", "verify",
                       "cleanup", "resume", "close"}
    [] n = "read" -> {"detect", "again", "select", "halt", "work", "close"}
    [] n \in ResetCommands -> {"halt", "reset", "resume", "close"}
    [] n = "halt" -> {"halt", "keep"}
    [] n = "resume" -> {"resume", "close"}
    [] n \in DebugCommands -> {"select", "halt", "work", "close", "keep"}
    [] n = "terminal" -> {"detect", "again", "select", "resume", "loop", "close"}
    [] n = "gdbserver" -> {"select", "halt", "setup", "loop", "close"}
    [] OTHER -> {"version", "keep"}

\* The plan p is one of a command called n.
Planned(n, p) ==
  /\ \A i \in 1 .. Len(p) : p[i] \in Usual(n)
  /\ \A i \in 1 .. Len(p) - 1 : p[i + 1] \in Following(n, p[i])
  /\ p # <<>> => p[Len(p)] \in {"close", "keep"}

\* The stages s, from f to l, are in the order of a command called n.
Segment(n, s, f, l) ==
  /\ s \in Seq(Stages) /\ s # <<>> /\ s[1] = f /\ s[Len(s)] = l
  /\ \A i \in 1 .. Len(s) : s[i] \in Usual(n)
  /\ \A i \in 1 .. Len(s) - 1 : s[i + 1] \in Following(n, s[i])

\* Two stretches of a plan, the second after the first, are one.
LEMMA Join ==
  ASSUME NEW n, NEW s, NEW t, NEW f, NEW g, NEW l, NEW m,
         Segment(n, s, f, l), Segment(n, t, g, m), g \in Following(n, l)
  PROVE  Segment(n, s \o t, f, m)
<1> DEFINE p == s \o t
<1>1. /\ s \in Seq(Stages) /\ t \in Seq(Stages) /\ s # <<>> /\ t # <<>>
  BY DEF Segment
<1>2. Len(s) \in Nat /\ Len(t) \in Nat /\ Len(s) >= 1 /\ Len(t) >= 1
  BY <1>1
<1>3. p \in Seq(Stages) /\ Len(p) = Len(s) + Len(t)
  BY <1>1
<1>4. \A i \in 1 .. Len(s) : p[i] = s[i]
  BY <1>1
<1>5. \A i \in 1 .. Len(t) : p[Len(s) + i] = t[i]
  BY <1>1, <1>2
<1>6. ASSUME NEW i \in 1 .. Len(p)
      PROVE  p[i] \in Usual(n)
  <2>1. CASE i \in 1 .. Len(s)
    BY <1>4, <2>1 DEF Segment
  <2>2. CASE i - Len(s) \in 1 .. Len(t)
    <3>1. p[i] = t[i - Len(s)]
      BY <1>2, <1>5, <2>2
    <3> QED BY <2>2, <3>1 DEF Segment
  <2> QED BY <1>2, <1>3, <2>1, <2>2
<1>7. ASSUME NEW i \in 1 .. Len(p) - 1
      PROVE  p[i + 1] \in Following(n, p[i])
  <2>1. CASE i \in 1 .. Len(s) - 1
    BY <1>2, <1>4, <2>1 DEF Segment
  <2>2. CASE i = Len(s)
    BY <1>2, <1>4, <1>5, <2>2 DEF Segment
  <2>3. CASE i - Len(s) \in 1 .. Len(t) - 1
    <3>1. p[i] = t[i - Len(s)] /\ p[i + 1] = t[i - Len(s) + 1]
      BY <1>2, <1>5, <2>3
    <3> QED BY <2>3, <3>1 DEF Segment
  <2> QED BY <1>2, <1>3, <2>1, <2>2, <2>3
<1>8. p[1] = f /\ p[Len(p)] = m
  BY <1>2, <1>3, <1>4, <1>5 DEF Segment
<1>9. p # <<>>
  BY <1>2, <1>3
<1> HIDE DEF p
<1>10. Segment(n, p, f, m)
  BY <1>3, <1>6, <1>7, <1>8, <1>9 DEF Segment
<1> QED BY <1>10 DEF p

\* The stage a command line begins with.
StartStage(c) ==
  CASE c.name \in {"info", "flash", "read", "terminal"} /\ c.chip = NoChip -> "detect"
    [] c.name = "flash" /\ c.chip # NoChip -> "check"
    [] c.name \in {"read", "terminal"} /\ c.chip # NoChip -> "select"
    [] c.name \in {"gdbserver"} \cup DebugCommands -> "select"
    [] c.name \in {"halt"} \cup ResetCommands -> "halt"
    [] c.name = "resume" -> "resume"
    [] OTHER -> "version"

\* Leaving a stretch out.
LEMMA NoStages ==
  ASSUME NEW s \in Seq(Stages)
  PROVE  <<>> \o s = s /\ s \o <<>> = s
BY ConcatEmptySeq

\* What flash does before it closes the link.
LEMMA FlashPlan ==
  ASSUME NEW c \in CommandSet, c.name = "flash"
  PROVE  Segment("flash", Detecting(c) \o <<"check">> \o wl_linke_write_flash(c),
                 StartStage(c), "resume")
<1>0. c.verify \in BOOLEAN
  BY CommandAssumption DEF Command
<1> USE DEF ResetCommands, DebugCommands, Interactive
<1>1. /\ Segment("flash", <<"select", "halt">>, "select", "halt")
      /\ Segment("flash", Routine, "work", "cleanup")
      /\ Segment("flash", <<"verify">>, "verify", "verify")
      /\ Segment("flash", <<"resume">>, "resume", "resume")
      /\ Segment("flash", <<"close">>, "close", "close")
      /\ Segment("flash", <<"check">>, "check", "check")
      /\ Segment("flash", <<"detect">>, "detect", "detect")
  BY DEF Segment, Following, Usual, Stages, Routine
<1>2. /\ "work" \in Following("flash", "halt") /\ "work" \in Following("flash", "cleanup")
      /\ "verify" \in Following("flash", "cleanup") /\ "resume" \in Following("flash", "cleanup")
      /\ "resume" \in Following("flash", "verify") /\ "select" \in Following("flash", "check")
      /\ "check" \in Following("flash", "detect") /\ "close" \in Following("flash", "resume")
  BY DEF Following
<1>3. Segment("flash", wl_linke_write_flash(c), "select", "resume")
  <2> DEFINE first == <<"select", "halt">> \o Routine
             both == first \o Routine
  <2>1. Segment("flash", first, "select", "cleanup")
    BY <1>1, <1>2, Join
  <2>2. Segment("flash", both, "select", "cleanup")
    BY <1>1, <1>2, <2>1, Join
  <2>3. wl_linke_write_flash(c) = both \o (IF c.verify THEN <<"verify">> ELSE <<>>) \o <<"resume">>
    BY DEF wl_linke_write_flash
  <2> HIDE DEF both, first
  <2>4. CASE c.verify
    <3>1. Segment("flash", both \o <<"verify">>, "select", "verify")
      BY <1>1, <1>2, <2>2, Join
    <3>2. Segment("flash", both \o <<"verify">> \o <<"resume">>, "select", "resume")
      BY <1>1, <1>2, <3>1, Join
    <3> QED BY <2>3, <2>4, <3>2
  <2>5. CASE ~c.verify
    <3>1. both \o <<>> = both
      BY <2>2, NoStages DEF Segment
    <3>2. Segment("flash", both \o <<"resume">>, "select", "resume")
      BY <1>1, <1>2, <2>2, Join
    <3> QED BY <2>3, <2>5, <3>1, <3>2
  <2> QED BY <1>0, <2>4, <2>5
<1>4. Segment("flash", Detecting(c) \o <<"check">>, StartStage(c), "check")
  <2>1. CASE c.chip = NoChip
    <3>1. StartStage(c) = "detect" /\ Detecting(c) = <<"detect">>
      BY <2>1 DEF StartStage, Detecting
    <3> QED BY <1>1, <1>2, <3>1, Join
  <2>2. CASE c.chip # NoChip
    <3>1. StartStage(c) = "check" /\ Detecting(c) = <<>>
      BY <2>2 DEF StartStage, Detecting
    <3>2. <<>> \o <<"check">> = <<"check">>
      BY NoStages DEF Stages
    <3> QED BY <1>1, <3>1, <3>2
  <2> QED BY <2>1, <2>2
<1> QED BY <1>2, <1>3, <1>4, Join

\* The plan of every command.
LEMMA PlanOf ==
  ASSUME NEW c \in CommandSet
  PROVE  \E l \in {"close", "keep"} : Segment(c.name, Plan(c), StartStage(c), l)
<1> DEFINE n == c.name
<1>0. c.name \in Names /\ c.verify \in BOOLEAN /\ (c.name = "info" => c.chip = NoChip)
  BY CommandAssumption DEF Command
<1> USE DEF ResetCommands, DebugCommands, Interactive
<1>1. CASE c.name = "info"
  <2>1. Segment("info", cmd_info, "detect", "close")
    BY DEF Segment, Following, Usual, Stages, cmd_info
  <2> QED BY <1>0, <1>1, <2>1 DEF Plan, StartStage
<1>2. CASE c.name = "flash"
  <2>1. Segment("flash", <<"close">>, "close", "close") /\ "close" \in Following("flash", "resume")
    BY DEF Segment, Following, Usual, Stages
  <2>2. Segment("flash", cmd_flash(c), StartStage(c), "close")
    BY <1>2, <2>1, FlashPlan, Join DEF cmd_flash
  <2> QED BY <1>2, <2>2 DEF Plan
<1>3. CASE c.name = "read"
  <2>1. /\ Segment("read", wl_linke_read_memory, "select", "work")
        /\ Segment("read", <<"close">>, "close", "close")
        /\ Segment("read", <<"detect">>, "detect", "detect")
    BY DEF Segment, Following, Usual, Stages, wl_linke_read_memory
  <2>2. "select" \in Following("read", "detect") /\ "close" \in Following("read", "work")
    BY DEF Following
  <2>3. Segment("read", Detecting(c) \o wl_linke_read_memory, StartStage(c), "work")
    <3>1. CASE c.chip = NoChip
      <4>1. StartStage(c) = "detect" /\ Detecting(c) = <<"detect">>
        BY <1>3, <3>1 DEF StartStage, Detecting
      <4> QED BY <2>1, <2>2, <4>1, Join
    <3>2. CASE c.chip # NoChip
      <4>1. StartStage(c) = "select" /\ Detecting(c) = <<>>
        BY <1>3, <3>2 DEF StartStage, Detecting
      <4>2. <<>> \o wl_linke_read_memory = wl_linke_read_memory
        BY <2>1, NoStages DEF Segment
      <4> QED BY <2>1, <4>1, <4>2
    <3> QED BY <3>1, <3>2
  <2>4. Segment("read", cmd_read(c), StartStage(c), "close")
    BY <2>1, <2>2, <2>3, Join DEF cmd_read
  <2> QED BY <1>3, <2>4 DEF Plan
<1>4. CASE c.name \in ResetCommands
  <2>1. /\ Segment(c.name, wl_linke_reset, "halt", "resume")
        /\ Segment(c.name, <<"close">>, "close", "close")
    BY <1>4 DEF Segment, Following, Usual, Stages, wl_linke_reset
  <2>2. "close" \in Following(c.name, "resume")
    BY <1>4 DEF Following
  <2>3. Segment(c.name, cmd_reset, "halt", "close")
    BY <2>1, <2>2, Join DEF cmd_reset
  <2>4. StartStage(c) = "halt" /\ Plan(c) = cmd_reset
    BY <1>4 DEF Plan, StartStage
  <2> QED BY <2>3, <2>4
<1>5. CASE c.name = "halt"
  <2>1. Segment("halt", cmd_target_halt, "halt", "keep")
    BY DEF Segment, Following, Usual, Stages, cmd_target_halt
  <2> QED BY <1>5, <2>1 DEF Plan, StartStage
<1>6. CASE c.name = "resume"
  <2>1. Segment("resume", cmd_target_resume, "resume", "close")
    BY DEF Segment, Following, Usual, Stages, cmd_target_resume
  <2> QED BY <1>6, <2>1 DEF Plan, StartStage
<1>7. CASE c.name \in DebugCommands
  <2>1. /\ Segment(c.name, open_target_debug, "select", "halt")
        /\ Segment(c.name, <<"work", "keep">>, "work", "keep")
    BY <1>7 DEF Segment, Following, Usual, Stages, open_target_debug
  <2>2. "work" \in Following(c.name, "halt")
    BY <1>7 DEF Following
  <2>3. Segment(c.name, cmd_target_debug, "select", "keep")
    BY <2>1, <2>2, Join DEF cmd_target_debug
  <2>4. StartStage(c) = "select" /\ Plan(c) = cmd_target_debug
    BY <1>7 DEF Plan, StartStage
  <2> QED BY <2>3, <2>4
<1>8. CASE c.name = "terminal"
  <2>1. /\ Segment("terminal", <<"select">>, "select", "select")
        /\ Segment("terminal", <<"resume">>, "resume", "resume")
        /\ Segment("terminal", <<"detect">>, "detect", "detect")
        /\ Segment("terminal", <<"loop", "close">>, "loop", "close")
    BY DEF Segment, Following, Usual, Stages
  <2>2. /\ "select" \in Following("terminal", "detect") /\ "resume" \in Following("terminal", "select")
        /\ "loop" \in Following("terminal", "select") /\ "loop" \in Following("terminal", "resume")
    BY DEF Following
  <2>3. CASE c.chip = NoChip
    <3>1. /\ StartStage(c) = "detect" /\ Detecting(c) = <<"detect">>
          /\ cmd_terminal(c) = <<"detect">> \o <<"select">> \o <<"resume">> \o <<"loop", "close">>
      BY <1>8, <2>3 DEF StartStage, Detecting, cmd_terminal
    <3>2. Segment("terminal", <<"detect">> \o <<"select">>, "detect", "select")
      BY <2>1, <2>2, Join
    <3>3. Segment("terminal", <<"detect">> \o <<"select">> \o <<"resume">>, "detect", "resume")
      BY <2>1, <2>2, <3>2, Join
    <3>4. Segment("terminal", cmd_terminal(c), "detect", "close")
      BY <2>1, <2>2, <3>1, <3>3, Join
    <3> QED BY <1>8, <3>1, <3>4 DEF Plan
  <2>4. CASE c.chip # NoChip
    <3>1. /\ StartStage(c) = "select" /\ Detecting(c) = <<>>
          /\ cmd_terminal(c) = <<>> \o <<"select">> \o <<>> \o <<"loop", "close">>
      BY <1>8, <2>4 DEF StartStage, Detecting, cmd_terminal
    <3>2. <<>> \o <<"select">> \o <<>> = <<"select">>
      BY <2>1, NoStages DEF Segment
    <3>3. Segment("terminal", cmd_terminal(c), "select", "close")
      BY <2>1, <2>2, <3>1, <3>2, Join
    <3> QED BY <1>8, <3>1, <3>3 DEF Plan
  <2> QED BY <2>3, <2>4
<1>9. CASE c.name = "gdbserver"
  <2>1. Segment("gdbserver", wl_gdb_server_run, "select", "close")
    BY DEF Segment, Following, Usual, Stages, wl_gdb_server_run
  <2> QED BY <1>9, <2>1 DEF Plan, StartStage
<1>10. CASE c.name = "version"
  <2>1. Segment("version", print_programmer_version, "version", "keep")
    BY DEF Segment, Following, Usual, Stages, print_programmer_version
  <2> QED BY <1>10, <2>1 DEF Plan, StartStage
<1> QED BY <1>0, <1>1, <1>2, <1>3, <1>4, <1>5, <1>6, <1>7, <1>8, <1>9, <1>10 DEF Names
\* A plan without its first stage.
LEMMA TailPlanned ==
  ASSUME NEW n, NEW p \in Seq(Stages), Planned(n, p), p # <<>>
  PROVE  /\ Tail(p) \in Seq(Stages) /\ Planned(n, Tail(p))
         /\ First(Tail(p)) \in Following(n, Head(p))
<1>1. Len(p) \in Nat /\ Len(p) >= 1 /\ Head(p) = p[1]
  OBVIOUS
<1>2. /\ Tail(p) \in Seq(Stages) /\ Len(Tail(p)) = Len(p) - 1
      /\ \A i \in 1 .. Len(p) - 1 : Tail(p)[i] = p[i + 1]
  BY <1>1
<1>3. Planned(n, Tail(p))
  <2>1. \A i \in 1 .. Len(Tail(p)) : Tail(p)[i] \in Usual(n)
    BY <1>1, <1>2 DEF Planned
  <2>2. \A i \in 1 .. Len(Tail(p)) - 1 : Tail(p)[i + 1] \in Following(n, Tail(p)[i])
    BY <1>1, <1>2 DEF Planned
  <2>3. Tail(p) # <<>> => Tail(p)[Len(Tail(p))] \in {"close", "keep"}
    <3>1. SUFFICES ASSUME Tail(p) # <<>> PROVE Tail(p)[Len(Tail(p))] = p[Len(p)]
      BY DEF Planned
    <3>2. Len(Tail(p)) >= 1
      BY <1>1, <1>2, <3>1
    <3> QED BY <1>1, <1>2, <3>2
  <2> QED BY <2>1, <2>2, <2>3 DEF Planned
<1>4. First(Tail(p)) \in Following(n, Head(p))
  <2>1. CASE Tail(p) = <<>>
    <3>0. Len(Tail(p)) = 0
      BY <1>2, <2>1, EmptySeq
    <3>1. Len(p) = 1
      <4>1. Len(p) - 1 = 0
        BY <1>2, <3>0, Zenon
      <4> QED BY <1>1, <4>1
    <3>2. Head(p) \in {"close", "keep"}
      BY <1>1, <3>1 DEF Planned
    <3> QED BY <2>1, <3>2 DEF First, Following
  <2>2. CASE Tail(p) # <<>>
    <3>1. Len(p) >= 2 /\ Head(Tail(p)) = p[2]
      BY <1>1, <1>2, <2>2
    <3> QED BY <1>1, <2>2, <3>1 DEF First, Planned
  <2> QED BY <2>1, <2>2
<1> QED BY <1>2, <1>3, <1>4

\* The plan of a stretch.
LEMMA SegmentPlanned ==
  ASSUME NEW n, NEW p, NEW f, NEW l \in {"close", "keep"}, Segment(n, p, f, l)
  PROVE  p \in Seq(Stages) /\ Planned(n, p) /\ p # <<>> /\ First(p) = f
BY DEF Segment, Planned, First

\* The plan of a second attempt at identification.
LEMMA AgainPlanned ==
  ASSUME NEW n, NEW p \in Seq(Stages), Planned(n, p), p # <<>>, Head(p) = "detect", n \in Names
  PROVE  LET a == <<"again">> \o Tail(p)
         IN  a \in Seq(Stages) /\ Planned(n, a) /\ First(a) = "again"
<1> DEFINE t == Tail(p)
           a == <<"again">> \o t
<1>1. t \in Seq(Stages) /\ Planned(n, t) /\ First(t) \in Following(n, "detect")
  BY TailPlanned
<1>2. "detect" \in Usual(n)
  BY DEF Planned
<1>3. /\ "again" \in Usual(n) /\ Following(n, "again") = Following(n, "detect")
  BY <1>2 DEF Usual, Following, ResetCommands, DebugCommands
<1>4. "done" \notin Following(n, "detect")
  BY DEF Following
<1>5. t # <<>> /\ t[1] \in Following(n, "again")
  BY <1>1, <1>3, <1>4 DEF First
<1>6. Segment(n, <<"again">>, "again", "again")
  BY <1>3 DEF Segment, Stages
<1>7. Segment(n, t, t[1], t[Len(t)]) /\ t[Len(t)] \in {"close", "keep"}
  BY <1>1, <1>5 DEF Planned, Segment
<1>8. Segment(n, a, "again", t[Len(t)])
  BY <1>5, <1>6, <1>7, Join
<1> QED BY <1>7, <1>8, SegmentPlanned

\* The plans that are left when a stage fails.
LEMMA EndPlanned ==
  ASSUME NEW n
  PROVE  /\ "close" \in Usual(n) => <<"close">> \in Seq(Stages) /\ Planned(n, <<"close">>)
         /\ "keep" \in Usual(n) => <<"keep">> \in Seq(Stages) /\ Planned(n, <<"keep">>)
         /\ n = "flash" => /\ <<"cleanup", "close">> \in Seq(Stages)
                           /\ Planned(n, <<"cleanup", "close">>)
         /\ First(<<"close">>) = "close" /\ First(<<"keep">>) = "keep"
         /\ First(<<"cleanup", "close">>) = "cleanup"
<1>1. "close" \in Usual(n) => Segment(n, <<"close">>, "close", "close")
  BY DEF Segment, Stages
<1>2. "keep" \in Usual(n) => Segment(n, <<"keep">>, "keep", "keep")
  BY DEF Segment, Stages
<1>3. n = "flash" => Segment(n, <<"cleanup", "close">>, "cleanup", "close")
  BY DEF Segment, Stages, Usual, Following, ResetCommands, DebugCommands
<1>4. /\ <<"close">> # <<>> /\ <<"keep">> # <<>> /\ <<"cleanup", "close">> # <<>>
      /\ Head(<<"close">>) = "close" /\ Head(<<"keep">>) = "keep"
      /\ Head(<<"cleanup", "close">>) = "cleanup"
  <2>1. /\ <<"close">> \in Seq(Stages) /\ <<"keep">> \in Seq(Stages)
        /\ <<"cleanup", "close">> \in Seq(Stages)
    BY DEF Stages
  <2>2. /\ Len(<<"close">>) = 1 /\ Len(<<"keep">>) = 1 /\ Len(<<"cleanup", "close">>) = 2
        /\ Head(<<"close">>) = "close" /\ Head(<<"keep">>) = "keep"
        /\ Head(<<"cleanup", "close">>) = "cleanup"
    OBVIOUS
  <2> QED BY <2>1, <2>2, EmptySeq
<1> QED BY <1>1, <1>2, <1>3, <1>4, SegmentPlanned DEF First

\* No stage is left after the last.
LEMMA NoPlan ==
  ASSUME NEW n
  PROVE  <<>> \in Seq(Stages) /\ Planned(n, <<>>) /\ First(<<>>) = "done"
BY DEF Planned, First

---------------------------------------------------------------------------
(* Requests and replies *)

\* A message without its tag; the messages that are requests, and replies.
Asked(m) == [cmd |-> m.cmd, arg |-> m.arg]
IsRequest(m) ==
  m = None \/ \E q \in AllRequests, t \in 0 .. 1 :
                m = [cmd |-> q.cmd, arg |-> q.arg, tag |-> t, len |-> 0]
IsReply(m) ==
  m = None \/ \E c \in {"iface", "control", "run", "reg", "refused"},
                 a \in Parts \cup {Version, NoChip}, t \in 0 .. 1, n \in {3, 4, 7, 8, 9} :
                m = [cmd |-> c, arg |-> a, tag |-> t, len |-> n]

\* The types of everything but the messages and the plan.
Plain ==
  /\ iface \in Chips \cup {NoChip, Generic} /\ part \in Parts
  /\ attached \in BOOLEAN /\ dmhalt \in BOOLEAN /\ alive \in BOOLEAN
  /\ synced \in BOOLEAN /\ lost \in BOOLEAN /\ failed \in BOOLEAN /\ resets \in BOOLEAN
  /\ missed \in BOOLEAN
  /\ held \in {"yes", "no", "let_go"}
  /\ cmd \in Command /\ chip \in Chips \cup {NoChip}
  /\ naccess \in 0 .. MaxAccesses
  /\ status \in {"none", "ok", "usb", "target", "verify", "usage", "not_implemented", "killed"}
  /\ faults \in 0 .. MaxFaults /\ ncommands \in 0 .. MaxCommands /\ tag \in 0 .. 1

\* The boxes hold a request and a reply, or nothing.
Messages == IsRequest(inbox) /\ IsRequest(sent) /\ IsReply(outbox)

\* How many requests a stage has.
Size(s) ==
  CASE s \in {"detect", "work", "cleanup"} -> 2
    [] s \in {"resume", "setup", "verify"} -> 3
    [] s = "again" -> 4
    [] OTHER -> 1

\* The plan is one of the command's, and the stage has the request it is at.
Plans == plan \in Seq(Stages) /\ Planned(cmd.name, plan) /\ at \in 1 .. Size(now)

\* The kind of the i-th request of stage s.
KindAt(s, i) ==
  CASE s = "detect" -> IF i = 1 THEN "iface" ELSE "attach"
    [] s = "again" -> (CASE i = 1 -> "run" [] i = 2 -> "release" [] i = 3 -> "iface"
                         [] OTHER -> "attach")
    [] s = "select" -> "iface"
    [] s = "halt" -> "attach"
    [] s = "reset" -> "reset_low"
    [] s = "resume" -> (CASE i = 1 -> "run" [] i = 2 -> "attach" [] OTHER -> "release")
    [] s = "verify" -> IF i = 1 THEN "attach" ELSE "reg"
    [] s \in {"setup", "work", "cleanup", "loop"} -> "reg"
    [] s = "version" -> "status"
    [] OTHER -> "release"

\* The requests of the stages.
LEMMA RequestsOf ==
  ASSUME NEW s \in Stages \ {"check", "keep", "loop"}
  PROVE  /\ Len(Requests(s)) = Size(s)
         /\ \A i \in 1 .. Size(s) :
              /\ Requests(s)[i].cmd = KindAt(s, i)
              /\ s \in {"work", "cleanup"} => Requests(s)[i].arg \in {"status", "data"}
<1> USE DEF Size, KindAt, Ask
<1>1. CASE s = "detect"
  BY <1>1 DEF Requests, IdentifyOnce, Attach
<1>2. CASE s = "again"
  <2> DEFINE r == <<Run, Release>>
             d == <<Ask("iface", Generic), Attach>>
  <2>1. Requests(s) = r \o d
    BY <1>2 DEF Requests, Retry, IdentifyOnce
  <2>2. r \in Seq({Run, Release}) /\ d \in Seq({Ask("iface", Generic), Attach})
    OBVIOUS
  <2>3. /\ Len(r \o d) = 4
        /\ (r \o d)[1] = Run /\ (r \o d)[2] = Release
        /\ (r \o d)[3] = Ask("iface", Generic) /\ (r \o d)[4] = Attach
    BY <2>2
  <2>4. Size(s) = 4 /\ Run.cmd = "run" /\ Release.cmd = "release" /\ Attach.cmd = "attach"
    BY <1>2 DEF Run, Release, Attach
  <2>5. Ask("iface", Generic).cmd = "iface"
    OBVIOUS
  <2> HIDE DEF r, d
  <2>6. ASSUME NEW i \in 1 .. 4 PROVE Requests(s)[i].cmd = KindAt(s, i)
    <3>1. i = 1 \/ i = 2 \/ i = 3 \/ i = 4
      OBVIOUS
    <3>2. CASE i = 1
      BY <1>2, <2>1, <2>3, <2>4, <3>2
    <3>3. CASE i = 2
      BY <1>2, <2>1, <2>3, <2>4, <3>3
    <3>4. CASE i = 3
      BY <1>2, <2>1, <2>3, <2>5, <3>4
    <3>5. CASE i = 4
      BY <1>2, <2>1, <2>3, <2>4, <3>5
    <3> QED BY <3>1, <3>2, <3>3, <3>4, <3>5
  <2> QED BY <1>2, <2>1, <2>3, <2>4, <2>6
<1>3. CASE s \in {"select", "halt", "reset", "version", "close"}
  BY <1>3 DEF Requests, Attach, Release
<1>4. CASE s = "resume"
  BY <1>4 DEF Requests, wl_linke_resume, Run, Attach, Release
<1>5. CASE s = "setup"
  BY <1>5 DEF Requests
<1>6. CASE s \in {"work", "cleanup"}
  BY <1>6 DEF Requests, Work
<1>7. CASE s = "verify"
  <2> DEFINE a == <<Attach>>
             w == <<Ask("reg", "status"), Ask("reg", "data")>>
  <2>1. Requests(s) = a \o w /\ Size(s) = 3
    BY <1>7 DEF Requests, Work
  <2>2. a \in Seq({Attach}) /\ w \in Seq({Ask("reg", "status"), Ask("reg", "data")})
    OBVIOUS
  <2>3. /\ Len(a \o w) = 3 /\ (a \o w)[1] = Attach
        /\ (a \o w)[2] = Ask("reg", "status") /\ (a \o w)[3] = Ask("reg", "data")
    BY <2>2
  <2>4. Attach.cmd = "attach" /\ Ask("reg", "status").cmd = "reg" /\ Ask("reg", "data").cmd = "reg"
    BY DEF Attach
  <2> HIDE DEF a, w
  <2>5. ASSUME NEW i \in 1 .. 3 PROVE Requests(s)[i].cmd = KindAt(s, i)
    <3>1. i = 1 \/ i = 2 \/ i = 3
      OBVIOUS
    <3>2. CASE i = 1
      BY <1>7, <2>1, <2>3, <2>4, <3>2
    <3>3. CASE i = 2
      BY <1>7, <2>1, <2>3, <2>4, <3>3
    <3>4. CASE i = 3
      BY <1>7, <2>1, <2>3, <2>4, <3>4
    <3> QED BY <3>1, <3>2, <3>3, <3>4
  <2> QED BY <1>7, <2>1, <2>3, <2>5
<1> QED BY <1>1, <1>2, <1>3, <1>4, <1>5, <1>6, <1>7 DEF Stages

\* The stage at hand.
LEMMA NowStage ==
  ASSUME Plans, now # "done"
  PROVE  /\ ~Idle /\ plan # <<>> /\ Stage = now /\ now \in Stages /\ now \in Usual(cmd.name)
         /\ at \in 1 .. Size(now)
BY DEF Plans, now, First, Idle, Stage, Planned

\* Between two commands there is none.
LEMMA NowDone ==
  ASSUME Plans
  PROVE  Idle <=> now = "done"
BY DEF Plans, now, First, Idle, Stages

\* The request to make is one of the stage at hand.
LEMMA CurrentIs ==
  ASSUME Plans, now \notin {"done", "check", "keep"}, NEW q \in CurrentRequests
  PROVE  /\ q.cmd = KindAt(now, at)
         /\ now \in {"work", "cleanup"} => q.arg \in {"status", "data"}
<1>1. Stage = now /\ now \in Stages /\ at \in 1 .. Size(now)
  BY NowStage
<1>2. CASE now = "loop"
  BY <1>1, <1>2 DEF CurrentRequests, KindAt, Ask
<1>3. CASE now # "loop"
  <2>1. q = Requests(now)[at]
    BY <1>1, <1>3 DEF CurrentRequests
  <2> QED BY <1>1, <1>3, <2>1, RequestsOf
<1> QED BY <1>2, <1>3

---------------------------------------------------------------------------
(* What a command does after a transfer, by the stage it was in and the one  *)
(* it is in then.                                                            *)

\* The next request of the stage, or the next stage.
Onward ==
  \/ now = "loop" /\ UNCHANGED <<now, at, status>>
  \/ /\ now # "loop" /\ at < Size(now)
     /\ at' = at + 1 /\ UNCHANGED <<now, status>>
  \/ /\ now # "loop" /\ at = Size(now)
     /\ at' = 1 /\ now' = First(Tail(plan)) /\ now' \in Following(cmd.name, now)
     /\ status' = status \/ (now = "verify" /\ status' \in {"ok", "verify"})

\* The stages that may come instead when stage s of a command called n fails.
Instead(n, s) ==
  CASE s = "detect" -> {"again"}
    [] s \in {"verify", "cleanup"} -> Following(n, s)
    [] s = "work" /\ n = "flash" -> {"close", "cleanup"}
    [] (s = "work" /\ n \in DebugCommands) \/ s = "version" \/ (s = "halt" /\ n = "halt") -> {"keep"}
    [] OTHER -> {"close"}

\* The stage is abandoned with status s.
GivenUp(s) ==
  /\ at' = 1 /\ now' \in Instead(cmd.name, now)
  /\ now = "cleanup" => now' = First(Tail(plan))
  /\ status' = IF KeepsStatus(now) \/ now = "detect" THEN status ELSE s

\* Nobody looks at whether request q fails.
Unheeded(q) == Ignored(now, at) \/ (now = "loop" /\ (cmd.name = "gdbserver" \/ q.arg = "ack"))

\* What follows a transfer of q that failed with s.
MovesOn(q, s) == (Unheeded(q) /\ Onward) \/ (~Unheeded(q) /\ GivenUp(s))

\* A transfer that succeeds.
LEMMA Advances ==
  ASSUME Plans, UNCHANGED cmd, now \notin {"done", "check", "keep"}, Advance
  PROVE  Onward /\ Plans'
<1>1. /\ plan # <<>> /\ Stage = now /\ now \in Stages /\ at \in 1 .. Size(now)
      /\ plan \in Seq(Stages) /\ Planned(cmd.name, plan) /\ Head(plan) = now
  BY NowStage DEF Plans, Stage
<1>2. Size(now) \in Nat /\ \A s \in Stages \cup {"done"} : 1 \in 1 .. Size(s)
  BY DEF Size
<1>3. CASE now = "loop"
  <2>1. UNCHANGED <<plan, at, status>>
    BY <1>1, <1>3 DEF Advance
  <2> QED BY <1>3, <2>1 DEF Onward, Plans, now
<1>4. CASE now # "loop" /\ at < Len(Requests(now))
  <2>1. at' = at + 1 /\ UNCHANGED <<plan, status>>
    BY <1>1, <1>4 DEF Advance
  <2>2. Len(Requests(now)) = Size(now)
    BY <1>1, <1>4, RequestsOf
  <2>3. now' = now
    BY <2>1 DEF now
  <2>4. at' \in 1 .. Size(now)'
    BY <1>1, <1>2, <1>4, <2>1, <2>2, <2>3
  <2> QED BY <1>4, <2>1, <2>2, <2>3, <2>4 DEF Onward, Plans
<1>5. CASE now # "loop" /\ ~(at < Len(Requests(now)))
  <2>1. /\ plan' = Tail(plan) /\ at' = 1
        /\ status' = status \/ (now = "verify" /\ status' \in {"ok", "verify"})
    BY <1>1, <1>5 DEF Advance, Proceed
  <2>2. Len(Requests(now)) = Size(now)
    BY <1>1, <1>5, RequestsOf
  <2>3. at = Size(now)
    BY <1>1, <1>2, <1>5, <2>2
  <2>4. /\ plan' \in Seq(Stages) /\ Planned(cmd.name, plan')
        /\ First(plan') \in Following(cmd.name, now)
    BY <1>1, <2>1, TailPlanned
  <2>5. now' = First(Tail(plan)) /\ now' = First(plan') /\ now' \in Stages \cup {"done"}
    BY <2>1, <2>4 DEF now, First
  <2>6. at' \in 1 .. Size(now)'
    BY <1>2, <2>1, <2>5
  <2> QED BY <1>5, <2>1, <2>3, <2>4, <2>5, <2>6 DEF Onward, Plans
<1> QED BY <1>3, <1>4, <1>5

\* A transfer that fails.
LEMMA Failing ==
  ASSUME Plans, cmd.name \in Names, UNCHANGED cmd, now \notin {"done", "check", "keep"},
         NEW q, NEW s, Fails(q, s)
  PROVE  MovesOn(q, s) /\ Plans'
<1>1. /\ plan # <<>> /\ Stage = now /\ now \in Stages /\ at \in 1 .. Size(now)
      /\ plan \in Seq(Stages) /\ Planned(cmd.name, plan) /\ Head(plan) = now
      /\ now \in Usual(cmd.name)
  BY NowStage DEF Plans, Stage
<1>2. \A x \in Stages \cup {"done"} : 1 \in 1 .. Size(x)
  BY DEF Size
<1>3. CASE Unheeded(q)
  BY <1>1, <1>3, Advances DEF Fails, Unheeded, MovesOn
<1>4. CASE ~Unheeded(q)
  <2>1. /\ plan' \in AfterFailure(now) /\ at' = 1
        /\ status' = IF KeepsStatus(now) \/ now = "detect" THEN status ELSE s
    BY <1>1, <1>4 DEF Fails, Unheeded
  <2>2. /\ plan' \in Seq(Stages) /\ Planned(cmd.name, plan')
        /\ First(plan') \in Instead(cmd.name, now)
        /\ now = "cleanup" => plan' = Tail(plan)
    <3>1. CASE now = "detect"
      BY <1>1, <2>1, <3>1, AgainPlanned DEF AfterFailure, Instead
    <3>2. CASE now \in {"verify", "cleanup"}
      BY <1>1, <2>1, <3>2, TailPlanned DEF AfterFailure, Instead
    <3>3. CASE now = "work" /\ cmd.name = "flash"
      <4>1. plan' \in {<<"close">>, <<"cleanup", "close">>}
        BY <2>1, <3>3 DEF AfterFailure, DebugCommands
      <4>2. "close" \in Usual(cmd.name)
        BY <3>3 DEF Usual, ResetCommands, DebugCommands
      <4>3. "close" \in Instead(cmd.name, now) /\ "cleanup" \in Instead(cmd.name, now)
        BY <3>3 DEF Instead, DebugCommands
      <4> QED BY <3>3, <4>1, <4>2, <4>3, EndPlanned
    <3>4. CASE \/ now = "work" /\ cmd.name \in DebugCommands
               \/ now = "version" \/ (now = "halt" /\ cmd.name = "halt")
      <4>1. plan' = <<"keep">>
        BY <2>1, <3>4 DEF AfterFailure, DebugCommands
      <4>2. "keep" \in Usual(cmd.name)
        BY <1>1, <3>4 DEF Usual, ResetCommands, DebugCommands
      <4>3. "keep" \in Instead(cmd.name, now)
        BY <3>4 DEF Instead, DebugCommands
      <4> QED BY <3>4, <4>1, <4>2, <4>3, EndPlanned
    <3>5. CASE ~(\/ now \in {"detect", "verify", "cleanup"}
                 \/ now = "work" /\ cmd.name \in DebugCommands \cup {"flash"}
                 \/ now = "version" \/ (now = "halt" /\ cmd.name = "halt"))
      <4>1. plan' = <<"close">>
        BY <2>1, <3>5 DEF AfterFailure
      <4>2. "close" \in Usual(cmd.name)
        BY <1>1, <3>5 DEF Usual, Names, ResetCommands, DebugCommands, Interactive
      <4>3. "close" \in Instead(cmd.name, now)
        BY <3>5 DEF Instead
      <4> QED BY <3>5, <4>1, <4>2, <4>3, EndPlanned
    <3> QED BY <3>1, <3>2, <3>3, <3>4, <3>5
  <2>3. now' = First(plan') /\ now' \in Stages \cup {"done"}
    BY <2>2 DEF now, First
  <2>4. at' \in 1 .. Size(now)'
    BY <1>2, <2>1, <2>3
  <2>5. now = "cleanup" => now' = First(Tail(plan))
    BY <2>2, <2>3
  <2> QED BY <1>4, <2>1, <2>2, <2>3, <2>4, <2>5 DEF MovesOn, GivenUp, Plans
<1> QED BY <1>3, <1>4

---------------------------------------------------------------------------
(* Transfers *)

\* What the programmer answers to a request it has looked at.
Answers(q, r) ==
  /\ r # None /\ r.tag = q.tag
  /\ q.cmd = "iface" => r.cmd = "iface"
  /\ q.cmd = "attach" => r.cmd = "control" /\ (r.len = 4 \/ (r.len = 8 /\ r.arg = part))
  /\ q.cmd = "reg" => r.cmd \in {"reg", "refused"} /\ (r.cmd = "reg" => r.len = 9)
  /\ q.cmd # "reg" => r.len # 9

\* The request awaited is the one the stage is at, and the only one under way.
Awaited ==
  sent # None =>
    /\ now \notin {"done", "check", "keep"} /\ Asked(sent) \in CurrentRequests
    /\ inbox # None => inbox = sent
    /\ inbox = None => Answers(sent, outbox)

\* The invariant of a transfer: types, plans and what is under way.  Every other
\* invariant below is inductive only together with it.
TransferInv == Plain /\ Messages /\ Plans /\ Awaited

\* The bounds are numbers, and NoChip stands for no part.
LEMMA Constants ==
  /\ MaxFaults \in Nat /\ MaxCommands \in Nat /\ MaxAccesses \in Nat
  /\ NoChip \notin Chips \cup {Generic}
<1>1. \A c \in Chips : c.family \in Nat
  BY SessionAssumption
<1>2. NoChip.family = -1 /\ Generic.family = 1
  BY DEF NoChip, Generic
<1>3. NoChip \notin Chips
  BY <1>1, <1>2
<1> QED BY <1>2, <1>3, SessionAssumption

\* What looking a part up gives.
LEMMA Detected ==
  ASSUME NEW id
  PROVE  \/ wl_chip_by_detect_id(id) = NoChip /\ Matching(id) = {}
         \/ /\ wl_chip_by_detect_id(id) \in Matching(id) /\ wl_chip_by_detect_id(id) \in Chips
            /\ wl_chip_by_detect_id(id) # NoChip
<1>1. Matching(id) \subseteq Chips
  BY DEF Matching
<1> HIDE DEF Matching
<1> QED BY <1>1, Constants DEF wl_chip_by_detect_id

\* Requests are not None.
LEMMA AllRequestsKinds ==
  ASSUME NEW q \in AllRequests
  PROVE  /\ q.cmd \in {"iface", "reg", "attach", "release", "run", "reset_low", "status"}
         /\ q.cmd = "iface" => q.arg \in Chips \cup {Generic}
         /\ Asked([cmd |-> q.cmd, arg |-> q.arg, tag |-> 0, len |-> 0]) = q
BY DEF AllRequests, Attach, Release, Run, Ask, Asked

\* The parts of a request.
LEMMA RequestKind ==
  ASSUME NEW m, IsRequest(m)
  PROVE  /\ m.tag \in 0 .. 1
         /\ m = None <=> m.cmd = "none"
         /\ m # None => m.cmd \in {"iface", "reg", "attach", "release", "run", "reset_low", "status"}
         /\ m.cmd = "iface" => m.arg \in Chips \cup {Generic}
<1>1. None.cmd = "none" /\ None.tag = 0
  BY DEF None
<1>2. CASE m = None
  BY <1>1, <1>2
<1>3. CASE m # None
  <2>1. PICK q \in AllRequests, t \in 0 .. 1 : m = [cmd |-> q.cmd, arg |-> q.arg, tag |-> t, len |-> 0]
    BY <1>3 DEF IsRequest
  <2>2. m.cmd = q.cmd /\ m.arg = q.arg /\ m.tag = t
    BY <2>1
  <2> QED BY <1>3, <2>2, AllRequestsKinds
<1> QED BY <1>2, <1>3

\* The parts of a reply.
LEMMA ReplyKind ==
  ASSUME NEW m, IsReply(m)
  PROVE  m.tag \in 0 .. 1 /\ m.len \in Int /\ (m = None <=> m.cmd = "none")
BY DEF IsReply, None

\* Collecting a reply, or giving up on it.
LEMMA Collects ==
  ASSUME TransferInv, Collect
  PROVE  /\ sent # None /\ sent' = None /\ outbox' = None /\ Plans'
         /\ now \notin {"done", "check", "keep"}
         /\ UNCHANGED <<iface, attached, dmhalt, part, alive, inbox, cmd, tag, naccess, ncommands,
                        held, synced, lost, resets>>
         /\ \/ /\ outbox # None /\ Accepts(sent, now, outbox) /\ Onward
               /\ chip' = IF sent.cmd = "attach" /\ now \in {"detect", "again"}
                          THEN wl_chip_by_detect_id(outbox.arg) ELSE chip
               /\ UNCHANGED <<faults, failed, missed>>
            \/ /\ outbox # None /\ ~Accepts(sent, now, outbox) /\ MovesOn(sent, "target")
               /\ UNCHANGED <<chip, faults, failed>> /\ missed' = (missed \/ sent.cmd = "reg")
            \/ /\ outbox = None /\ MovesOn(sent, "usb") /\ missed' = (missed \/ sent.cmd = "reg")
               /\ faults' = faults \/ (faults < MaxFaults /\ faults' = faults + 1)
               /\ failed' = TRUE /\ UNCHANGED chip
<1>1. sent # None /\ sent' = None /\ now \notin {"done", "check", "keep"}
  BY DEF Collect, TransferInv, Awaited
<1>2. /\ Plans /\ Stage = now /\ cmd.name \in Names
  BY <1>1, NowStage DEF TransferInv, Plain, Command
<1>3. UNCHANGED <<iface, attached, dmhalt, part, alive, inbox, cmd, tag, naccess, ncommands,
                  held, synced, lost, resets>>
  BY DEF Collect, programmer
<1>4. CASE outbox # None /\ Accepts(sent, Stage, outbox)
  <2>1. /\ Advance /\ outbox' = None /\ UNCHANGED <<faults, failed, missed>>
        /\ chip' = IF sent.cmd = "attach" /\ Stage \in {"detect", "again"}
                   THEN wl_chip_by_detect_id(outbox.arg) ELSE chip
    BY <1>4 DEF Collect
  <2>2. Onward /\ Plans'
    BY <1>1, <1>2, <1>3, <2>1, Advances
  <2> QED BY <1>1, <1>2, <1>3, <1>4, <2>1, <2>2
<1>5. CASE outbox # None /\ ~Accepts(sent, Stage, outbox)
  <2>1. /\ Fails(sent, "target") /\ outbox' = None /\ UNCHANGED <<chip, faults, failed>>
        /\ missed' = (missed \/ sent.cmd = "reg")
    BY <1>5 DEF Collect
  <2>2. MovesOn(sent, "target") /\ Plans'
    BY <1>1, <1>2, <1>3, <2>1, Failing
  <2> QED BY <1>1, <1>2, <1>3, <1>5, <2>1, <2>2
<1>6. CASE outbox = None
  <2>1. /\ Fails(sent, "usb") /\ failed' = TRUE /\ UNCHANGED <<outbox, chip>>
        /\ faults' = faults \/ (faults < MaxFaults /\ faults' = faults + 1)
        /\ missed' = (missed \/ sent.cmd = "reg")
    BY <1>6 DEF Collect
  <2>2. MovesOn(sent, "usb") /\ Plans'
    BY <1>1, <1>2, <1>3, <2>1, Failing
  <2> QED BY <1>1, <1>2, <1>3, <1>6, <2>1, <2>2
<1> QED BY <1>4, <1>5, <1>6

\* Sending a request, or failing to.
LEMMA Sends ==
  ASSUME TransferInv, NEW q \in AllRequests, Request(q)
  PROVE  /\ sent = None /\ q \in CurrentRequests /\ Plans'
         /\ now \notin {"done", "check", "keep"}
         /\ q.cmd = KindAt(now, at)
         /\ now \in {"work", "cleanup"} => q.arg \in {"status", "data"}
         /\ naccess' \in 0 .. MaxAccesses
         /\ UNCHANGED <<iface, attached, dmhalt, part, alive, outbox, cmd, chip, ncommands,
                        held, synced, resets>>
         /\ \/ /\ inbox = None /\ sent' = inbox' /\ tag' = 1 - tag
               /\ inbox' = [cmd |-> q.cmd, arg |-> q.arg, tag |-> tag', len |-> 0]
               /\ UNCHANGED <<plan, at, status, faults, lost, failed, missed>>
            \/ /\ MovesOn(q, "usb") /\ lost' = TRUE /\ failed' = TRUE
               /\ missed' = (missed \/ q.cmd = "reg")
               /\ faults' = faults \/ (faults < MaxFaults /\ faults' = faults + 1)
               /\ UNCHANGED <<inbox, sent, tag>>
<1>1. ~Idle /\ sent = None /\ Stage \notin {"check", "keep"} /\ q \in CurrentRequests
  BY DEF Request
<1>2. /\ Plans /\ now \notin {"done", "check", "keep"} /\ cmd.name \in Names
  BY <1>1, NowDone, NowStage DEF TransferInv, Plain, Command
<1>3. UNCHANGED <<iface, attached, dmhalt, part, alive, outbox, cmd, chip, ncommands,
                  held, synced, resets>>
  BY DEF Request, programmer
<1>4. naccess' \in 0 .. MaxAccesses
  BY Constants DEF Request, TransferInv, Plain
<1>5. CASE /\ inbox = None /\ sent' = inbox' /\ tag' = 1 - tag
           /\ inbox' = [cmd |-> q.cmd, arg |-> q.arg, tag |-> tag', len |-> 0]
           /\ UNCHANGED <<plan, at, status, faults, lost, failed, missed>>
  <2>1. Plans'
    BY <1>2, <1>3, <1>5 DEF Plans, now
  <2> QED BY <1>1, <1>2, <1>3, <1>4, <1>5, <2>1, CurrentIs
<1>6. CASE /\ Fails(q, "usb") /\ lost' = TRUE /\ failed' = TRUE
           /\ missed' = (missed \/ q.cmd = "reg")
           /\ faults' = faults \/ (faults < MaxFaults /\ faults' = faults + 1)
           /\ UNCHANGED <<inbox, sent, tag>>
  <2>1. MovesOn(q, "usb") /\ Plans'
    BY <1>2, <1>3, <1>6, Failing
  <2> QED BY <1>1, <1>2, <1>3, <1>4, <1>6, <2>1, CurrentIs
<1> QED BY <1>5, <1>6 DEF Request

\* A message that has gone out is a request.
LEMMA SentRequest ==
  ASSUME NEW q \in AllRequests, NEW t \in 0 .. 1
  PROVE  LET m == [cmd |-> q.cmd, arg |-> q.arg, tag |-> t, len |-> 0]
         IN  IsRequest(m) /\ m # None /\ Asked(m) = q
<1> DEFINE m == [cmd |-> q.cmd, arg |-> q.arg, tag |-> t, len |-> 0]
<1>1. IsRequest(m)
  BY DEF IsRequest
<1>2. m.cmd # "none" /\ None.cmd = "none"
  BY AllRequestsKinds DEF None
<1>3. Asked(m) = q
  BY AllRequestsKinds DEF Asked
<1> HIDE DEF m
<1>4. m # None
  BY <1>2
<1> QED BY <1>1, <1>3, <1>4 DEF m

\* What the programmer does with the request in its box.
LEMMA Serves ==
  ASSUME TransferInv, Serve
  PROVE  /\ inbox # None /\ inbox' = None /\ outbox = None
         /\ UNCHANGED <<part, alive, cmd, plan, at, sent, tag, chip, status, naccess, faults,
                        ncommands, synced, lost, failed, missed>>
         /\ Answers(inbox, outbox') /\ IsReply(outbox')
         /\ held' = IF held = "yes" /\ ~attached' /\ ~dmhalt' THEN "let_go" ELSE held
<1>1. /\ inbox # None /\ inbox' = None /\ outbox = None
      /\ UNCHANGED <<part, alive, cmd, plan, at, sent, tag, chip, status, naccess, faults,
                     ncommands, synced, lost, failed, missed>>
      /\ held' = IF held = "yes" /\ ~attached' /\ ~dmhalt' THEN "let_go" ELSE held
  BY DEF Serve, tool
<1>2. inbox.tag \in 0 .. 1 /\ part \in Parts
  BY RequestKind DEF TransferInv, Messages, Plain
<1>3. \E c \in {"iface", "control", "run", "reg", "refused"},
         a \in Parts \cup {Version, NoChip}, n \in {3, 4, 7, 8, 9} :
        /\ Reply(c, n, a)
        /\ inbox.cmd = "iface" => c = "iface"
        /\ inbox.cmd = "attach" => c = "control" /\ (n = 4 \/ (n = 8 /\ a = part))
        /\ inbox.cmd = "reg" => c \in {"reg", "refused"} /\ (c = "reg" => n = 9)
        /\ inbox.cmd # "reg" => n # 9
  <2>1. CASE inbox.cmd = "reg"
    <3>1. Reply("refused", 4, NoChip) \/ Reply("reg", 9, NoChip)
      BY <2>1 DEF Serve
    <3> QED BY <2>1, <3>1
  <2>2. CASE inbox.cmd = "attach"
    <3>1. Reply("control", 4, NoChip) \/ Reply("control", 8, part)
      BY <2>2 DEF Serve
    <3> QED BY <1>2, <2>2, <3>1
  <2>3. CASE inbox.cmd \notin {"reg", "attach"}
    <3>1. \/ Reply("iface", 4, Version) \/ (Reply("run", 3, NoChip) /\ inbox.cmd # "iface")
          \/ Reply("control", 7, Version) /\ inbox.cmd # "iface"
          \/ Reply("control", 4, NoChip) /\ inbox.cmd # "iface"
      BY <2>3 DEF Serve
    <3> QED BY <2>3, <3>1
  <2> QED BY <2>1, <2>2, <2>3
<1>4. PICK c \in {"iface", "control", "run", "reg", "refused"},
           a \in Parts \cup {Version, NoChip}, n \in {3, 4, 7, 8, 9} :
        /\ Reply(c, n, a)
        /\ inbox.cmd = "iface" => c = "iface"
        /\ inbox.cmd = "attach" => c = "control" /\ (n = 4 \/ (n = 8 /\ a = part))
        /\ inbox.cmd = "reg" => c \in {"reg", "refused"} /\ (c = "reg" => n = 9)
        /\ inbox.cmd # "reg" => n # 9
  BY <1>3
<1>5. outbox' = [cmd |-> c, arg |-> a, tag |-> inbox.tag, len |-> n]
  BY <1>4 DEF Reply
<1>6. IsReply(outbox')
  BY <1>2, <1>5 DEF IsReply
<1>7. /\ outbox'.cmd = c /\ outbox'.arg = a /\ outbox'.tag = inbox.tag /\ outbox'.len = n
      /\ None.cmd = "none"
  BY <1>5 DEF None
<1>8. outbox' # None
  BY <1>7
<1>9. Answers(inbox, outbox')
  BY <1>4, <1>7, <1>8 DEF Answers
<1> QED BY <1>1, <1>6, <1>9

\* A command line begins.
LEMMA Begins ==
  ASSUME TransferInv, NEW c \in CommandSet, Begin(c)
  PROVE  /\ now = "done" /\ sent = None /\ Plans' /\ now' = StartStage(c) /\ at' = 1 /\ cmd' = c
         /\ c \in Command /\ status' = "ok" /\ chip' = c.chip
         /\ UNCHANGED <<iface, attached, dmhalt, part, alive, inbox, outbox, sent, tag, faults>>
         /\ lost' = FALSE /\ failed' = FALSE /\ missed' = FALSE /\ resets' = FALSE
         /\ held' = (IF Halted /\ inbox = None THEN "yes" ELSE "no")
         /\ synced' = (inbox = None /\ outbox = None)
<1>1. now = "done" /\ sent = None
  BY NowDone DEF TransferInv, Begin, Awaited
<1>2. plan' = Plan(c) /\ at' = 1 /\ cmd' = c /\ c \in Command
  BY CommandAssumption DEF Begin
<1>3. PICK l \in {"close", "keep"} : Segment(c.name, Plan(c), StartStage(c), l)
  BY PlanOf
<1>4. plan' \in Seq(Stages) /\ Planned(c.name, plan') /\ plan' # <<>> /\ First(plan') = StartStage(c)
  BY <1>2, <1>3, SegmentPlanned
<1>5. now' = StartStage(c)
  BY <1>4 DEF now
<1>6. 1 \in 1 .. Size(StartStage(c))
  BY DEF Size
<1>7. Plans'
  BY <1>2, <1>4, <1>5, <1>6 DEF Plans
<1> QED BY <1>1, <1>2, <1>5, <1>7 DEF Begin, programmer, boxes

\* The stage after one that needs no transfer.
LEMMA Skips ==
  ASSUME TransferInv, ~Idle, Proceed(Tail(plan)), UNCHANGED cmd
  PROVE  Plans' /\ at' = 1 /\ now' \in Following(cmd.name, now)
<1>1. /\ plan # <<>> /\ plan \in Seq(Stages) /\ Planned(cmd.name, plan) /\ Head(plan) = now
  BY NowDone, NowStage DEF TransferInv, Plans, Stage
<1>2. plan' = Tail(plan) /\ at' = 1
  BY DEF Proceed
<1>3. plan' \in Seq(Stages) /\ Planned(cmd.name, plan') /\ First(plan') \in Following(cmd.name, now)
  BY <1>1, <1>2, TailPlanned
<1>4. now' = First(plan') /\ 1 \in 1 .. Size(First(plan'))
  BY DEF now, Size
<1> QED BY <1>2, <1>3, <1>4 DEF Plans

\* A command that is over.
LEMMA Ends ==
  ASSUME plan' = <<>>, at' = 1
  PROVE  Plans' /\ now' = "done"
<1>1. plan' \in Seq(Stages) /\ First(plan') = "done"
  BY NoPlan
<1>2. 1 \in 1 .. Size("done")
  BY DEF Size
<1>3. Planned(cmd.name', plan')
  BY NoPlan
<1> QED BY <1>1, <1>2, <1>3 DEF Plans, now

\* cmd_flash checks the part.
LEMMA Checks ==
  ASSUME TransferInv, CheckPart
  PROVE  /\ now = "check" /\ cmd.name = "flash" /\ Plans' /\ at' = 1
         /\ \/ status' = status /\ now' = "select"
            \/ /\ status' \in {"usage", "not_implemented"}
               /\ now' = IF cmd.chip = NoChip THEN "close" ELSE "done"
         /\ UNCHANGED <<programmer, boxes, cmd, sent, tag, chip, naccess, faults, ncommands, seen>>
<1>1. /\ now = "check" /\ ~Idle /\ now \in Usual(cmd.name)
      /\ UNCHANGED <<programmer, boxes, cmd, sent, tag, chip, naccess, faults, ncommands, seen>>
  BY NowDone, NowStage DEF CheckPart, TransferInv
<1>2. cmd.name = "flash"
  BY <1>1 DEF Usual, TransferInv, Plain, Command, Names, DebugCommands, ResetCommands, Interactive
<1>3. CASE Proceed(Tail(plan)) /\ UNCHANGED status
  <2>1. Plans' /\ at' = 1 /\ now' \in Following("flash", "check")
    BY <1>1, <1>2, <1>3, Skips
  <2> QED BY <1>1, <1>2, <1>3, <2>1 DEF Following
<1>4. CASE Refuse /\ cmd.chip = NoChip /\ status' \in {"usage", "not_implemented"}
  <2>1. plan' = <<"close">> /\ at' = 1
    BY <1>4 DEF Refuse, Proceed
  <2>2. "close" \in Usual("flash")
    BY DEF Usual, DebugCommands, ResetCommands
  <2>3. plan' \in Seq(Stages) /\ Planned("flash", plan') /\ First(plan') = "close"
    BY <2>1, <2>2, EndPlanned
  <2>4. now' = "close" /\ 1 \in 1 .. Size("close")
    BY <2>3 DEF now, Size
  <2>5. Plans'
    BY <1>1, <1>2, <2>1, <2>3, <2>4 DEF Plans
  <2> QED BY <1>1, <1>2, <1>4, <2>1, <2>4, <2>5
<1>5. CASE Refuse /\ cmd.chip # NoChip /\ status' \in {"usage", "not_implemented"}
  <2>1. plan' = <<>> /\ at' = 1
    BY <1>5 DEF Refuse, Proceed
  <2> QED BY <1>1, <1>2, <1>5, <2>1, Ends
<1> QED BY <1>3, <1>4, <1>5 DEF CheckPart

\* Leaving a command, by its last stage, by the user or by a signal.
LEMMA Leaves ==
  ASSUME TransferInv, KeepTarget \/ Stop \/ Killed
  PROVE  /\ Plans' /\ now # "done" /\ at' = 1 /\ sent' = None
         /\ UNCHANGED <<programmer, boxes, cmd, tag, chip, naccess, ncommands,
                        held, synced, failed, missed, resets>>
         /\ \/ now = "keep" /\ now' = "done" /\ UNCHANGED <<status, faults, lost>>
            \/ now = "loop" /\ now' = "close" /\ UNCHANGED <<status, faults, lost>>
            \/ /\ now' = "done" /\ status' = "killed" /\ lost' = TRUE
               /\ faults < MaxFaults /\ faults' = faults + 1
<1>1. now # "done" /\ Stage = now
  BY NowDone, NowStage DEF KeepTarget, Stop, Killed, TransferInv
<1>2. UNCHANGED <<programmer, boxes, cmd, tag, chip, naccess, ncommands,
                  held, synced, failed, missed, resets>>
  BY DEF KeepTarget, Stop, Killed, seen
<1>3. CASE KeepTarget
  <2>1. now = "keep" /\ plan' = <<>> /\ at' = 1 /\ UNCHANGED <<sent, status, faults, lost>>
    BY <1>1, <1>3 DEF KeepTarget, Proceed, seen
  <2>2. sent = None
    BY <2>1 DEF TransferInv, Awaited
  <2> QED BY <1>1, <1>2, <2>1, <2>2, Ends
<1>4. CASE Stop
  <2>1. /\ ~Idle /\ now = "loop" /\ sent = None /\ Proceed(Tail(plan))
        /\ UNCHANGED <<sent, status, faults, lost>>
    BY <1>1, <1>4 DEF Stop, seen
  <2>2. Plans' /\ at' = 1 /\ now' \in Following(cmd.name, now)
    BY <1>2, <2>1, Skips
  <2>3. now' = "close"
    BY <2>1, <2>2 DEF Following
  <2> QED BY <1>1, <1>2, <2>1, <2>2, <2>3
<1>5. CASE Killed
  <2>1. /\ plan' = <<>> /\ at' = 1 /\ sent' = None /\ status' = "killed" /\ lost' = TRUE
        /\ faults < MaxFaults /\ faults' = faults + 1
    BY <1>5 DEF Killed, Proceed
  <2> QED BY <1>1, <1>2, <2>1, Ends
<1> QED BY <1>3, <1>4, <1>5

\* Status is one that wl_status has.
Statuses ==
  {"none", "ok", "usb", "target", "verify", "usage", "not_implemented", "killed"}

\* Whatever a transfer returns, status stays one of them.
LEMMA MovesStatus ==
  ASSUME status \in Statuses, NEW q, NEW s \in {"usb", "target"}, Onward \/ MovesOn(q, s)
  PROVE  status' \in Statuses
BY DEF Statuses, Onward, MovesOn, GivenUp

\* The transfer invariant holds initially.
LEMMA TransferInit == Init => TransferInv
<1> SUFFICES ASSUME Init PROVE TransferInv
  OBVIOUS
<1>1. Plain
  <2>1. NoCommand \in Command
    BY DEF NoCommand, Command, Names
  <2>2. 0 \in 0 .. MaxFaults /\ 0 \in 0 .. MaxCommands /\ 0 \in 0 .. MaxAccesses
    BY Constants
  <2>3. /\ attached \in BOOLEAN /\ dmhalt \in BOOLEAN /\ alive \in BOOLEAN /\ missed \in BOOLEAN
        /\ synced \in BOOLEAN /\ lost \in BOOLEAN /\ failed \in BOOLEAN /\ resets \in BOOLEAN
    BY Zenon DEF Init
  <2> QED BY <2>1, <2>2, <2>3 DEF Init, Plain
<1>2. Messages
  BY DEF Init, Messages, IsRequest, IsReply
<1>3. Plans
  <2>1. plan = <<>> /\ at = 1
    BY DEF Init
  <2>2. 1 \in 1 .. Size("done")
    BY DEF Size
  <2> QED BY <2>1, <2>2, NoPlan DEF Plans, now
<1>4. Awaited
  BY DEF Init, Awaited
<1> QED BY <1>1, <1>2, <1>3, <1>4 DEF TransferInv

\* It is kept by every step.
LEMMA TransferNext == TransferInv /\ [Next]_vars => TransferInv'
<1> SUFFICES ASSUME TransferInv, [Next]_vars PROVE TransferInv'
  OBVIOUS
<1>0. /\ Plain /\ Messages /\ Plans /\ Awaited /\ IsRequest(None) /\ IsReply(None)
  BY DEF TransferInv, IsRequest, IsReply
<1>1. CASE Collect
  <2>1. /\ sent # None /\ sent' = None /\ outbox' = None /\ Plans'
        /\ UNCHANGED <<iface, attached, dmhalt, part, alive, inbox, cmd, tag, naccess, ncommands,
                       held, synced, lost, resets>>
    BY <1>1, Collects
  <2>2. chip' \in Chips \cup {NoChip}
    BY <1>0, <1>1, Collects, Detected DEF Plain
  <2>3. status' \in Statuses
    BY <1>0, <1>1, Collects, MovesStatus DEF Plain, Statuses
  <2>4. faults' \in 0 .. MaxFaults /\ failed' \in BOOLEAN /\ missed' \in BOOLEAN
    <3>1. /\ faults' = faults \/ (faults < MaxFaults /\ faults' = faults + 1)
          /\ failed' = failed \/ failed' = TRUE
      BY <1>1, Collects
    <3>2. MaxFaults \in Nat /\ faults \in 0 .. MaxFaults /\ failed \in BOOLEAN
      BY <1>0, Constants DEF Plain
    <3>3. faults' \in 0 .. MaxFaults
      BY <3>1, <3>2
    <3>4. failed' \in BOOLEAN
      BY <3>1, <3>2, Zenon
    <3>5. missed' = missed \/ missed' = (missed \/ sent.cmd = "reg")
      BY <1>1, Collects
    <3>6. missed \in BOOLEAN /\ (missed \/ sent.cmd = "reg") \in BOOLEAN
      BY <1>0, Zenon DEF Plain
    <3>7. missed' \in BOOLEAN
      BY <3>5, <3>6, Zenon
    <3> QED BY <3>3, <3>4, <3>7
  <2>5. Plain'
    BY <1>0, <2>1, <2>2, <2>3, <2>4 DEF Plain, Statuses
  <2>6. Messages' /\ Awaited'
    BY <1>0, <2>1 DEF Messages, Awaited
  <2> QED BY <2>1, <2>5, <2>6 DEF TransferInv
<1>2. ASSUME NEW q \in AllRequests, Request(q) PROVE TransferInv'
  <2>1. /\ sent = None /\ q \in CurrentRequests /\ Plans' /\ now \notin {"done", "check", "keep"}
        /\ naccess' \in 0 .. MaxAccesses
        /\ UNCHANGED <<iface, attached, dmhalt, part, alive, outbox, cmd, chip, ncommands,
                       held, synced, resets>>
    BY <1>2, Sends
  <2>2. CASE /\ inbox = None /\ sent' = inbox' /\ tag' = 1 - tag
             /\ inbox' = [cmd |-> q.cmd, arg |-> q.arg, tag |-> tag', len |-> 0]
             /\ UNCHANGED <<plan, at, status, faults, lost, failed, missed>>
    <3>1. tag' \in 0 .. 1
      BY <1>0, <2>2 DEF Plain
    <3>2. Plain'
      BY <1>0, <2>1, <2>2, <3>1 DEF Plain
    <3>3. IsRequest(inbox') /\ inbox' # None /\ Asked(inbox') = q
      BY <2>2, <3>1, SentRequest
    <3>4. Messages'
      BY <1>0, <2>1, <2>2, <3>3 DEF Messages
    <3>5. now' = now /\ CurrentRequests' = CurrentRequests
      BY <2>1, <2>2 DEF now, CurrentRequests, Stage, LoopAccesses, Requests
    <3>6. Awaited'
      BY <2>1, <2>2, <3>3, <3>5 DEF Awaited
    <3> QED BY <2>1, <3>2, <3>4, <3>6 DEF TransferInv
  <2>3. CASE /\ MovesOn(q, "usb") /\ lost' = TRUE /\ failed' = TRUE
             /\ missed' = (missed \/ q.cmd = "reg")
             /\ faults' = faults \/ (faults < MaxFaults /\ faults' = faults + 1)
             /\ UNCHANGED <<inbox, sent, tag>>
    <3>1. status' \in Statuses /\ faults' \in 0 .. MaxFaults
      BY <1>0, <2>3, MovesStatus, Constants DEF Plain, Statuses
    <3>2. lost' \in BOOLEAN /\ failed' \in BOOLEAN /\ missed' \in BOOLEAN
      BY <2>3, Zenon
    <3>3. Messages' /\ Awaited'
      BY <1>0, <2>1, <2>3 DEF Messages, Awaited
    <3>4. UNCHANGED tag
      BY <2>3
    <3>5. Plain'
      BY <1>0, <2>1, <3>1, <3>2, <3>4 DEF Plain, Statuses
    <3> QED BY <2>1, <3>3, <3>5 DEF TransferInv
  <2> QED BY <1>2, <2>2, <2>3, Sends
<1>3. CASE CheckPart
  <2>1. /\ Plans' /\ status' \in Statuses /\ now = "check"
        /\ UNCHANGED <<programmer, boxes, cmd, sent, tag, chip, naccess, faults, ncommands, seen>>
    BY <1>0, <1>3, Checks DEF Plain, Statuses
  <2>2. sent = None
    BY <1>0, <2>1 DEF Awaited
  <2>3. Plain'
    BY <1>0, <2>1 DEF Plain, programmer, seen, Statuses
  <2>4. Messages' /\ Awaited'
    BY <1>0, <2>1, <2>2 DEF Messages, Awaited, boxes
  <2> QED BY <2>1, <2>3, <2>4 DEF TransferInv
<1>4. CASE KeepTarget \/ Stop \/ Killed
  <2>1. /\ Plans' /\ sent' = None
        /\ UNCHANGED <<programmer, boxes, cmd, tag, chip, naccess, ncommands,
                       held, synced, failed, missed, resets>>
    BY <1>4, Leaves
  <2>2. status' \in Statuses /\ faults' \in 0 .. MaxFaults /\ lost' \in BOOLEAN
    <3>1. /\ status' \in {status, "killed"} /\ (lost' = lost \/ lost' = TRUE)
          /\ faults' = faults \/ (faults < MaxFaults /\ faults' = faults + 1)
      BY <1>4, Leaves
    <3>2. /\ MaxFaults \in Nat /\ faults \in 0 .. MaxFaults /\ lost \in BOOLEAN
          /\ status \in Statuses
      BY <1>0, Constants DEF Plain, Statuses
    <3>3. status' \in Statuses
      BY <3>1, <3>2 DEF Statuses
    <3>4. faults' \in 0 .. MaxFaults
      BY <3>1, <3>2
    <3>5. lost' \in BOOLEAN
      BY <3>1, <3>2, Zenon
    <3> QED BY <3>3, <3>4, <3>5
  <2>3. Plain'
    BY <1>0, <2>1, <2>2 DEF Plain, programmer, Statuses
  <2>4. Messages' /\ Awaited'
    BY <1>0, <2>1 DEF Messages, Awaited, boxes
  <2> QED BY <2>1, <2>3, <2>4 DEF TransferInv
<1>5. ASSUME NEW c \in CommandSet, Begin(c) PROVE TransferInv'
  <2>1. /\ sent = None /\ Plans' /\ cmd' = c /\ c \in Command /\ status' = "ok" /\ chip' = c.chip
        /\ UNCHANGED <<iface, attached, dmhalt, part, alive, inbox, outbox, sent, tag, faults>>
        /\ lost' = FALSE /\ failed' = FALSE /\ missed' = FALSE /\ resets' = FALSE
        /\ held' \in {"yes", "no"} /\ synced' \in BOOLEAN
    BY <1>5, Begins
  <2>2. ncommands' \in 0 .. MaxCommands /\ naccess' \in 0 .. MaxAccesses
    BY <1>0, <1>5, Constants DEF Begin, Plain
  <2>3. c.chip \in Chips \cup {NoChip}
    BY <2>1 DEF Command
  <2>4. Plain'
    BY <1>0, <2>1, <2>2, <2>3 DEF Plain
  <2>5. Messages' /\ Awaited'
    BY <1>0, <2>1 DEF Messages, Awaited
  <2> QED BY <2>1, <2>4, <2>5 DEF TransferInv
<1>6. CASE Serve
  <2>1. /\ inbox # None /\ inbox' = None /\ outbox = None
        /\ UNCHANGED <<part, alive, cmd, plan, at, sent, tag, chip, status, naccess, faults,
                       ncommands, synced, lost, failed, missed>>
        /\ Answers(inbox, outbox') /\ IsReply(outbox')
        /\ held' = IF held = "yes" /\ ~attached' /\ ~dmhalt' THEN "let_go" ELSE held
    BY <1>6, Serves
  <2>2. attached' \in BOOLEAN /\ dmhalt' \in BOOLEAN /\ resets' \in BOOLEAN
    BY <1>0, <1>6 DEF Serve, Plain
  <2>3. iface' \in Chips \cup {NoChip, Generic}
    BY <1>0, <1>6, RequestKind DEF Serve, Plain, Messages
  <2>4. Plain'
    BY <1>0, <2>1, <2>2, <2>3 DEF Plain
  <2>5. Messages' /\ Plans'
    BY <1>0, <2>1 DEF Messages, Plans, now
  <2>6. now' = now /\ CurrentRequests' = CurrentRequests
    BY <2>1 DEF now, CurrentRequests, Stage, LoopAccesses, Requests
  <2>7. Awaited'
    BY <1>0, <2>1, <2>6 DEF Awaited, Answers
  <2> QED BY <2>4, <2>5, <2>7 DEF TransferInv
<1>7. CASE Hang
  <2>1. /\ alive' = FALSE
        /\ UNCHANGED <<iface, attached, dmhalt, part, boxes, tool, faults, ncommands, seen>>
    BY <1>7 DEF Hang
  <2>2. now' = now /\ CurrentRequests' = CurrentRequests
    BY <2>1 DEF now, CurrentRequests, Stage, LoopAccesses, Requests, tool
  <2>3. Plain' /\ Messages'
    <3>1. Messages'
      BY <1>0, <2>1 DEF Messages, tool, boxes
    <3>2. alive' \in BOOLEAN
      BY <2>1
    <3> QED BY <1>0, <2>1, <3>1, <3>2 DEF Plain, tool, seen
  <2>4. Plans' /\ Awaited'
    BY <1>0, <2>1, <2>2 DEF Plans, Awaited, Answers, tool, boxes
  <2> QED BY <2>3, <2>4 DEF TransferInv
<1>8. CASE Replug
  <2>1. now = "done" /\ sent = None /\ plan = <<>> /\ at = 1
    <3>1. now = "done" /\ plan = <<>>
      BY <1>0, <1>8, NowDone DEF Replug, Idle
    <3>2. Size("done") = 1
      BY DEF Size
    <3> QED BY <1>0, <3>1, <3>2 DEF Awaited, Plans
  <2>2. Plain'
    BY <1>0, <1>8 DEF Replug, Plain, Command, NoCommand, Names
  <2>3. Messages' /\ Awaited'
    BY <1>0, <1>8, <2>1 DEF Messages, Awaited, Replug
  <2>4. Plans'
    BY <1>8, <2>1, Ends DEF Replug
  <2> QED BY <2>2, <2>3, <2>4 DEF TransferInv
<1>9. CASE UNCHANGED vars
  <2>1. UNCHANGED <<iface, attached, dmhalt, part, alive, boxes, tool, faults, ncommands, seen>>
    BY <1>9 DEF vars, programmer
  <2>2. now' = now /\ CurrentRequests' = CurrentRequests
    BY <2>1 DEF now, CurrentRequests, Stage, LoopAccesses, Requests, tool
  <2>3. Plain' /\ Messages'
    BY <1>0, <2>1 DEF Plain, Messages, tool, seen, boxes
  <2>4. Plans' /\ Awaited'
    BY <1>0, <2>1, <2>2 DEF Plans, Awaited, Answers, tool, boxes
  <2> QED BY <2>3, <2>4 DEF TransferInv
<1> QED BY <1>1, <1>2, <1>3, <1>4, <1>5, <1>6, <1>7, <1>8, <1>9
        DEF Next, Tool, Transfer, User

\* Every state of the tool, of the programmer and of the two message boxes is
\* well typed; in particular a stage has the request the tool is at.
THEOREM TypeCorrect == Spec => []TypeOK
<1>1. TransferInv => TypeOK
  <2> SUFFICES ASSUME TransferInv PROVE TypeOK
    OBVIOUS
  <2>1. {inbox.tag, outbox.tag, sent.tag, tag} \subseteq 0 .. 1
    BY RequestKind, ReplyKind DEF TransferInv, Messages, Plain
  <2>2. at \in 1 .. 4
    <3>1. Size(now) \in 1 .. 4
      BY DEF Size
    <3> QED BY <3>1 DEF TransferInv, Plans
  <2> QED BY <2>1, <2>2 DEF TypeOK, TransferInv, Plain, Plans
<1> QED BY <1>1, TransferInit, TransferNext, PTL DEF Spec

\* A programmer that hangs looks as it did.
LEMMA Unseen ==
  ASSUME Hang \/ UNCHANGED vars
  PROVE  UNCHANGED <<now, at, sent, inbox, outbox, cmd, chip, status, iface, attached, dmhalt,
                     part, held, synced, lost, failed, missed, resets>>
BY DEF Hang, vars, programmer, boxes, tool, seen, now

\* Between two commands the programmer may be replugged.
LEMMA Replugged ==
  ASSUME TransferInv, Replug
  PROVE  /\ now = "done" /\ now' = "done" /\ sent = None /\ sent' = None
         /\ iface' = NoChip /\ attached' = FALSE /\ dmhalt' = FALSE
         /\ inbox' = None /\ outbox' = None
         /\ cmd' = NoCommand /\ status' = "none" /\ chip' = NoChip /\ held' = "no" /\ resets' = FALSE
<1>1. now = "done" /\ plan = <<>>
  BY NowDone DEF Replug, TransferInv, Idle
<1>2. plan' = plan /\ now' = now
  BY DEF Replug, now
<1> QED BY <1>1, <1>2 DEF Replug, TransferInv, Awaited

\* What is awaited is of the kind the stage is at.
LEMMA SentIs ==
  ASSUME TransferInv, sent # None
  PROVE  /\ now \notin {"done", "check", "keep"} /\ sent.cmd = KindAt(now, at)
         /\ now \in {"work", "cleanup"} => sent.arg \in {"status", "data"}
         /\ inbox # None => inbox = sent
         /\ inbox = None => Answers(sent, outbox)
<1>1. now \notin {"done", "check", "keep"} /\ Asked(sent) \in CurrentRequests
  BY DEF TransferInv, Awaited
<1>2. Asked(sent).cmd = sent.cmd /\ Asked(sent).arg = sent.arg
  BY DEF Asked
<1> QED BY <1>1, <1>2, CurrentIs DEF TransferInv, Awaited

\* None asks and answers nothing.
LEMMA NoneIs == None.cmd = "none" /\ None.len = 0
BY DEF None

---------------------------------------------------------------------------
(* Detection *)

\* The attach whose reply carries the chip id comes next or is under way: what is
\* in front of it can only be a reply that carries no id, or the id of this part.
AtAttach == (now = "detect" /\ at = 2) \/ (now = "again" /\ at = 4)
ChipInv ==
  /\ AtAttach => /\ inbox.cmd \in {"none", "iface", "attach"}
                 /\ IsChipId(outbox) => outbox.arg = part
  /\ ChipIsReal

\* It is kept by every step.
LEMMA ChipNext == TransferInv /\ ChipInv /\ [Next]_vars => ChipInv'
<1> SUFFICES ASSUME TransferInv, ChipInv, [Next]_vars PROVE ChipInv'
  OBVIOUS
<1>0. /\ Plans /\ Messages /\ at \in 1 .. Size(now)
  BY DEF TransferInv, Plans
<1>1. CASE Collect
  <2>1. /\ sent # None /\ sent' = None /\ outbox' = None
        /\ UNCHANGED <<part, inbox, cmd>>
        /\ now \notin {"done", "check", "keep"} /\ sent.cmd = KindAt(now, at)
        /\ inbox # None => inbox = sent
    BY <1>1, Collects, SentIs
  <2>2. AtAttach' => sent.cmd = "iface"
    <3>1. SUFFICES ASSUME AtAttach' PROVE sent.cmd = "iface"
      OBVIOUS
    <3>2. Onward \/ \E s : GivenUp(s)
      BY <1>1, Collects DEF MovesOn
    <3>3. CASE Onward
      BY <1>0, <2>1, <3>1, <3>3 DEF Onward, AtAttach, Size, KindAt
    <3>4. CASE \E s : GivenUp(s)
      BY <3>1, <3>4 DEF GivenUp, AtAttach
    <3> QED BY <3>2, <3>3, <3>4
  <2>3. AtAttach' => /\ inbox'.cmd \in {"none", "iface", "attach"}
                     /\ IsChipId(outbox') => outbox'.arg = part'
    BY <2>1, <2>2, NoneIs DEF IsChipId
  <2>4. ChipIsReal'
    <3>1. CASE chip' = chip
      BY <2>1, <3>1 DEF ChipInv, ChipIsReal, Matching
    <3>2. CASE chip' # chip
      <4>1. /\ outbox # None /\ Accepts(sent, now, outbox)
            /\ sent.cmd = "attach" /\ now \in {"detect", "again"}
            /\ chip' = wl_chip_by_detect_id(outbox.arg)
        BY <1>1, <3>2, Collects
      <4>2. AtAttach
        BY <1>0, <2>1, <4>1 DEF AtAttach, KindAt, Size
      <4>3. IsChipId(outbox)
        BY <4>1 DEF Accepts
      <4>4. outbox.arg = part
        BY <4>2, <4>3 DEF ChipInv
      <4>5. chip' = NoChip \/ chip' \in Matching(part)
        BY <4>1, <4>4, Detected
      <4>6. Matching(part)' = Matching(part)
        BY <2>1 DEF Matching
      <4> QED BY <4>5, <4>6 DEF ChipIsReal
    <3> QED BY <3>1, <3>2
  <2> QED BY <2>3, <2>4 DEF ChipInv
<1>2. ASSUME NEW q \in AllRequests, Request(q) PROVE ChipInv'
  <2>1. /\ sent = None /\ now \notin {"done", "check", "keep"} /\ q.cmd = KindAt(now, at)
        /\ UNCHANGED <<part, outbox, cmd, chip>>
    BY <1>2, Sends
  <2>2. ChipIsReal'
    BY <2>1 DEF ChipInv, ChipIsReal, Matching
  <2>3. CASE /\ inbox = None
             /\ inbox' = [cmd |-> q.cmd, arg |-> q.arg, tag |-> tag', len |-> 0]
             /\ UNCHANGED <<plan, at>>
    <3>1. now' = now
      BY <2>3 DEF now
    <3>2. inbox'.cmd = q.cmd
      BY <2>3
    <3>3. AtAttach' = AtAttach
      BY <2>3, <3>1 DEF AtAttach
    <3>4. AtAttach => q.cmd = "attach"
      BY <2>1 DEF AtAttach, KindAt
    <3> QED BY <2>1, <2>2, <3>2, <3>3, <3>4 DEF ChipInv, IsChipId
  <2>4. CASE MovesOn(q, "usb")
    <3>1. ~AtAttach'
      <4>1. CASE Unheeded(q) /\ Onward
        BY <1>0, <4>1 DEF Unheeded, Ignored, Onward, AtAttach, Size
      <4>2. CASE GivenUp("usb")
        BY <4>2 DEF GivenUp, AtAttach
      <4> QED BY <2>4, <4>1, <4>2 DEF MovesOn
    <3> QED BY <2>2, <3>1 DEF ChipInv
  <2> QED BY <1>2, <2>3, <2>4, Sends
<1>3. CASE CheckPart \/ KeepTarget \/ Stop \/ Killed
  <2>1. at' = 1 /\ UNCHANGED <<cmd, chip, part>>
    BY <1>3, Checks, Leaves DEF programmer
  <2> QED BY <2>1 DEF ChipInv, AtAttach, ChipIsReal, Matching
<1>4. ASSUME NEW c \in CommandSet, Begin(c) PROVE ChipInv'
  <2>1. at' = 1 /\ cmd' = c /\ chip' = c.chip
    BY <1>4, Begins
  <2> QED BY <2>1 DEF ChipInv, AtAttach, ChipIsReal
<1>5. CASE Serve
  <2>1. /\ inbox # None /\ inbox' = None /\ Answers(inbox, outbox')
        /\ UNCHANGED <<part, cmd, plan, at, chip>>
    BY <1>5, Serves
  <2>2. AtAttach' = AtAttach /\ ChipIsReal'
    BY <2>1 DEF AtAttach, now, ChipInv, ChipIsReal, Matching
  <2>3. AtAttach => inbox.cmd \in {"iface", "attach"}
    BY <1>0, <2>1, RequestKind DEF ChipInv, Messages
  <2>4. AtAttach => (IsChipId(outbox') => outbox'.arg = part')
    BY <2>1, <2>3 DEF IsChipId, Answers
  <2> QED BY <2>1, <2>2, <2>4, NoneIs DEF ChipInv
<1>6. CASE Replug
  <2>1. now' = "done" /\ chip' = NoChip
    BY <1>6, Replugged
  <2> QED BY <2>1 DEF ChipInv, AtAttach, ChipIsReal
<1>7. CASE Hang \/ UNCHANGED vars
  BY <1>7, Unseen DEF ChipInv, AtAttach, ChipIsReal, Matching, IsChipId
<1> QED BY <1>1, <1>2, <1>3, <1>4, <1>5, <1>6, <1>7 DEF Next, Tool, Transfer, User

\* The part that detection reports is the one that is connected, also when
\* every reply arrives one request late: only the reply to the interface setting
\* can be in front of the one to the attach.
THEOREM ChipReal == Spec => []ChipIsReal
<1>1. Init => ChipInv
  BY DEF Init, ChipInv, AtAttach, ChipIsReal
<1>2. ChipInv => ChipIsReal
  BY DEF ChipInv
<1> QED BY <1>1, <1>2, TransferInit, TransferNext, ChipNext, PTL DEF Spec

---------------------------------------------------------------------------
(* What the programmer will be like once it has looked at its request *)

\* What the programmer will be once it has looked at the request in its box.  A
\* request changes this when it goes out; looking at it changes nothing.
IfaceSoon == IF inbox.cmd = "iface" THEN inbox.arg ELSE iface
AttachedSoon ==
  CASE inbox.cmd = "attach" -> attached \/ iface # NoChip
    [] inbox.cmd \in {"release", "run"} -> FALSE
    [] OTHER -> attached
DmhaltSoon ==
  CASE inbox.cmd = "run" -> FALSE
    [] inbox.cmd = "reg" /\ iface # NoChip ->
         (CASE inbox.arg = "haltreq" -> TRUE [] inbox.arg = "resumereq" -> FALSE [] OTHER -> dmhalt)
    [] OTHER -> dmhalt
ResetsSoon == resets \/ (inbox.cmd = "reset_low" /\ attached)

\* The request of stage s has gone out, or the command is past it.
Past(s, later) == (now = s /\ sent # None) \/ now \in later

\* Looking at its request makes the programmer what it was to become.
LEMMA SoonServed ==
  ASSUME TransferInv, Serve
  PROVE  /\ IfaceSoon' = IfaceSoon /\ (AttachedSoon' <=> AttachedSoon)
         /\ (DmhaltSoon' <=> DmhaltSoon) /\ (ResetsSoon' <=> ResetsSoon)
<1>1. /\ inbox # None /\ inbox' = None /\ inbox'.cmd = "none"
      /\ inbox.cmd \in {"iface", "reg", "attach", "release", "run", "reset_low", "status"}
  BY Serves, RequestKind, NoneIs DEF TransferInv, Messages
<1>2. IfaceSoon' = iface' /\ (AttachedSoon' <=> attached') /\ (DmhaltSoon' <=> dmhalt')
      /\ (ResetsSoon' <=> resets')
  BY <1>1 DEF IfaceSoon, AttachedSoon, DmhaltSoon, ResetsSoon
<1>3. IfaceSoon = iface'
  BY <1>1 DEF IfaceSoon, Serve
<1>4. AttachedSoon <=> attached'
  <2>1. \/ inbox.cmd = "attach" /\ attached' = attached /\ (iface = NoChip \/ attached)
        \/ inbox.cmd = "attach" /\ attached' = TRUE /\ iface # NoChip
        \/ inbox.cmd \in {"release", "run"} /\ attached' = FALSE
        \/ inbox.cmd \notin {"attach", "release", "run"} /\ attached' = attached
    BY DEF Serve
  <2> QED BY <2>1 DEF AttachedSoon
<1>5. DmhaltSoon <=> dmhalt'
  <2>1. \/ inbox.cmd = "run" /\ dmhalt' = FALSE
        \/ inbox.cmd = "reg" /\ iface # NoChip /\ inbox.arg = "haltreq" /\ dmhalt' = TRUE
        \/ inbox.cmd = "reg" /\ iface # NoChip /\ inbox.arg = "resumereq" /\ dmhalt' = FALSE
        \/ /\ inbox.cmd = "reg" /\ iface # NoChip /\ inbox.arg \notin {"haltreq", "resumereq"}
           /\ dmhalt' = dmhalt
        \/ inbox.cmd = "reg" /\ iface = NoChip /\ dmhalt' = dmhalt
        \/ inbox.cmd \notin {"run", "reg"} /\ dmhalt' = dmhalt
    BY DEF Serve
  <2> QED BY <2>1 DEF DmhaltSoon
<1>6. ResetsSoon <=> resets'
  <2>1. \/ inbox.cmd = "reset_low" /\ resets' = (resets \/ attached)
        \/ inbox.cmd # "reset_low" /\ resets' = resets
    BY DEF Serve
  <2>2. CASE inbox.cmd = "reset_low"
    <3>1. resets' <=> (resets \/ attached)
      BY <2>1, <2>2, Zenon
    <3> QED BY <2>2, <3>1 DEF ResetsSoon
  <2>3. CASE inbox.cmd # "reset_low"
    BY <2>1, <2>3 DEF ResetsSoon
  <2> QED BY <2>2, <2>3
<1> QED BY <1>2, <1>3, <1>4, <1>5, <1>6

\* What a request that goes out will make of it.
LEMMA SoonSent ==
  ASSUME inbox = None, UNCHANGED <<iface, attached, dmhalt, resets>>, NEW q, NEW t,
         inbox' = [cmd |-> q.cmd, arg |-> q.arg, tag |-> t, len |-> 0]
  PROVE  /\ q.cmd = "iface" => IfaceSoon' = q.arg
         /\ q.cmd # "iface" => IfaceSoon' = IfaceSoon
         /\ q.cmd = "attach" => (IfaceSoon' # NoChip => AttachedSoon')
         /\ q.cmd \in {"run", "release"} => ~AttachedSoon'
         /\ q.cmd \notin {"attach", "run", "release"} => (AttachedSoon' <=> AttachedSoon)
         /\ q.cmd = "run" => ~DmhaltSoon'
         /\ q.cmd \notin {"run", "reg"} => (DmhaltSoon' <=> DmhaltSoon)
         /\ q.cmd = "reset_low" => (AttachedSoon => ResetsSoon')
         /\ ResetsSoon => ResetsSoon'
<1>1. inbox.cmd = "none" /\ inbox'.cmd = q.cmd /\ inbox'.arg = q.arg
  BY NoneIs
<1> QED BY <1>1 DEF IfaceSoon, AttachedSoon, DmhaltSoon, ResetsSoon

\* Nothing changes as long as the programmer and its box stay as they are.
LEMMA SoonSame ==
  ASSUME UNCHANGED <<inbox, iface, attached, dmhalt, resets>>
  PROVE  /\ IfaceSoon' = IfaceSoon /\ (AttachedSoon' <=> AttachedSoon)
         /\ (DmhaltSoon' <=> DmhaltSoon) /\ (ResetsSoon' <=> ResetsSoon)
BY DEF IfaceSoon, AttachedSoon, DmhaltSoon, ResetsSoon

\* A transfer ends the command only in the last stage.
LEMMA DoneFrom ==
  ASSUME Plans, now \notin {"done", "check", "keep"}, now' = "done",
         Onward \/ \E s : GivenUp(s)
  PROVE  now = "close"
<1>1. now \in Stages
  BY NowStage
<1>2. CASE Onward
  BY <1>1, <1>2 DEF Onward, Following, Stages
<1>3. CASE \E s : GivenUp(s)
  <2>1. "done" \in Instead(cmd.name, now)
    BY <1>3 DEF GivenUp
  <2> QED BY <1>1, <2>1 DEF Instead, Following, Stages
<1> QED BY <1>2, <1>3

---------------------------------------------------------------------------
(* Letting go *)

\* Once the last release has gone out, the target is, or soon will be, let go.
ReleasedInv ==
  cmd.name \in Closers /\ ~lost /\ Past("close", {"done"}) /\ ~(now = "done" /\ RefusedUnopened)
    => ~AttachedSoon

\* The invariant behind Released is kept by every step.
LEMMA ReleasedNext == TransferInv /\ ReleasedInv /\ [Next]_vars => ReleasedInv'
<1> SUFFICES ASSUME TransferInv, ReleasedInv, [Next]_vars,
                    cmd'.name \in Closers, ~lost', Past("close", {"done"})',
                    ~(now' = "done" /\ RefusedUnopened')
             PROVE  ~AttachedSoon'
  BY DEF ReleasedInv
<1>0. Plans
  BY DEF TransferInv
<1>1. CASE Collect
  <2>1. /\ sent # None /\ sent' = None /\ now \notin {"done", "check", "keep"}
        /\ UNCHANGED <<iface, attached, dmhalt, inbox, cmd, lost, resets>>
        /\ Onward \/ \E s : GivenUp(s)
    BY <1>1, Collects DEF MovesOn
  <2>2. now' = "done"
    BY <2>1 DEF Past
  <2>3. now = "close"
    BY <1>0, <2>1, <2>2, DoneFrom
  <2>4. ~AttachedSoon
    BY <2>1, <2>3 DEF ReleasedInv, Past
  <2> QED BY <2>1, <2>4, SoonSame
<1>2. ASSUME NEW q \in AllRequests, Request(q) PROVE ~AttachedSoon'
  <2>1. /\ inbox = None /\ inbox' = [cmd |-> q.cmd, arg |-> q.arg, tag |-> tag', len |-> 0]
        /\ now \notin {"done", "check", "keep"} /\ q.cmd = KindAt(now, at)
        /\ UNCHANGED <<iface, attached, dmhalt, resets, plan>>
    BY <1>2, Sends
  <2>2. now' = now
    BY <2>1 DEF now
  <2>3. now = "close"
    BY <2>1, <2>2 DEF Past
  <2>4. q.cmd = "release"
    BY <2>1, <2>3 DEF KindAt
  <2> QED BY <2>1, <2>4, SoonSent
<1>3. CASE CheckPart
  <2>1. /\ now = "check" /\ UNCHANGED <<cmd, sent>>
        /\ now' = "done" => RefusedUnopened'
    BY <1>3, Checks DEF RefusedUnopened
  <2>2. sent' = None
    BY <2>1 DEF TransferInv, Awaited
  <2> QED BY <2>1, <2>2 DEF Past
<1>4. CASE KeepTarget \/ Stop \/ Killed
  <2>1. /\ sent' = None /\ cmd' = cmd
        /\ (now = "keep" /\ now' = "done") \/ now' = "close" \/ lost' = TRUE
    BY <1>4, Leaves
  <2>2. now # "keep"
    <3>1. SUFFICES ASSUME now = "keep" PROVE FALSE
      OBVIOUS
    <3>2. "keep" \in Usual(cmd.name)
      BY <1>0, <3>1, NowStage
    <3> QED BY <2>1, <3>2 DEF Usual, Closers, ResetCommands, DebugCommands, Interactive
  <2> QED BY <2>1, <2>2 DEF Past
<1>5. ASSUME NEW c \in CommandSet, Begin(c) PROVE ~AttachedSoon'
  <2>1. now' = StartStage(c) /\ sent = None /\ sent' = sent
    BY <1>5, Begins
  <2>2. StartStage(c) \notin {"close", "done"}
    BY DEF StartStage
  <2> QED BY <2>1, <2>2 DEF Past
<1>6. CASE Serve
  <2>1. UNCHANGED <<cmd, plan, sent, status, lost>>
    BY <1>6, Serves
  <2>2. now' = now
    BY <2>1 DEF now
  <2>3. ~AttachedSoon
    BY <2>1, <2>2 DEF ReleasedInv, Past, RefusedUnopened
  <2> QED BY <1>6, <2>3, SoonServed
<1>7. CASE Replug
  <2>1. attached' = FALSE /\ inbox'.cmd = "none"
    BY <1>7, Replugged, NoneIs
  <2> QED BY <2>1 DEF AttachedSoon
<1>8. CASE Hang \/ UNCHANGED vars
  <2>1. UNCHANGED <<now, sent, inbox, cmd, status, iface, attached, dmhalt, lost, resets>>
    BY <1>8, Unseen
  <2>2. ~AttachedSoon
    BY <2>1 DEF ReleasedInv, Past, RefusedUnopened
  <2> QED BY <2>1, <2>2, SoonSame
<1> QED BY <1>1, <1>2, <1>3, <1>4, <1>5, <1>6, <1>7, <1>8 DEF Next, Tool, Transfer, User

\* A command that closes the link lets go of the target on every path, unless a
\* request did not go out, the tool was killed, or the command line was refused.
THEOREM TargetReleased == Spec => []Released
<1>1. Init => ReleasedInv
  BY NoneIs DEF Init, ReleasedInv, AttachedSoon
<1>2. TransferInv /\ ReleasedInv => Released
  <2> SUFFICES ASSUME TransferInv, ReleasedInv, Idle, inbox = None, ~lost, ~RefusedUnopened,
                      cmd.name \in Closers
               PROVE  ~attached
    BY DEF Released, Closers
  <2>1. now = "done"
    BY NowDone DEF TransferInv
  <2> QED BY <2>1, NoneIs DEF ReleasedInv, Past, AttachedSoon
<1> QED BY <1>1, <1>2, TransferInit, TransferNext, ReleasedNext, PTL DEF Spec

---------------------------------------------------------------------------
(* Success *)

\* Once the attach has gone out, and as long as nothing has failed, the core is,
\* or soon will be, held; the debug commands have set the interface before.
HaltInv ==
  /\ cmd.name \in {"halt"} \cup ResetCommands /\ status = "ok" =>
       (Past("halt", IF cmd.name = "halt" THEN {"keep", "done"} ELSE {"reset"})
          => (IfaceSoon # NoChip => AttachedSoon))
  /\ cmd.name \in DebugCommands /\ status = "ok" =>
       /\ now # "close"
       /\ Past("select", {"halt", "work", "keep", "done"}) => IfaceSoon # NoChip
       /\ Past("halt", {"work", "keep", "done"}) => AttachedSoon

\* The commands that detect, write and verify nothing, and end.
OneWay == {"halt", "resume"} \cup ResetCommands \cup DebugCommands

\* A command without detection and verification reports success only if it has
\* gone on after each transfer.
LEMMA OkOnward ==
  ASSUME Plans, now # "done", cmd.name \in OneWay, NEW q, NEW s \in {"usb", "target"},
         Onward \/ MovesOn(q, s), status' = "ok"
  PROVE  Onward /\ status = "ok"
<1>1. now \in Usual(cmd.name)
  BY NowStage
<1>2. now \notin {"verify", "cleanup", "detect", "version"}
  BY <1>1 DEF Usual, OneWay, ResetCommands, DebugCommands
<1>3. CASE Onward
  BY <1>2, <1>3 DEF Onward
<1>4. CASE GivenUp(s)
  BY <1>2, <1>4 DEF GivenUp, KeepsStatus, OneWay, ResetCommands, DebugCommands
<1> QED BY <1>3, <1>4 DEF MovesOn

\* After a transfer.
LEMMA HaltMoves ==
  ASSUME TransferInv, HaltInv, now \notin {"done", "check", "keep"}, UNCHANGED cmd, sent' = None,
         sent # None \/ now = "close", NEW q, NEW s \in {"usb", "target"}, Onward \/ MovesOn(q, s),
         UNCHANGED <<inbox, iface, attached, dmhalt, resets>>
  PROVE  HaltInv'
<1>0. Plans /\ now \in Usual(cmd.name) /\ at \in 1 .. Size(now)
  BY NowStage DEF TransferInv, Plans
<1>1. /\ IfaceSoon' = IfaceSoon /\ (AttachedSoon' <=> AttachedSoon)
  BY SoonSame
<1>2. CASE cmd.name = "halt" /\ status' = "ok"
  <2>1. Onward /\ status = "ok"
    BY <1>0, <1>2, OkOnward DEF OneWay
  <2>2. now = "halt" /\ sent # None
    BY <1>0, <1>2 DEF Usual, ResetCommands, DebugCommands
  <2>3. IfaceSoon # NoChip => AttachedSoon
    BY <1>2, <2>1, <2>2 DEF HaltInv, Past
  <2> QED BY <1>1, <1>2, <2>3 DEF HaltInv, ResetCommands, DebugCommands
<1>3. CASE cmd.name \in ResetCommands /\ status' = "ok"
  <2>1. Onward /\ status = "ok"
    BY <1>0, <1>3, OkOnward DEF OneWay
  <2>2. now' = "reset" => (now = "halt" /\ sent # None)
    BY <1>0, <1>3, <2>1 DEF Usual, Onward, Following, Size, ResetCommands, DebugCommands
  <2>3. now' = "reset" => (IfaceSoon # NoChip => AttachedSoon)
    BY <1>3, <2>1, <2>2 DEF HaltInv, Past
  <2>4. Past("halt", {"reset"})' => now' = "reset"
    BY DEF Past
  <2> QED BY <1>1, <1>3, <2>3, <2>4 DEF HaltInv, ResetCommands, DebugCommands
<1>4. CASE cmd.name \in DebugCommands /\ status' = "ok"
  <2>1. Onward /\ status = "ok" /\ now # "close" /\ sent # None
    BY <1>0, <1>4, OkOnward DEF OneWay, HaltInv
  <2>2. now \in {"select", "halt", "work"}
    BY <1>0, <1>4, <2>1 DEF Usual, ResetCommands, DebugCommands
  <2>3. /\ now = "select" => now' = "halt"
        /\ now = "halt" => now' = "work"
        /\ now = "work" => now' \in {"work", "keep"}
    BY <1>0, <1>4, <2>1, <2>2 DEF Onward, Following, Size, ResetCommands, DebugCommands
  <2>4. IfaceSoon # NoChip /\ (now \in {"halt", "work"} => AttachedSoon)
    BY <1>4, <2>1, <2>2 DEF HaltInv, Past
  <2>5. now' # "close"
    BY <2>2, <2>3
  <2>6. Past("halt", {"work", "keep", "done"})' => now \in {"halt", "work"}
    BY <2>2, <2>3 DEF Past
  <2> QED BY <1>1, <1>4, <2>4, <2>5, <2>6 DEF HaltInv, ResetCommands, DebugCommands
<1> QED BY <1>2, <1>3, <1>4 DEF HaltInv

\* When a request goes out.
LEMMA HaltSends ==
  ASSUME TransferInv, HaltInv, now \notin {"done", "check", "keep"}, NEW q \in AllRequests, NEW t,
         inbox = None, inbox' = [cmd |-> q.cmd, arg |-> q.arg, tag |-> t, len |-> 0],
         q.cmd = KindAt(now, at), UNCHANGED <<cmd, plan, status, iface, attached, dmhalt, resets>>
  PROVE  HaltInv'
<1>0. now' = now /\ Plans /\ now \in Usual(cmd.name) /\ at \in 1 .. Size(now)
  BY NowStage DEF TransferInv, Plans, now
<1>1. /\ q.cmd = "iface" => IfaceSoon' = q.arg /\ q.arg # NoChip
      /\ q.cmd # "iface" => IfaceSoon' = IfaceSoon
      /\ q.cmd = "attach" => (IfaceSoon' # NoChip => AttachedSoon')
      /\ q.cmd \notin {"attach", "run", "release"} => (AttachedSoon' <=> AttachedSoon)
  BY SoonSent, AllRequestsKinds, Constants
<1>2. CASE cmd.name \in {"halt"} \cup ResetCommands /\ status = "ok"
  <2>1. Past("halt", IF cmd.name = "halt" THEN {"keep", "done"} ELSE {"reset"})' =>
          now = "halt" \/ (now = "reset" /\ cmd.name # "halt")
    BY <1>0 DEF Past
  <2>2. now = "halt" => q.cmd = "attach"
    BY DEF KindAt
  <2>3. now = "reset" => q.cmd = "reset_low"
    BY DEF KindAt
  <2>4. now = "reset" /\ cmd.name # "halt" => (IfaceSoon # NoChip => AttachedSoon)
    BY <1>2 DEF HaltInv, Past
  <2> QED BY <1>1, <1>2, <2>1, <2>2, <2>3, <2>4 DEF HaltInv, ResetCommands, DebugCommands
<1>3. CASE cmd.name \in DebugCommands /\ status = "ok"
  <2>1. now \in {"select", "halt", "work"}
    BY <1>0, <1>3 DEF Usual, HaltInv, ResetCommands, DebugCommands
  <2>2. /\ now = "select" => q.cmd = "iface"
        /\ now = "halt" => q.cmd = "attach"
        /\ now = "work" => q.cmd = "reg"
    BY DEF KindAt
  <2>3. /\ now \in {"halt", "work"} => IfaceSoon # NoChip
        /\ now = "work" => AttachedSoon
    BY <1>3 DEF HaltInv, Past
  <2>4. /\ IfaceSoon' # NoChip
        /\ now \in {"halt", "work"} => AttachedSoon'
    BY <1>1, <2>1, <2>2, <2>3
  <2> QED BY <1>0, <1>3, <2>1, <2>4 DEF HaltInv, Past, ResetCommands, DebugCommands
<1> QED BY <1>2, <1>3 DEF HaltInv

\* The first half of the invariant behind StatusIsTrue: what has been attached to.
LEMMA HaltNext == TransferInv /\ HaltInv /\ [Next]_vars => HaltInv'
<1> SUFFICES ASSUME TransferInv, HaltInv, [Next]_vars PROVE HaltInv'
  OBVIOUS
<1>0. Plans /\ cmd.name \in Names
  BY DEF TransferInv, Plain, Command
<1>1. CASE Collect
  <2>1. /\ sent # None /\ sent' = None /\ now \notin {"done", "check", "keep"}
        /\ UNCHANGED <<iface, attached, dmhalt, inbox, cmd, resets>>
        /\ Onward \/ MovesOn(sent, "target") \/ MovesOn(sent, "usb")
    BY <1>1, Collects
  <2> QED BY <2>1, HaltMoves
<1>2. ASSUME NEW q \in AllRequests, Request(q) PROVE HaltInv'
  <2>1. /\ sent = None /\ now \notin {"done", "check", "keep"} /\ q.cmd = KindAt(now, at)
        /\ UNCHANGED <<iface, attached, dmhalt, cmd, resets>>
    BY <1>2, Sends
  <2>2. CASE /\ inbox = None /\ inbox' = [cmd |-> q.cmd, arg |-> q.arg, tag |-> tag', len |-> 0]
             /\ UNCHANGED <<plan, status>>
    BY <2>1, <2>2, HaltSends
  <2>3. CASE MovesOn(q, "usb") /\ UNCHANGED <<inbox, sent>>
    <3>1. CASE now = "close"
      BY <2>1, <2>3, <3>1, HaltMoves
    <3>2. CASE now # "close" /\ cmd.name \in OneWay
      <4>1. now \notin {"again", "setup", "loop"}
        <5>1. now \in Usual(cmd.name)
          BY <1>0, <2>1, NowStage
        <5> QED BY <3>2, <5>1 DEF Usual, OneWay, ResetCommands, DebugCommands
      <4>2. ~Unheeded(q)
        BY <3>2, <4>1 DEF Unheeded, Ignored
      <4>3. GivenUp("usb")
        BY <2>3, <4>2 DEF MovesOn
      <4>4. now \notin {"cleanup", "version", "detect"}
        <5>1. now \in Usual(cmd.name)
          BY <1>0, <2>1, NowStage
        <5> QED BY <3>2, <5>1 DEF Usual, OneWay, ResetCommands, DebugCommands
      <4>5. status' = "usb"
        BY <3>2, <4>3, <4>4 DEF GivenUp, KeepsStatus, OneWay, ResetCommands, DebugCommands
      <4> QED BY <4>5 DEF HaltInv
    <3>3. CASE cmd.name \notin OneWay
      BY <2>1, <3>3 DEF HaltInv, OneWay
    <3> QED BY <3>1, <3>2, <3>3
  <2> QED BY <1>2, <2>2, <2>3, Sends
<1>3. CASE CheckPart
  <2>1. cmd.name = "flash" /\ cmd' = cmd
    BY <1>3, Checks
  <2> QED BY <2>1 DEF HaltInv, ResetCommands, DebugCommands
<1>4. CASE KeepTarget \/ Stop \/ Killed
  <2>1. /\ now # "done" /\ sent' = None /\ UNCHANGED <<iface, attached, dmhalt, inbox, cmd, resets>>
        /\ \/ now = "keep" /\ now' = "done" /\ status' = status
           \/ now = "loop" /\ now' = "close" /\ status' = status
           \/ status' = "killed"
    BY <1>4, Leaves DEF programmer, boxes
  <2>2. now \in Usual(cmd.name)
    BY <1>0, <2>1, NowStage
  <2>3. CASE now = "keep" /\ now' = "done" /\ status' = status
    <3>1. /\ IfaceSoon' = IfaceSoon /\ (AttachedSoon' <=> AttachedSoon)
      BY <2>1, SoonSame
    <3>2. cmd.name \notin ResetCommands
      BY <2>2, <2>3 DEF Usual, ResetCommands, DebugCommands
    <3> QED BY <2>1, <2>3, <3>1, <3>2 DEF HaltInv, Past
  <2>4. CASE now = "loop"
    <3>1. cmd.name \notin OneWay
      BY <2>2, <2>4 DEF Usual, OneWay, ResetCommands, DebugCommands
    <3> QED BY <2>1, <3>1 DEF HaltInv, OneWay
  <2>5. CASE status' = "killed"
    BY <2>5 DEF HaltInv
  <2> QED BY <2>1, <2>3, <2>4, <2>5
<1>5. ASSUME NEW c \in CommandSet, Begin(c) PROVE HaltInv'
  <2>1. now' = StartStage(c) /\ sent' = None /\ cmd' = c
    BY <1>5, Begins
  <2>2. /\ StartStage(c) \notin {"keep", "done", "reset", "close", "work"}
        /\ c.name \in DebugCommands => StartStage(c) = "select"
    BY DEF StartStage, DebugCommands, ResetCommands
  <2> QED BY <2>1, <2>2 DEF HaltInv, Past
<1>6. CASE Serve
  <2>1. UNCHANGED <<cmd, plan, sent, status>>
    BY <1>6, Serves
  <2>2. now' = now /\ IfaceSoon' = IfaceSoon /\ (AttachedSoon' <=> AttachedSoon)
    BY <1>6, <2>1, SoonServed DEF now
  <2> QED BY <2>1, <2>2 DEF HaltInv, Past
<1>7. CASE Replug
  BY <1>7, Replugged DEF HaltInv
<1>8. CASE Hang \/ UNCHANGED vars
  <2>1. UNCHANGED <<now, sent, inbox, cmd, status, iface, attached, dmhalt, resets>>
    BY <1>8, Unseen
  <2>2. IfaceSoon' = IfaceSoon /\ (AttachedSoon' <=> AttachedSoon)
    BY <2>1, SoonSame
  <2> QED BY <2>1, <2>2 DEF HaltInv, Past
<1> QED BY <1>1, <1>2, <1>3, <1>4, <1>5, <1>6, <1>7, <1>8 DEF Next, Tool, Transfer, User

\* A clean-up is followed by the end of the command only when its routine has
\* failed, and the status says so.
ClearingInv ==
  Len(plan) >= 2 /\ plan[Len(plan) - 1] = "cleanup" =>
    plan = <<"cleanup", "close">> /\ status \notin {"ok", "verify"}

\* No clean-up comes last before the end in what a command line asks for.
LEMMA NoneCleared ==
  ASSUME NEW c \in CommandSet
  PROVE  ~(Len(Plan(c)) >= 2 /\ Plan(c)[Len(Plan(c)) - 1] = "cleanup")
<1>0. c.name \in Names
  BY CommandAssumption DEF Command
<1>1. Plan(c) \in Seq(Stages) /\ Planned(c.name, Plan(c)) /\ Plan(c) # <<>>
  BY PlanOf, SegmentPlanned
<1>2. CASE c.name # "flash"
  <2>1. "cleanup" \notin Usual(c.name)
    BY <1>2 DEF Usual, ResetCommands, DebugCommands
  <2>2. Len(Plan(c)) \in Nat /\ \A i \in 1 .. Len(Plan(c)) : Plan(c)[i] \in Usual(c.name)
    BY <1>1 DEF Planned
  <2>3. Len(Plan(c)) >= 2 => Len(Plan(c)) - 1 \in 1 .. Len(Plan(c))
    BY <2>2
  <2> HIDE DEF Plan
  <2> QED BY <2>1, <2>2, <2>3
<1>3. CASE c.name = "flash"
  <2> DEFINE p == Detecting(c) \o <<"check">> \o wl_linke_write_flash(c)
  <2>1. Plan(c) = p \o <<"close">>
    BY <1>3 DEF Plan, cmd_flash, ResetCommands, DebugCommands
  <2>2. Segment("flash", p, StartStage(c), "resume")
    BY <1>3, FlashPlan
  <2>3. p \in Seq(Stages) /\ p[Len(p)] = "resume" /\ p # <<>>
    BY <2>2 DEF Segment
  <2> HIDE DEF p
  <2>4. Len(p) \in Nat /\ Len(p) >= 1 /\ <<"close">> \in Seq(Stages) /\ Len(<<"close">>) = 1
    BY <2>3 DEF Stages
  <2>5. Len(p \o <<"close">>) = Len(p) + 1 /\ (p \o <<"close">>)[Len(p)] = p[Len(p)]
    BY <2>3, <2>4
  <2>6. Len(Plan(c)) - 1 = Len(p)
    BY <2>1, <2>4, <2>5
  <2> QED BY <2>1, <2>3, <2>5, <2>6
<1> QED BY <1>2, <1>3

\* What is left of a plan leaves no clean-up last that was not.
LEMMA TailCleared ==
  ASSUME NEW p \in Seq(Stages), p # <<>>, Len(Tail(p)) >= 2
  PROVE  /\ Len(p) >= 3 /\ Tail(p)[Len(Tail(p)) - 1] = p[Len(p) - 1]
         /\ (<<"again">> \o Tail(p))[Len(<<"again">> \o Tail(p)) - 1] = p[Len(p) - 1]
<1> DEFINE t == Tail(p)
<1>1. /\ Len(p) \in Nat /\ Len(p) >= 1 /\ t \in Seq(Stages) /\ Len(t) = Len(p) - 1
      /\ \A i \in 1 .. Len(p) - 1 : t[i] = p[i + 1]
  OBVIOUS
<1>2. Len(p) >= 3 /\ Len(t) - 1 \in 1 .. Len(p) - 1 /\ (Len(t) - 1) + 1 = Len(p) - 1
  BY <1>1
<1>3. t[Len(t) - 1] = p[Len(p) - 1]
  BY <1>1, <1>2
<1>4. <<"again">> \in Seq(Stages) /\ Len(<<"again">>) = 1
  BY DEF Stages
<1> HIDE DEF t
<1>5. /\ Len(<<"again">> \o t) = 1 + Len(t)
      /\ \A i \in 1 .. Len(t) : (<<"again">> \o t)[1 + i] = t[i]
  BY <1>1, <1>4
<1>6. Len(t) - 1 \in 1 .. Len(t) /\ Len(<<"again">> \o t) - 1 = 1 + (Len(t) - 1)
  BY <1>1, <1>2, <1>5
<1>7. (<<"again">> \o t)[Len(<<"again">> \o t) - 1] = t[Len(t) - 1]
  BY <1>5, <1>6
<1> QED BY <1>2, <1>3, <1>7 DEF t

\* After a stage that went well, or whose failure changes nothing.
LEMMA ClearingTail ==
  ASSUME TransferInv, ClearingInv, ~Idle, plan' \in {Tail(plan), <<"again">> \o Tail(plan)}
  PROVE  ClearingInv'
<1>1. plan \in Seq(Stages) /\ plan # <<>>
  BY DEF TransferInv, Plans, Idle
<1>2. Len(plan) >= 3 => plan # <<"cleanup", "close">>
  <2>1. Len(<<"cleanup", "close">>) = 2
    OBVIOUS
  <2> QED BY <2>1
<1>3. SUFFICES ASSUME Len(plan') >= 2, plan'[Len(plan') - 1] = "cleanup" PROVE FALSE
  BY DEF ClearingInv
<1>4. CASE Len(Tail(plan)) >= 2
  <2>1. Len(plan) >= 3 /\ plan'[Len(plan') - 1] = plan[Len(plan) - 1]
    BY <1>1, <1>4, TailCleared
  <2> QED BY <1>2, <1>3, <2>1 DEF ClearingInv
<1>5. CASE ~(Len(Tail(plan)) >= 2)
  <2> DEFINE t == Tail(plan)
  <2>1. t \in Seq(Stages) /\ Len(t) \in Nat /\ <<"again">> \in Seq(Stages) /\ Len(<<"again">>) = 1
    BY <1>1 DEF Stages
  <2> HIDE DEF t
  <2>2. Len(<<"again">> \o t) = 1 + Len(t) /\ (<<"again">> \o t)[1] = "again"
    BY <2>1
  <2>3. CASE plan' = t
    BY <1>3, <1>5, <2>3 DEF t
  <2>4. CASE plan' = <<"again">> \o t
    <3>1. Len(t) <= 1
      BY <1>5, <2>1 DEF t
    <3>2. Len(plan') - 1 = 1
      BY <1>3, <2>1, <2>2, <2>4, <3>1
    <3> QED BY <1>3, <2>2, <2>4, <3>2
  <2> QED BY <2>3, <2>4 DEF t
<1> QED BY <1>4, <1>5

\* A plan of one stage, or of none.
LEMMA ClearingEnd ==
  ASSUME plan' \in {<<>>, <<"close">>, <<"keep">>}
  PROVE  ClearingInv'
<1>1. Len(<<>>) = 0 /\ Len(<<"close">>) = 1 /\ Len(<<"keep">>) = 1
  OBVIOUS
<1>2. CASE plan' = <<>>
  BY <1>1, <1>2 DEF ClearingInv
<1>3. CASE plan' = <<"close">>
  BY <1>1, <1>3 DEF ClearingInv
<1>4. CASE plan' = <<"keep">>
  BY <1>1, <1>4 DEF ClearingInv
<1> QED BY <1>2, <1>3, <1>4

\* It is kept by the end of a transfer.
LEMMA ClearingMoves ==
  ASSUME TransferInv, ClearingInv, ~Idle, NEW q, NEW s \in {"usb", "target"},
         Advance \/ Fails(q, s)
  PROVE  ClearingInv'
<1>1. CASE Advance
  <2>1. CASE UNCHANGED <<plan, status>>
    BY <2>1 DEF ClearingInv
  <2>2. CASE Proceed(Tail(plan))
    BY <2>2, ClearingTail DEF Proceed
  <2> QED BY <1>1, <2>1, <2>2 DEF Advance
<1>2. CASE plan' \in AfterFailure(Stage) /\ status' = IF KeepsStatus(Stage) \/ Stage = "detect" THEN status ELSE s
  <2>1. CASE plan' \in {Tail(plan), <<"again">> \o Tail(plan)}
    BY <2>1, ClearingTail
  <2>2. CASE plan' \in {<<"close">>, <<"keep">>}
    BY <2>2, ClearingEnd
  <2>3. CASE plan' = <<"cleanup", "close">> /\ Stage = "work"
    <3>1. status' = s
      BY <1>2, <2>3 DEF KeepsStatus
    <3> QED BY <2>3, <3>1 DEF ClearingInv
  <2> QED BY <1>2, <2>1, <2>2, <2>3 DEF AfterFailure
<1> QED BY <1>1, <1>2 DEF Fails

\* And by every step.
LEMMA ClearingNext == TransferInv /\ ClearingInv /\ [Next]_vars => ClearingInv'
<1> SUFFICES ASSUME TransferInv, ClearingInv, [Next]_vars PROVE ClearingInv'
  OBVIOUS
<1>1. CASE Collect
  <2>1. ~Idle
    BY <1>1, Collects, NowDone DEF TransferInv
  <2>2. Advance \/ Fails(sent, "target") \/ Fails(sent, "usb")
    BY <1>1 DEF Collect
  <2> QED BY <2>1, <2>2, ClearingMoves
<1>2. ASSUME NEW q \in AllRequests, Request(q) PROVE ClearingInv'
  <2>1. ~Idle /\ (UNCHANGED <<plan, status>> \/ Fails(q, "usb"))
    BY <1>2 DEF Request
  <2>2. CASE UNCHANGED <<plan, status>>
    BY <2>2 DEF ClearingInv
  <2> QED BY <2>1, <2>2, ClearingMoves
<1>3. CASE CheckPart
  <2>1. ~Idle /\ plan' \in {Tail(plan), <<>>, <<"close">>}
    BY <1>3 DEF CheckPart, Refuse, Proceed
  <2> QED BY <2>1, ClearingTail, ClearingEnd
<1>4. CASE KeepTarget \/ Stop \/ Killed
  <2>1. ~Idle /\ plan' \in {Tail(plan), <<>>}
    BY <1>4 DEF KeepTarget, Stop, Killed, Proceed
  <2> QED BY <2>1, ClearingTail, ClearingEnd
<1>5. ASSUME NEW c \in CommandSet, Begin(c) PROVE ClearingInv'
  <2>1. plan' = Plan(c)
    BY <1>5 DEF Begin
  <2> QED BY <2>1, NoneCleared DEF ClearingInv
<1>6. CASE Serve
  <2>1. UNCHANGED <<plan, status>>
    BY <1>6, Serves
  <2> QED BY <2>1 DEF ClearingInv
<1>7. CASE Replug
  <2>1. plan' = <<>>
    BY <1>7 DEF Replug, Idle
  <2> QED BY <2>1, ClearingEnd
<1>8. CASE Hang \/ UNCHANGED vars
  <2>1. UNCHANGED <<plan, status>>
    BY <1>8 DEF Hang, vars, tool
  <2> QED BY <2>1 DEF ClearingInv
<1> QED BY <1>1, <1>2, <1>3, <1>4, <1>5, <1>6, <1>7, <1>8 DEF Next, Tool, Transfer, User

\* So that a command that has not failed goes on after a clean-up.
LEMMA ClearingGoesOn ==
  ASSUME TransferInv, ClearingInv, now = "cleanup", status \in {"ok", "verify"}
  PROVE  First(Tail(plan)) # "close"
<1>1. SUFFICES ASSUME First(Tail(plan)) = "close" PROVE FALSE
  OBVIOUS
<1>2. /\ plan \in Seq(Stages) /\ plan # <<>> /\ Head(plan) = "cleanup" /\ cmd.name \in Names
      /\ Planned(cmd.name, plan)
  BY NowStage DEF TransferInv, Plans, Stage, Plain, Command
<1>3. /\ Len(plan) \in Nat /\ Len(plan) >= 1 /\ plan[1] = "cleanup" /\ Len(Tail(plan)) = Len(plan) - 1
      /\ \A i \in 1 .. Len(plan) - 1 : Tail(plan)[i] = plan[i + 1]
  BY <1>2
<1>4. Tail(plan) # <<>> /\ Tail(plan)[1] = "close"
  BY <1>1, <1>2 DEF First
<1>5. Len(plan) >= 2
  <2>1. Tail(plan) \in Seq(Stages)
    BY <1>2
  <2>2. Len(Tail(plan)) >= 1
    BY <1>4, <2>1
  <2> QED BY <1>3, <2>2
<1>6. plan[2] = "close"
  BY <1>3, <1>4, <1>5
<1>7. CASE Len(plan) = 2
  BY <1>3, <1>7 DEF ClearingInv
<1>8. CASE Len(plan) >= 3
  <2>1. plan[3] \in Following(cmd.name, plan[2]) /\ plan[3] \in Usual(cmd.name)
    BY <1>2, <1>3, <1>8 DEF Planned
  <2>2. "done" \notin Usual(cmd.name)
    BY DEF Usual
  <2> QED BY <1>6, <2>1, <2>2 DEF Following
<1> QED BY <1>3, <1>5, <1>7, <1>8

\* A command that will say that the core runs, and has not failed.
Resuming ==
  \/ cmd.name \in ResetCommands \cup {"resume"} /\ status = "ok"
  \/ cmd.name = "flash" /\ status \in {"ok", "verify"} /\ ~failed

\* Once reset and run have gone out, the core was reset and, from the last release
\* on, runs.
ResumeInv ==
  /\ cmd.name \in ResetCommands /\ status = "ok" =>
       (Past("reset", {"resume", "close", "done"}) => (IfaceSoon # NoChip => ResetsSoon))
  /\ Resuming =>
       /\ Past("resume", {"close", "done"}) \/ (now = "resume" /\ at > 1) => ~DmhaltSoon
       /\ (now = "resume" /\ at = 3 /\ sent # None) \/ now \in {"close", "done"} => ~AttachedSoon

\* What StatusIsTrue rests on.
StatusInv == HaltInv /\ ClearingInv /\ ResumeInv

\* The commands whose success says that the core runs.
Resumers == ResetCommands \cup {"resume", "flash"}

\* After a transfer that has not failed for want of a reply.
LEMMA ResumeMoves ==
  ASSUME TransferInv, ClearingInv, ResumeInv, now \notin {"done", "check", "keep"}, UNCHANGED cmd,
         sent' = None, sent # None \/ now = "close",
         UNCHANGED <<inbox, iface, attached, dmhalt, resets>>,
         \/ Onward
         \/ GivenUp("target") /\ now # "resume"
         \/ GivenUp("usb") /\ failed' = TRUE,
         failed' = failed \/ failed' = TRUE
  PROVE  ResumeInv'
<1>0. Plans /\ now \in Usual(cmd.name) /\ at \in 1 .. Size(now)
  BY NowStage DEF TransferInv, Plans
<1>1. /\ IfaceSoon' = IfaceSoon /\ (AttachedSoon' <=> AttachedSoon)
      /\ (DmhaltSoon' <=> DmhaltSoon) /\ (ResetsSoon' <=> ResetsSoon)
  BY SoonSame
<1>2. ASSUME cmd.name \in ResetCommands, status' = "ok", now' \in {"resume", "close", "done"}
      PROVE  IfaceSoon # NoChip => ResetsSoon
  <2>1. Onward /\ status = "ok"
    BY <1>0, <1>2, OkOnward DEF OneWay, MovesOn, GivenUp, KeepsStatus, Usual, ResetCommands, DebugCommands
  <2>2. now \in {"resume", "close"} \/ (now = "reset" /\ sent # None)
    BY <1>0, <1>2, <2>1 DEF Usual, Onward, Following, Size, ResetCommands, DebugCommands
  <2> QED BY <1>2, <2>1, <2>2 DEF ResumeInv, Past
<1>3. ASSUME Resuming'
      PROVE  /\ now' \in {"close", "done"} \/ (now' = "resume" /\ at' > 1) => ~DmhaltSoon
             /\ now' \in {"close", "done"} => ~AttachedSoon
  <2>1. cmd.name \in Resumers
    BY <1>3 DEF Resuming, Resumers
  <2>2. now \notin {"loop", "setup", "version"}
    BY <1>0, <2>1 DEF Usual, Resumers, ResetCommands, DebugCommands
  <2>3. CASE Onward
    <3>1. now' = now \/ now' \in Following(cmd.name, now)
      BY <2>3 DEF Onward
    <3>2. now = "verify" \/ Resuming
      BY <1>3, <2>3 DEF Resuming, Onward
    <3>3. CASE now = "verify"
      BY <2>3, <3>3 DEF Onward, Following
    <3>4. CASE now # "verify" /\ Resuming
      <4>1. CASE now = "cleanup"
        <5>1. cmd.name = "flash"
          BY <1>0, <2>1, <4>1 DEF Usual, Resumers, ResetCommands, DebugCommands
        <5>2. status \in {"ok", "verify"}
          BY <3>4, <5>1 DEF Resuming, ResetCommands
        <5>3. First(Tail(plan)) # "close"
          BY <4>1, <5>2, ClearingGoesOn
        <5>4. now' = "cleanup" \/ (now' \in {"work", "verify", "resume"} /\ at' = 1)
          BY <2>3, <4>1, <5>3 DEF Onward, Following
        <5> QED BY <5>4
      <4>2. CASE now = "resume"
        <5>1. sent # None
          BY <4>2
        <5>2. ~DmhaltSoon /\ (at = 3 => ~AttachedSoon)
          BY <3>4, <4>2, <5>1 DEF ResumeInv, Past
        <5>3. now' = "close" => at = 3
          BY <2>3, <4>2 DEF Onward, Size
        <5>4. now' \in {"resume", "close"}
          BY <2>1, <2>3, <4>2 DEF Onward, Following, Resumers, ResetCommands
        <5> QED BY <5>2, <5>3, <5>4
      <4>3. CASE now = "close"
        <5>1. ~DmhaltSoon /\ ~AttachedSoon
          BY <3>4, <4>3 DEF ResumeInv, Past
        <5> QED BY <5>1
      <4>4. CASE now \notin {"resume", "close", "verify", "cleanup"}
        <5>1. now' \notin {"close", "done"} /\ (now' = "resume" => at' = 1)
          BY <1>0, <2>1, <2>2, <2>3, <4>4 DEF Onward, Following, Usual, Resumers, ResetCommands, DebugCommands
        <5> QED BY <5>1
      <4> QED BY <3>4, <4>1, <4>2, <4>3, <4>4
    <3> QED BY <3>2, <3>3, <3>4
  <2>4. CASE (GivenUp("target") /\ now # "resume") \/ (GivenUp("usb") /\ failed' = TRUE)
    <3>1. status' \in {"ok", "verify"}
      BY <1>3 DEF Resuming
    <3>2. status' = status /\ (now \in {"cleanup", "detect"} \/ (now = "resume" /\ cmd.name = "flash"))
      BY <2>2, <2>4, <3>1 DEF GivenUp, KeepsStatus
    <3>3. CASE now = "resume"
      BY <1>3, <2>4, <3>2, <3>3 DEF Resuming, ResetCommands
    <3>4. CASE now = "cleanup"
      <4>1. cmd.name = "flash"
        BY <1>0, <2>1, <3>4 DEF Usual, Resumers, ResetCommands, DebugCommands
      <4>2. ~failed' /\ status' \in {"ok", "verify"}
        BY <1>3, <4>1 DEF Resuming, ResetCommands
      <4>3. First(Tail(plan)) # "close"
        BY <3>2, <3>4, <4>2, ClearingGoesOn
      <4>4. now' \in {"work", "verify", "resume"} /\ at' = 1
        BY <2>4, <3>4, <4>3 DEF GivenUp, Instead, Following
      <4> QED BY <4>4
    <3>5. CASE now = "detect"
      BY <2>4, <3>5 DEF GivenUp, Instead
    <3> QED BY <3>2, <3>3, <3>4, <3>5
  <2> QED BY <2>3, <2>4
<1>4. /\ Past("reset", {"resume", "close", "done"})' => now' \in {"resume", "close", "done"}
      /\ Past("resume", {"close", "done"})' => now' \in {"close", "done"}
  BY DEF Past
<1> QED BY <1>1, <1>2, <1>3, <1>4 DEF ResumeInv

\* When a request goes out.
LEMMA ResumeSends ==
  ASSUME TransferInv, HaltInv, ResumeInv, now \notin {"done", "check", "keep"},
         NEW q \in AllRequests, NEW t,
         inbox = None, inbox' = [cmd |-> q.cmd, arg |-> q.arg, tag |-> t, len |-> 0],
         q.cmd = KindAt(now, at),
         UNCHANGED <<cmd, plan, at, status, failed, iface, attached, dmhalt, resets>>
  PROVE  ResumeInv'
<1>0. now' = now /\ Plans /\ now \in Usual(cmd.name) /\ at \in 1 .. Size(now)
  BY NowStage DEF TransferInv, Plans, now
<1>1. /\ q.cmd # "iface" => IfaceSoon' = IfaceSoon
      /\ q.cmd \in {"run", "release"} => ~AttachedSoon'
      /\ q.cmd \notin {"attach", "run", "release"} => (AttachedSoon' <=> AttachedSoon)
      /\ q.cmd = "run" => ~DmhaltSoon'
      /\ q.cmd \notin {"run", "reg"} => (DmhaltSoon' <=> DmhaltSoon)
      /\ q.cmd = "reset_low" => (AttachedSoon => ResetsSoon')
      /\ ResetsSoon => ResetsSoon'
  BY SoonSent
<1>2. /\ now = "reset" => q.cmd = "reset_low"
      /\ now = "close" => q.cmd = "release"
      /\ now = "resume" => q.cmd = (IF at = 1 THEN "run" ELSE IF at = 2 THEN "attach" ELSE "release")
  BY <1>0 DEF KindAt, Size
<1>3. ASSUME cmd.name \in ResetCommands, status = "ok", now \in {"reset", "resume", "close"}
      PROVE  IfaceSoon' # NoChip => ResetsSoon'
  <2>1. CASE now = "reset"
    <3>1. IfaceSoon # NoChip => AttachedSoon
      BY <1>3, <2>1 DEF HaltInv, Past, ResetCommands
    <3> QED BY <1>1, <1>2, <2>1, <3>1
  <2>2. CASE now \in {"resume", "close"}
    <3>1. IfaceSoon # NoChip => ResetsSoon
      BY <1>3, <2>2 DEF ResumeInv, Past
    <3>2. q.cmd # "iface"
      BY <1>2, <2>2
    <3> QED BY <1>1, <3>1, <3>2
  <2> QED BY <1>3, <2>1, <2>2
<1>4. ASSUME Resuming
      PROVE  /\ now \in {"resume", "close"} => ~DmhaltSoon'
             /\ (now = "resume" /\ at = 3) \/ now = "close" => ~AttachedSoon'
  <2>1. CASE now = "resume"
    <3>1. at > 1 => ~DmhaltSoon
      BY <1>4, <2>1 DEF ResumeInv
    <3>2. at \in 1 .. 3
      BY <1>0, <2>1 DEF Size
    <3> QED BY <1>1, <1>2, <2>1, <3>1, <3>2
  <2>2. CASE now = "close"
    <3>1. ~DmhaltSoon
      BY <1>4, <2>2 DEF ResumeInv, Past
    <3> QED BY <1>1, <1>2, <2>2, <3>1
  <2> QED BY <2>1, <2>2
<1>5. /\ Past("reset", {"resume", "close", "done"})' => now \in {"reset", "resume", "close"}
      /\ Past("resume", {"close", "done"})' => now \in {"resume", "close"}
      /\ Resuming' => Resuming
  BY <1>0 DEF Past, Resuming
<1> QED BY <1>0, <1>3, <1>4, <1>5 DEF ResumeInv

\* The second half: what has been reset and runs again.
LEMMA ResumeNext == TransferInv /\ StatusInv /\ [Next]_vars => ResumeInv'
<1> SUFFICES ASSUME TransferInv, HaltInv, ClearingInv, ResumeInv, [Next]_vars PROVE ResumeInv'
  BY DEF StatusInv
<1>0. Plans /\ cmd.name \in Names
  BY DEF TransferInv, Plain, Command
<1>1. CASE Collect
  <2>1. /\ sent # None /\ sent' = None /\ now \notin {"done", "check", "keep"}
        /\ UNCHANGED <<iface, attached, dmhalt, inbox, cmd, resets>>
        /\ failed' = failed \/ failed' = TRUE
        /\ sent.cmd = KindAt(now, at)
    BY <1>1, Collects, SentIs
  <2>2. \/ Onward
        \/ GivenUp("target") /\ ~Accepts(sent, now, outbox)
        \/ GivenUp("usb") /\ failed' = TRUE
    BY <1>1, Collects DEF MovesOn
  <2>3. now = "resume" => Accepts(sent, now, outbox)
    BY <2>1 DEF KindAt, Accepts
  <2> QED BY <2>1, <2>2, <2>3, ResumeMoves
<1>2. ASSUME NEW q \in AllRequests, Request(q) PROVE ResumeInv'
  <2>1. /\ sent = None /\ now \notin {"done", "check", "keep"} /\ q.cmd = KindAt(now, at)
        /\ UNCHANGED <<iface, attached, dmhalt, cmd, resets>>
    BY <1>2, Sends
  <2>2. CASE /\ inbox = None /\ inbox' = [cmd |-> q.cmd, arg |-> q.arg, tag |-> tag', len |-> 0]
             /\ UNCHANGED <<plan, at, status, failed>>
    BY <2>1, <2>2, ResumeSends
  <2>3. CASE MovesOn(q, "usb") /\ failed' = TRUE /\ UNCHANGED <<inbox, sent>>
    <3>1. CASE now = "close"
      BY <2>1, <2>3, <3>1, ResumeMoves DEF MovesOn
    <3>2. CASE now # "close" /\ cmd.name \in OneWay
      <4>1. now \in Usual(cmd.name)
        BY <1>0, <2>1, NowStage
      <4>2. now \notin {"again", "setup", "loop", "cleanup", "version", "detect"}
        BY <3>2, <4>1 DEF Usual, OneWay, ResetCommands, DebugCommands
      <4>3. ~Unheeded(q)
        BY <3>2, <4>2 DEF Unheeded, Ignored
      <4>4. GivenUp("usb")
        BY <2>3, <4>3 DEF MovesOn
      <4>5. status' = "usb"
        BY <3>2, <4>2, <4>4 DEF GivenUp, KeepsStatus, OneWay, ResetCommands, DebugCommands
      <4> QED BY <2>3, <4>5 DEF ResumeInv, Resuming
    <3>3. CASE cmd.name \notin OneWay
      BY <2>1, <2>3, <3>3 DEF ResumeInv, Resuming, OneWay
    <3> QED BY <3>1, <3>2, <3>3
  <2> QED BY <1>2, <2>2, <2>3, Sends
<1>3. CASE CheckPart
  <2>1. /\ cmd.name = "flash" /\ cmd' = cmd
        /\ now' = "select" \/ status' \in {"usage", "not_implemented"}
    BY <1>3, Checks
  <2> QED BY <2>1 DEF ResumeInv, Resuming, Past, ResetCommands
<1>4. CASE KeepTarget \/ Stop \/ Killed
  <2>1. /\ now # "done" /\ cmd' = cmd
        /\ (now \in {"keep", "loop"} \/ status' = "killed")
    BY <1>4, Leaves
  <2>2. now \in Usual(cmd.name)
    BY <1>0, <2>1, NowStage
  <2>3. CASE now \in {"keep", "loop"}
    <3>1. cmd.name \notin Resumers
      BY <2>2, <2>3 DEF Usual, Resumers, ResetCommands, DebugCommands
    <3> QED BY <2>1, <3>1 DEF ResumeInv, Resuming, Resumers
  <2>4. CASE status' = "killed"
    BY <2>4 DEF ResumeInv, Resuming
  <2> QED BY <2>1, <2>3, <2>4
<1>5. ASSUME NEW c \in CommandSet, Begin(c) PROVE ResumeInv'
  <2>1. now' = StartStage(c) /\ sent' = None /\ cmd' = c /\ at' = 1
    BY <1>5, Begins
  <2>2. /\ StartStage(c) \notin {"keep", "done", "reset", "close"}
        /\ c.name \in ResetCommands => StartStage(c) = "halt"
    BY DEF StartStage, DebugCommands, ResetCommands
  <2> QED BY <2>1, <2>2 DEF ResumeInv, Past
<1>6. CASE Serve
  <2>1. UNCHANGED <<cmd, plan, at, sent, status, failed>>
    BY <1>6, Serves
  <2>2. /\ now' = now /\ IfaceSoon' = IfaceSoon /\ (AttachedSoon' <=> AttachedSoon)
        /\ (DmhaltSoon' <=> DmhaltSoon) /\ (ResetsSoon' <=> ResetsSoon)
    BY <1>6, <2>1, SoonServed DEF now
  <2> QED BY <2>1, <2>2 DEF ResumeInv, Resuming, Past
<1>7. CASE Replug
  BY <1>7, Replugged DEF ResumeInv, Resuming
<1>8. CASE Hang \/ UNCHANGED vars
  <2>1. UNCHANGED <<now, at, sent, inbox, cmd, status, failed, iface, attached, dmhalt, resets>>
    BY <1>8, Unseen
  <2>2. /\ IfaceSoon' = IfaceSoon /\ (AttachedSoon' <=> AttachedSoon)
        /\ (DmhaltSoon' <=> DmhaltSoon) /\ (ResetsSoon' <=> ResetsSoon)
    BY <2>1, SoonSame
  <2> QED BY <2>1, <2>2 DEF ResumeInv, Resuming, Past
<1> QED BY <1>1, <1>2, <1>3, <1>4, <1>5, <1>6, <1>7, <1>8 DEF Next, Tool, Transfer, User

\* What a command that returned WL_OK says of the core is true, whatever the
\* commands before it left behind and whether or not replies were late.
THEOREM StatusTrue == Spec => []StatusIsTrue
<1>1. Init => StatusInv
  <2> SUFFICES ASSUME Init PROVE StatusInv
    OBVIOUS
  <2>1. plan = <<>> /\ Len(<<>>) = 0
    BY DEF Init
  <2> QED BY <2>1 DEF Init, StatusInv, HaltInv, ClearingInv, ResumeInv, Resuming
<1>2. TransferInv /\ StatusInv => StatusIsTrue
  <2> SUFFICES ASSUME TransferInv, StatusInv, Idle, inbox = None PROVE StatusIsTrue
    BY DEF StatusIsTrue, Returned
  <2>1. /\ now = "done" /\ IfaceSoon = iface /\ (AttachedSoon <=> attached)
        /\ (DmhaltSoon <=> dmhalt) /\ (ResetsSoon <=> resets)
    BY NowDone, NoneIs DEF TransferInv, IfaceSoon, AttachedSoon, DmhaltSoon, ResetsSoon
  <2>2. status = "ok" /\ cmd.name = "halt" /\ iface # NoChip => attached
    BY <2>1 DEF StatusInv, HaltInv, Past
  <2>3. status = "ok" /\ cmd.name \in DebugCommands => attached
    BY <2>1 DEF StatusInv, HaltInv, Past
  <2>4. status = "ok" /\ cmd.name \in ResetCommands => (iface # NoChip => resets)
    BY <2>1 DEF StatusInv, ResumeInv, Past
  <2>5. Resuming => ~Halted
    BY <2>1 DEF StatusInv, ResumeInv, Past, Halted
  <2> QED BY <2>2, <2>3, <2>4, <2>5 DEF StatusIsTrue, Returned, Resuming
<1>3. TransferInv /\ StatusInv /\ [Next]_vars => StatusInv'
  BY HaltNext, ClearingNext, ResumeNext DEF StatusInv
<1> QED BY <1>1, <1>2, <1>3, TransferInit, TransferNext, PTL DEF Spec

---------------------------------------------------------------------------
(* Identification *)

\* A command that began with empty boxes and whose transfers all succeeded finds
\* at most its own message in them.
InSync == synced /\ ~failed /\ now # "done" =>
            /\ sent = None => inbox = None /\ outbox = None
            /\ inbox = None \/ outbox = None

\* A command that detects the part, and whose transfers have all succeeded.
Identifying ==
  cmd.chip = NoChip /\ cmd.name \in {"info", "flash", "read", "terminal"} /\ synced /\ ~failed

\* Such a command sets the interface first, so that nothing is refused; its second
\* attempt lets go before it attaches, so that the attach is answered with the id.
IdentifyInv ==
  Identifying =>
    /\ status = "target" => Matching(part) = {}
    /\ now # "done" =>
         /\ now # "detect" \/ at = 2 \/ sent # None => IfaceSoon # NoChip
         /\ inbox.cmd = "reg" => iface # NoChip
         /\ outbox.cmd # "refused"
         /\ now = "again" /\ (at > 1 \/ sent # None) /\ ~(at = 4 /\ sent # None) => ~AttachedSoon
         /\ now = "again" /\ at = 4 /\ sent # None =>
              /\ inbox # None => ~attached /\ iface # NoChip
              /\ inbox = None => outbox.len = 8

\* A transfer that has not failed brought a reply.
LEMMA Collected ==
  ASSUME TransferInv, Collect, ~failed'
  PROVE  /\ outbox # None /\ failed' = failed
         /\ \/ Accepts(sent, now, outbox) /\ Onward
            \/ ~Accepts(sent, now, outbox) /\ MovesOn(sent, "target")
<1>1. \/ /\ outbox # None /\ failed' = failed
         /\ \/ Accepts(sent, now, outbox) /\ Onward
            \/ ~Accepts(sent, now, outbox) /\ MovesOn(sent, "target")
      \/ failed' = TRUE
  BY Collects
<1>2. failed' # TRUE
  BY Zenon
<1> QED BY <1>1, <1>2

\* A command that began with nothing left over, and has had every reply, has
\* nothing left over.
LEMMA SyncNext == TransferInv /\ InSync /\ [Next]_vars => InSync'
<1> SUFFICES ASSUME TransferInv, InSync, [Next]_vars, synced', ~failed', now' # "done"
             PROVE  /\ sent' = None => inbox' = None /\ outbox' = None
                    /\ inbox' = None \/ outbox' = None
  BY DEF InSync
<1>1. CASE Collect
  <2>1. /\ sent # None /\ outbox' = None /\ UNCHANGED <<inbox, synced>> /\ now # "done"
    BY <1>1, Collects
  <2>2. outbox # None /\ failed' = failed
    BY <1>1, Collected
  <2>3. synced /\ ~failed
    BY <2>1, <2>2, Zenon
  <2>4. inbox = None
    BY <2>1, <2>2, <2>3 DEF InSync
  <2> QED BY <2>1, <2>4
<1>2. ASSUME NEW q \in AllRequests, Request(q)
      PROVE  /\ sent' = None => inbox' = None /\ outbox' = None
             /\ inbox' = None \/ outbox' = None
  <2>1. /\ sent = None /\ now # "done" /\ UNCHANGED <<outbox, synced, failed>>
        /\ sent' = inbox' /\ inbox = None
    BY <1>2, Sends
  <2> QED BY <2>1 DEF InSync
<1>3. CASE CheckPart
  <2>1. now = "check" /\ UNCHANGED <<inbox, outbox, sent, synced, failed>>
    BY <1>3, Checks DEF boxes, seen
  <2> QED BY <2>1 DEF InSync
<1>4. CASE KeepTarget \/ Stop \/ Killed
  <2>1. now = "loop" /\ now' = "close" /\ UNCHANGED <<inbox, outbox, synced, failed>>
    BY <1>4, Leaves DEF boxes
  <2>2. sent = None
    <3>1. CASE Stop
      BY <3>1 DEF Stop
    <3>2. CASE KeepTarget \/ Killed
      <4>1. plan' = <<>>
        BY <3>2 DEF KeepTarget, Killed, Proceed
      <4> QED BY <2>1, <4>1 DEF now, First
    <3> QED BY <1>4, <3>1, <3>2
  <2> QED BY <2>1, <2>2 DEF InSync
<1>5. ASSUME NEW c \in CommandSet, Begin(c)
      PROVE  /\ sent' = None => inbox' = None /\ outbox' = None
             /\ inbox' = None \/ outbox' = None
  BY <1>5, Begins
<1>6. CASE Serve
  <2>1. inbox # None /\ inbox' = None /\ UNCHANGED <<sent, plan, synced, failed>>
    BY <1>6, Serves
  <2>2. now' = now
    BY <2>1 DEF now
  <2> QED BY <2>1, <2>2 DEF InSync
<1>7. CASE Replug
  BY <1>7, Replugged
<1>8. CASE Hang \/ UNCHANGED vars
  BY <1>8, Unseen DEF InSync
<1> QED BY <1>1, <1>2, <1>3, <1>4, <1>5, <1>6, <1>7, <1>8 DEF Next, Tool, Transfer, User

\* Among the replies, only one to a register access of a programmer that was
\* never set up refuses, and a programmer that is set up and not attached answers
\* an attach with the part.
LEMMA ServesWell ==
  ASSUME TransferInv, Serve
  PROVE  /\ outbox'.cmd = "refused" => inbox.cmd = "reg" /\ iface = NoChip
         /\ inbox.cmd = "attach" /\ iface # NoChip /\ ~attached => outbox'.len = 8
<1>1. PICK c \in {"iface", "control", "run", "reg", "refused"}, n \in {3, 4, 7, 8, 9},
           a \in Parts \cup {Version, NoChip} :
        /\ Reply(c, n, a)
        /\ c = "refused" => inbox.cmd = "reg" /\ iface = NoChip
        /\ inbox.cmd = "attach" /\ iface # NoChip /\ ~attached => n = 8
  BY DEF Serve, TransferInv, Plain
<1>2. outbox'.cmd = c /\ outbox'.len = n
  BY <1>1 DEF Reply
<1> QED BY <1>1, <1>2

\* The commands that identify the part.
Identifiers == {"info", "flash", "read", "terminal"}

\* Their stages.
LEMMA IdentifierStages ==
  ASSUME NEW n \in Identifiers
  PROVE  /\ Usual(n) \subseteq {"detect", "again", "check", "select", "halt", "work", "verify",
                                "cleanup", "resume", "loop", "close"}
         /\ \A s \in Usual(n) : "detect" \notin Following(n, s) /\ "again" \notin Following(n, s)
BY DEF Usual, Following, Identifiers, ResetCommands, DebugCommands, Interactive

\* The invariant behind IdentifySucceeds is kept by every step.
LEMMA IdentifyNext == TransferInv /\ InSync /\ IdentifyInv /\ [Next]_vars => IdentifyInv'
<1> SUFFICES ASSUME TransferInv, InSync, IdentifyInv, [Next]_vars, Identifying' PROVE IdentifyInv'
  BY DEF IdentifyInv
<1>0. Plans /\ Messages /\ at \in 1 .. Size(now)
  BY DEF TransferInv, Plans
<1>1. CASE Collect
  <2>1. /\ sent # None /\ sent' = None /\ outbox' = None /\ now \notin {"done", "check", "keep"}
        /\ UNCHANGED <<iface, attached, dmhalt, part, inbox, cmd, synced, resets>>
    BY <1>1, Collects
  <2>0. /\ outbox # None /\ failed' = failed
        /\ \/ Accepts(sent, now, outbox) /\ Onward
           \/ ~Accepts(sent, now, outbox) /\ MovesOn(sent, "target")
    BY <1>1, Collected DEF Identifying
  <2>2. Identifying /\ cmd.name \in Identifiers
    <3>1. ~failed
      BY <2>0, Zenon DEF Identifying
    <3> QED BY <2>1, <3>1 DEF Identifying, Identifiers
  <2>3. inbox = None
    BY <2>0, <2>1, <2>2 DEF InSync, Identifying
  <2>4. sent.cmd = KindAt(now, at) /\ Answers(sent, outbox)
    BY <2>1, <2>3, SentIs
  <2>5. /\ now \in Usual(cmd.name) /\ outbox.cmd # "refused" /\ IfaceSoon # NoChip
        /\ IfaceSoon' = IfaceSoon /\ (AttachedSoon' <=> AttachedSoon)
    BY <1>0, <2>1, <2>2, NowStage, SoonSame DEF IdentifyInv
  <2>6. Matching(part)' = Matching(part)
    BY <2>1 DEF Matching
  <2>7. CASE Onward
    <3>1. status' # "target" \/ status' = status
      BY <2>7 DEF Onward
    <3>2. now' = "again" => now = "again" /\ at < 4 /\ at \in Nat
      <4>1. "again" \notin Following(cmd.name, now)
        BY <2>2, <2>5, IdentifierStages
      <4> QED BY <1>0, <2>7, <4>1 DEF Onward, Size
    <3>3. now' = "again" => ~AttachedSoon
      BY <2>1, <2>2, <3>2 DEF IdentifyInv
    <3>4. status' = "target" => Matching(part) = {}
      BY <2>2, <3>1 DEF IdentifyInv
    <3> QED BY <2>1, <2>3, <2>5, <2>6, <3>3, <3>4, NoneIs DEF IdentifyInv
  <2>8. CASE ~Accepts(sent, now, outbox) /\ ~Unheeded(sent) /\ GivenUp("target")
    <3>1. sent.cmd = "attach" /\ now \in {"detect", "again"}
      <4>1. now # "version"
        BY <2>2, <2>5, IdentifierStages
      <4>2. sent.cmd \notin {"iface", "reg"}
        BY <2>4, <2>5, <2>8 DEF Answers, Accepts, IsRegister
      <4>3. sent.cmd # "status"
        BY <2>4, <4>1 DEF KindAt
      <4> QED BY <2>8, <4>2, <4>3 DEF Accepts
    <3>2. CASE now = "detect"
      <4>1. now' = "again" /\ at' = 1 /\ status' = status
        BY <2>8, <3>2 DEF GivenUp, Instead
      <4>2. status' = "target" => Matching(part) = {}
        BY <2>2, <4>1 DEF IdentifyInv
      <4> QED BY <2>1, <2>3, <2>5, <2>6, <4>1, <4>2, NoneIs DEF IdentifyInv
    <3>3. CASE now = "again"
      <4>1. at = 4
        BY <1>0, <2>4, <3>1, <3>3 DEF KindAt, Size
      <4>2. outbox.len = 8
        BY <2>1, <2>2, <2>3, <3>3, <4>1 DEF IdentifyInv
      <4>3. outbox.cmd = "control" /\ outbox.arg = part
        BY <2>4, <3>1, <4>2 DEF Answers
      <4>4. wl_chip_by_detect_id(part) = NoChip
        BY <2>8, <3>1, <4>2, <4>3 DEF Accepts, IsChipId
      <4>5. Matching(part) = {}
        BY <4>4, Detected
      <4>6. now' = "close"
        BY <2>8, <3>3 DEF GivenUp, Instead
      <4> QED BY <2>1, <2>3, <2>5, <2>6, <4>5, <4>6, NoneIs DEF IdentifyInv
    <3> QED BY <3>1, <3>2, <3>3
  <2> QED BY <2>0, <2>7, <2>8 DEF MovesOn
<1>2. ASSUME NEW q \in AllRequests, Request(q) PROVE IdentifyInv'
  <2>1. /\ sent = None /\ now \notin {"done", "check", "keep"} /\ q.cmd = KindAt(now, at)
        /\ UNCHANGED <<iface, attached, dmhalt, part, outbox, cmd, synced, resets>>
        /\ inbox = None /\ sent' = inbox'
        /\ inbox' = [cmd |-> q.cmd, arg |-> q.arg, tag |-> tag', len |-> 0]
        /\ UNCHANGED <<plan, at, status, failed>>
    BY <1>2, Sends DEF Identifying
  <2>2. Identifying /\ now' = now /\ Matching(part)' = Matching(part)
    BY <2>1 DEF Identifying, now, Matching
  <2>3. /\ inbox.cmd = "none" /\ inbox'.cmd = q.cmd
        /\ IfaceSoon = iface /\ (AttachedSoon <=> attached)
    BY <2>1, NoneIs DEF IfaceSoon, AttachedSoon
  <2>4. /\ q.cmd = "iface" => IfaceSoon' = q.arg /\ q.arg # NoChip
        /\ q.cmd # "iface" => IfaceSoon' = IfaceSoon
        /\ q.cmd \in {"run", "release"} => ~AttachedSoon'
        /\ q.cmd \notin {"attach", "run", "release"} => (AttachedSoon' <=> AttachedSoon)
    BY <2>1, SoonSent, AllRequestsKinds, Constants
  <2>5. /\ now # "detect" \/ at = 2 => IfaceSoon # NoChip
        /\ now = "again" /\ at > 1 => ~AttachedSoon
        /\ status = "target" => Matching(part) = {}
        /\ outbox.cmd # "refused"
    BY <2>1, <2>2 DEF IdentifyInv
  <2>6. IfaceSoon' # NoChip
    <3>1. now = "detect" /\ at # 2 => q.cmd = "iface"
      BY <1>0, <2>1 DEF KindAt, Size
    <3> QED BY <2>4, <2>5, <3>1
  <2>7. q.cmd = "reg" => iface # NoChip
    <3>1. q.cmd = "reg" => now # "detect"
      BY <2>1 DEF KindAt
    <3> QED BY <2>3, <2>5, <3>1
  <2>8. now = "again" /\ at # 4 => ~AttachedSoon'
    <3>1. SUFFICES ASSUME now = "again", at # 4 PROVE ~AttachedSoon'
      OBVIOUS
    <3>2. at = 1 \/ at = 2 \/ at = 3
      BY <1>0, <3>1 DEF Size
    <3>3. /\ at = 1 => q.cmd = "run"
          /\ at = 2 => q.cmd = "release"
          /\ at = 3 => q.cmd = "iface"
      BY <2>1, <3>1 DEF KindAt
    <3>4. at = 3 => ~AttachedSoon
      BY <2>5, <3>1
    <3> QED BY <2>4, <3>2, <3>3, <3>4
  <2>9. now = "again" /\ at = 4 => ~attached /\ iface # NoChip /\ inbox' # None
    <3>1. now = "again" /\ at = 4 => q.cmd = "attach"
      BY <2>1 DEF KindAt
    <3> QED BY <2>3, <2>5, <3>1, NoneIs
  <2> QED BY <2>1, <2>2, <2>3, <2>5, <2>6, <2>7, <2>8, <2>9 DEF IdentifyInv
<1>3. CASE CheckPart
  <2>1. /\ now = "check" /\ now' \notin {"detect", "again"} /\ (status' = status \/ status' # "target")
        /\ UNCHANGED <<iface, attached, dmhalt, part, inbox, outbox, cmd, sent, synced, failed, resets>>
    BY <1>3, Checks DEF programmer, boxes, seen
  <2>2. Identifying /\ Matching(part)' = Matching(part)
    BY <2>1 DEF Identifying, Matching
  <2>3. IfaceSoon' = IfaceSoon
    BY <2>1, SoonSame
  <2> QED BY <2>1, <2>2, <2>3 DEF IdentifyInv
<1>4. CASE KeepTarget \/ Stop \/ Killed
  <2>1. /\ now # "done" /\ (now = "keep" \/ now = "loop" \/ now' = "done")
        /\ now' \in {"close", "done"} /\ (status' = status \/ status' # "target")
        /\ UNCHANGED <<iface, attached, dmhalt, part, inbox, outbox, cmd, synced, failed, resets>>
    BY <1>4, Leaves DEF programmer, boxes
  <2>2. Identifying /\ Matching(part)' = Matching(part)
    BY <2>1 DEF Identifying, Matching
  <2>3. IfaceSoon' = IfaceSoon
    BY <2>1, SoonSame
  <2> QED BY <2>1, <2>2, <2>3 DEF IdentifyInv
<1>5. ASSUME NEW c \in CommandSet, Begin(c) PROVE IdentifyInv'
  <2>1. /\ now' = StartStage(c) /\ at' = 1 /\ cmd' = c /\ sent' = None /\ status' = "ok"
        /\ synced' = (inbox = None /\ outbox = None) /\ UNCHANGED <<inbox, outbox>>
    BY <1>5, Begins
  <2>2. now' = "detect"
    BY <2>1 DEF Identifying, StartStage, DebugCommands, ResetCommands
  <2>3. inbox' = None /\ outbox' = None
    BY <2>1 DEF Identifying
  <2> QED BY <2>1, <2>2, <2>3, NoneIs DEF IdentifyInv
<1>6. CASE Serve
  <2>1. /\ inbox # None /\ inbox' = None
        /\ UNCHANGED <<part, cmd, plan, at, sent, status, synced, failed>>
        /\ outbox'.cmd = "refused" => inbox.cmd = "reg" /\ iface = NoChip
        /\ inbox.cmd = "attach" /\ iface # NoChip /\ ~attached => outbox'.len = 8
    BY <1>6, Serves, ServesWell
  <2>2. Identifying /\ now' = now /\ Matching(part)' = Matching(part)
    BY <2>1 DEF Identifying, now, Matching
  <2>3. IfaceSoon' = IfaceSoon /\ (AttachedSoon' <=> AttachedSoon)
    BY <1>6, SoonServed
  <2>4. now = "again" /\ at = 4 /\ sent # None => inbox.cmd = "attach"
    <3>1. SUFFICES ASSUME now = "again", at = 4, sent # None PROVE inbox.cmd = "attach"
      OBVIOUS
    <3> QED BY <2>1, <3>1, SentIs DEF KindAt
  <2>5. now # "done" => outbox'.cmd # "refused"
    BY <2>1, <2>2 DEF IdentifyInv
  <2>6. now = "again" /\ at = 4 /\ sent # None => outbox'.len = 8
    BY <2>1, <2>2, <2>4 DEF IdentifyInv
  <2> QED BY <2>1, <2>2, <2>3, <2>5, <2>6, NoneIs DEF IdentifyInv
<1>7. CASE Replug
  <2>1. now' = "done" /\ status' = "none"
    BY <1>7, Replugged
  <2> QED BY <2>1 DEF IdentifyInv
<1>8. CASE Hang \/ UNCHANGED vars
  <2>1. UNCHANGED <<now, at, sent, inbox, outbox, cmd, status, iface, attached, dmhalt,
                    part, synced, failed, resets>>
    BY <1>8, Unseen
  <2>2. /\ IfaceSoon' = IfaceSoon /\ (AttachedSoon' <=> AttachedSoon) /\ Identifying
        /\ Matching(part)' = Matching(part)
    BY <2>1, SoonSame DEF Identifying, Matching
  <2> QED BY <2>1, <2>2 DEF IdentifyInv
<1> QED BY <1>1, <1>2, <1>3, <1>4, <1>5, <1>6, <1>7, <1>8 DEF Next, Tool, Transfer, User

\* Detection finds a part that is in the table, also when an earlier command left
\* the programmer attached and its firmware does not answer a second attach with
\* the chip id: letting go before the second attempt is what makes it answer.
THEOREM IdentifyWorks == Spec => []IdentifySucceeds
<1>1. Init => InSync /\ IdentifyInv
  <2> SUFFICES ASSUME Init PROVE InSync /\ IdentifyInv
    OBVIOUS
  <2>1. now = "done" /\ status = "none"
    BY NoPlan DEF Init, now
  <2> QED BY <2>1 DEF InSync, IdentifyInv
<1>2. IdentifyInv => IdentifySucceeds
  BY DEF IdentifyInv, Identifying, IdentifySucceeds, Returned
<1> QED BY <1>1, <1>2, TransferInit, TransferNext, SyncNext, IdentifyNext, PTL DEF Spec

---------------------------------------------------------------------------
(* Leaving a stopped core stopped *)

\* A core that was stopped when the command began is stopped, and no request that
\* lets it run is under way.
CoreInv ==
  cmd.name \in DebugCommands \cup {"halt"} /\ status = "ok" =>
    /\ now # "close" /\ held # "let_go"
    /\ held = "yes" => /\ Halted /\ inbox.cmd \notin {"run", "release"}
                       /\ inbox.cmd = "reg" => inbox.arg # "resumereq"

\* The commands that leave a stopped core stopped.
Core == DebugCommands \cup {"halt"}

\* Their stages.
LEMMA CoreStages ==
  ASSUME NEW n \in Core, NEW s \in Usual(n), s \notin {"close", "keep"}
  PROVE  s \in {"select", "halt", "work"} /\ "close" \notin Following(n, s) /\ n \in OneWay
BY DEF Core, Usual, Following, OneWay, ResetCommands, DebugCommands

\* A transfer takes them on, or their status is not ok.
LEMMA CoreMoves ==
  ASSUME TransferInv, CoreInv, cmd.name \in Core, now \notin {"done", "check", "keep"},
         NEW q, NEW s \in {"usb", "target"}, Onward \/ MovesOn(q, s), status' = "ok"
  PROVE  status = "ok" /\ now' # "close" /\ now \in {"select", "halt", "work"}
<1>1. Plans /\ now \in Usual(cmd.name) /\ cmd.name \in OneWay
  BY NowStage DEF TransferInv, OneWay, Core
<1>2. Onward /\ status = "ok"
  BY <1>1, OkOnward
<1>3. now # "close"
  BY <1>2 DEF CoreInv, Core
<1>4. now \in {"select", "halt", "work"} /\ "close" \notin Following(cmd.name, now)
  BY <1>1, <1>3, CoreStages
<1> QED BY <1>2, <1>3, <1>4 DEF Onward

\* The invariant behind CorePreserved is kept by every step.
LEMMA CoreNext == TransferInv /\ CoreInv /\ [Next]_vars => CoreInv'
<1> DEFINE Stopped == /\ now # "close" /\ held # "let_go"
                      /\ held = "yes" => /\ attached \/ dmhalt
                                         /\ inbox.cmd \notin {"run", "release"}
                                         /\ inbox.cmd = "reg" => inbox.arg # "resumereq"
<1> SUFFICES ASSUME TransferInv, CoreInv, [Next]_vars, cmd'.name \in Core, status' = "ok"
             PROVE  Stopped'
  BY DEF CoreInv, Core, Halted
<1>0. Plans /\ (cmd.name \in Core /\ status = "ok" => Stopped)
  BY DEF TransferInv, CoreInv, Core, Halted
<1>1. CASE Collect
  <2>1. /\ now \notin {"done", "check", "keep"}
        /\ UNCHANGED <<attached, dmhalt, inbox, cmd, held>>
        /\ Onward \/ MovesOn(sent, "target") \/ MovesOn(sent, "usb")
    BY <1>1, Collects
  <2>2. status = "ok" /\ now' # "close"
    BY <2>1, CoreMoves
  <2> QED BY <1>0, <2>1, <2>2
<1>2. ASSUME NEW q \in AllRequests, Request(q) PROVE Stopped'
  <2>1. /\ now \notin {"done", "check", "keep"} /\ q.cmd = KindAt(now, at)
        /\ now \in {"work", "cleanup"} => q.arg \in {"status", "data"}
        /\ UNCHANGED <<attached, dmhalt, cmd, held>>
    BY <1>2, Sends
  <2>2. CASE /\ inbox' = [cmd |-> q.cmd, arg |-> q.arg, tag |-> tag', len |-> 0]
             /\ UNCHANGED <<plan, at, status>>
    <3>1. now' = now /\ inbox'.cmd = q.cmd /\ inbox'.arg = q.arg
      BY <2>2 DEF now
    <3>2. now \in {"select", "halt", "work"}
      BY <1>0, <2>1, <2>2, NowStage, CoreStages
    <3>3. q.cmd \notin {"run", "release"} /\ (q.cmd = "reg" => now = "work")
      BY <2>1, <3>2 DEF KindAt
    <3> QED BY <1>0, <2>1, <2>2, <3>1, <3>2, <3>3
  <2>3. CASE MovesOn(q, "usb") /\ UNCHANGED inbox
    <3>1. status = "ok" /\ now' # "close"
      BY <2>1, <2>3, CoreMoves
    <3> QED BY <1>0, <2>1, <2>3, <3>1
  <2> QED BY <1>2, <2>2, <2>3, Sends
<1>3. CASE CheckPart
  <2>1. cmd.name = "flash" /\ cmd' = cmd
    BY <1>3, Checks
  <2> QED BY <2>1 DEF Core, DebugCommands
<1>4. CASE KeepTarget \/ Stop \/ Killed
  <2>1. /\ now # "done" /\ UNCHANGED <<attached, dmhalt, inbox, cmd, held>>
        /\ status' = status /\ (now' = "done" \/ now = "loop")
    BY <1>4, Leaves DEF programmer, boxes
  <2>2. now # "loop"
    BY <1>0, <2>1, NowStage, CoreStages
  <2> QED BY <1>0, <2>1, <2>2
<1>5. ASSUME NEW c \in CommandSet, Begin(c) PROVE Stopped'
  <2>1. /\ now' = StartStage(c) /\ UNCHANGED <<attached, dmhalt, inbox>>
        /\ held' = (IF Halted /\ inbox = None THEN "yes" ELSE "no")
    BY <1>5, Begins
  <2>2. now' # "close"
    BY <2>1 DEF StartStage
  <2> QED BY <2>1, <2>2, NoneIs DEF Halted
<1>6. CASE Serve
  <2>1. /\ UNCHANGED <<cmd, plan, status>> /\ inbox' = None
        /\ held' = IF held = "yes" /\ ~attached' /\ ~dmhalt' THEN "let_go" ELSE held
    BY <1>6, Serves
  <2>2. now' = now /\ Stopped
    BY <1>0, <2>1 DEF now
  <2>3. held = "yes" => attached' \/ dmhalt'
    <3>1. SUFFICES ASSUME held = "yes" PROVE attached' \/ dmhalt'
      OBVIOUS
    <3>2. (AttachedSoon' <=> attached') /\ (DmhaltSoon' <=> dmhalt')
      BY <2>1, NoneIs DEF AttachedSoon, DmhaltSoon
    <3>3. (attached => AttachedSoon) /\ (dmhalt => DmhaltSoon)
      BY <2>2, <3>1 DEF AttachedSoon, DmhaltSoon
    <3> QED BY <1>6, <2>2, <3>1, <3>2, <3>3, SoonServed
  <2> QED BY <2>1, <2>2, <2>3, NoneIs
<1>7. CASE Replug
  BY <1>7, Replugged
<1>8. CASE Hang \/ UNCHANGED vars
  <2>1. UNCHANGED <<now, inbox, cmd, status, attached, dmhalt, held>>
    BY <1>8, Unseen
  <2> QED BY <1>0, <2>1
<1> QED BY <1>1, <1>2, <1>3, <1>4, <1>5, <1>6, <1>7, <1>8 DEF Next, Tool, Transfer, User

\* The commands that look at a stopped core do not let it run on the way, as long
\* as they report no failure.
THEOREM CoreKept == Spec => []CorePreserved
<1>1. Init => CoreInv
  BY DEF Init, CoreInv
<1>2. CoreInv => CorePreserved
  BY DEF CoreInv, CorePreserved
<1> QED BY <1>1, <1>2, TransferInit, TransferNext, CoreNext, PTL DEF Spec

---------------------------------------------------------------------------
(* Late replies *)

\* The next request, or the one whose reply is awaited, is a register access.
AtRegister == KindAt(now, at) = "reg"

\* Until such an access has failed, and in the read-back of a write, whatever is in
\* front of it has another length than its reply.
OwnInv ==
  AtRegister /\ (~missed \/ now = "verify") =>
    /\ sent = None => outbox.len # 9 /\ inbox.cmd # "reg"
    /\ sent # None /\ inbox # None => outbox.len # 9

\* A request that failed is followed by a register access only if it was one, and
\* never by one of the read-back's: that begins with an attach.
LEMMA RegisterFrom ==
  ASSUME Plans, now \notin {"done", "check", "keep"}, NEW q, NEW s, MovesOn(q, s), AtRegister'
  PROVE  now' # "verify" /\ AtRegister
<1>1. now \in Stages /\ at \in 1 .. Size(now)
  BY NowStage
<1>2. now' \in {"setup", "work", "cleanup", "loop", "verify"} /\ (now' = "verify" => at' # 1)
  BY DEF AtRegister, KindAt
<1>3. CASE Unheeded(q) /\ Onward
  <2>1. now \in {"setup", "close", "loop"} \/ (now = "again" /\ at \in {1, 2})
    BY <1>1, <1>3 DEF Unheeded, Ignored, Size
  <2>2. CASE now \in {"setup", "loop"}
    <3>1. now' # "verify"
      BY <1>3, <2>2 DEF Onward, Following
    <3> QED BY <2>2, <3>1 DEF AtRegister, KindAt
  <2>3. CASE now = "close" \/ (now = "again" /\ at \in {1, 2})
    <3>1. now' \in {"done", "close", "again"}
      BY <1>1, <1>3, <2>3 DEF Onward, Following, Size
    <3> QED BY <1>2, <3>1
  <2> QED BY <2>1, <2>2, <2>3
<1>4. CASE GivenUp(s)
  <2>1. at' = 1 /\ now' \in Instead(cmd.name, now)
    BY <1>4 DEF GivenUp
  <2>2. now' # "verify"
    BY <1>2, <2>1
  <2>3. now \in {"work", "cleanup", "verify"}
    BY <1>1, <1>2, <2>1 DEF Instead
  <2>4. now # "verify"
    BY <1>2, <2>1 DEF Instead, Following
  <2> QED BY <2>2, <2>3, <2>4 DEF AtRegister, KindAt
<1> QED BY <1>3, <1>4 DEF MovesOn

\* The invariant behind OwnUntilFailed is kept by every step.
LEMMA OwnNext == TransferInv /\ OwnInv /\ [Next]_vars => OwnInv'
<1> SUFFICES ASSUME TransferInv, OwnInv, [Next]_vars, AtRegister', ~missed' \/ now' = "verify"
             PROVE  /\ sent' = None => outbox'.len # 9 /\ inbox'.cmd # "reg"
                    /\ sent' # None /\ inbox' # None => outbox'.len # 9
  BY DEF OwnInv
<1>0. Plans /\ Messages /\ at \in 1 .. Size(now) /\ missed \in BOOLEAN
  BY DEF TransferInv, Plans, Plain
<1>1. CASE Collect
  <2>1. /\ sent # None /\ sent' = None /\ outbox' = None /\ now \notin {"done", "check", "keep"}
        /\ UNCHANGED <<inbox, cmd>>
    BY <1>1, Collects
  <2>2. sent.cmd = KindAt(now, at) /\ (inbox # None => inbox = sent)
    BY <2>1, SentIs
  <2>3. CASE ~AtRegister
    BY <2>1, <2>2, <2>3, NoneIs DEF AtRegister
  <2>4. CASE AtRegister
    <3>1. sent.cmd = "reg"
      BY <2>2, <2>4 DEF AtRegister
    <3>2. ~(MovesOn(sent, "target") \/ MovesOn(sent, "usb")) \/ now' # "verify"
      BY <1>0, <2>1, RegisterFrom
    <3>3. \/ outbox # None /\ Accepts(sent, now, outbox) /\ Onward /\ UNCHANGED missed
          \/ /\ MovesOn(sent, "target") \/ MovesOn(sent, "usb")
             /\ missed' = (missed \/ sent.cmd = "reg")
      BY <1>1, Collects
    <3>4. CASE /\ MovesOn(sent, "target") \/ MovesOn(sent, "usb")
               /\ missed' = (missed \/ sent.cmd = "reg")
      <4>1. missed'
        BY <3>1, <3>4, Zenon
      <4> QED BY <3>2, <3>4, <4>1
    <3>5. CASE outbox # None /\ Accepts(sent, now, outbox) /\ Onward /\ UNCHANGED missed
      <4>1. outbox.len = 9
        BY <3>1, <3>5 DEF Accepts, IsRegister
      <4>2. now' = "verify" => now = "verify"
        <5>1. now' = "verify" => at' # 1
          BY DEF AtRegister, KindAt
        <5> QED BY <3>5, <5>1 DEF Onward
      <4>3. UNCHANGED missed
        BY <3>5
      <4>4. ~missed \/ now = "verify"
        BY <4>2, <4>3, Zenon
      <4>5. inbox = None
        BY <2>1, <2>4, <4>1, <4>4 DEF OwnInv
      <4> QED BY <2>1, <4>5, NoneIs
    <3> QED BY <3>3, <3>4, <3>5
  <2> QED BY <2>3, <2>4
<1>2. ASSUME NEW q \in AllRequests, Request(q)
      PROVE  /\ sent' = None => outbox'.len # 9 /\ inbox'.cmd # "reg"
             /\ sent' # None /\ inbox' # None => outbox'.len # 9
  <2>1. /\ sent = None /\ now \notin {"done", "check", "keep"} /\ UNCHANGED <<outbox, cmd>>
        /\ q.cmd = KindAt(now, at)
    BY <1>2, Sends
  <2>2. CASE /\ inbox = None /\ sent' = inbox' /\ UNCHANGED <<plan, at, missed>>
             /\ inbox' = [cmd |-> q.cmd, arg |-> q.arg, tag |-> tag', len |-> 0]
    <3>1. sent' # None
      <4>1. sent'.cmd = q.cmd /\ q.cmd # "none"
        BY <2>2, AllRequestsKinds
      <4> QED BY <4>1, NoneIs
    <3>2. now' = now /\ AtRegister
      BY <2>2 DEF now, AtRegister
    <3>3. UNCHANGED missed
      BY <2>2
    <3>4. ~missed \/ now = "verify"
      BY <3>2, <3>3, Zenon
    <3>5. outbox.len # 9
      BY <2>1, <3>2, <3>4 DEF OwnInv
    <3> QED BY <2>1, <3>1, <3>5
  <2>3. CASE MovesOn(q, "usb") /\ missed' = (missed \/ q.cmd = "reg")
    <3>1. now' # "verify" /\ AtRegister
      BY <1>0, <2>1, <2>3, RegisterFrom
    <3>2. q.cmd = "reg"
      BY <2>1, <3>1 DEF AtRegister
    <3>3. missed'
      BY <2>3, <3>2, Zenon
    <3> QED BY <3>1, <3>3
  <2> QED BY <1>2, <2>2, <2>3, Sends
<1>3. CASE CheckPart
  <2>1. now' \in {"select", "close", "done"}
    BY <1>3, Checks
  <2> QED BY <2>1 DEF AtRegister, KindAt
<1>4. CASE KeepTarget \/ Stop \/ Killed
  <2>1. now' \in {"close", "done"}
    BY <1>4, Leaves
  <2> QED BY <2>1 DEF AtRegister, KindAt
<1>5. ASSUME NEW c \in CommandSet, Begin(c) PROVE FALSE
  <2>1. now' = StartStage(c)
    BY <1>5, Begins
  <2> QED BY <2>1 DEF StartStage, AtRegister, KindAt
<1>6. CASE Serve
  <2>1. /\ inbox # None /\ inbox' = None /\ outbox = None /\ UNCHANGED <<cmd, plan, at, sent>>
        /\ Answers(inbox, outbox')
    BY <1>6, Serves
  <2>2. UNCHANGED missed
    BY <1>6, Serves
  <2>3. now' = now /\ AtRegister
    BY <2>1 DEF now, AtRegister
  <2>4. ~missed \/ now = "verify"
    BY <2>2, <2>3, Zenon
  <2>5. sent = None => inbox.cmd # "reg"
    BY <2>3, <2>4 DEF OwnInv
  <2> QED BY <2>1, <2>5, NoneIs DEF Answers
<1>7. CASE Replug
  <2>1. now' = "done"
    BY <1>7, Replugged
  <2> QED BY <2>1 DEF AtRegister, KindAt
<1>8. CASE Hang \/ UNCHANGED vars
  <2>1. UNCHANGED <<now, at, sent, inbox, outbox, missed>>
    BY <1>8, Unseen
  <2>2. ~missed \/ now = "verify"
    BY <2>1, Zenon
  <2> QED BY <2>1, <2>2 DEF OwnInv, AtRegister
<1> QED BY <1>1, <1>2, <1>3, <1>4, <1>5, <1>6, <1>7, <1>8 DEF Next, Tool, Transfer, User

\* Until a register access of its own has failed and it has gone on all the same,
\* no command takes a late reply for a register's value; the read-back of a write
\* never does, whatever failed before it.
THEOREM OwnReplies == Spec => OwnUntilFailed
<1>1. Init => OwnInv
  <2> SUFFICES ASSUME Init PROVE OwnInv
    OBVIOUS
  <2>1. now = "done"
    BY NoPlan DEF Init, now
  <2> QED BY <2>1 DEF OwnInv, AtRegister, KindAt
<1>2. ASSUME TransferInv, OwnInv
      PROVE  ~Idle /\ (~missed \/ Stage = "verify") => OwnReply
  <2> SUFFICES ASSUME ~Idle, ~missed \/ Stage = "verify",
                      sent # None, outbox # None, sent.cmd = "reg", Accepts(sent, Stage, outbox)
               PROVE  outbox.tag = sent.tag
    BY DEF OwnReply
  <2>1. Stage = now
    BY <1>2, NowDone, NowStage DEF TransferInv
  <2>2. AtRegister /\ (inbox = None => Answers(sent, outbox))
    BY <1>2, SentIs DEF AtRegister
  <2>3. outbox.len = 9
    BY DEF Accepts, IsRegister
  <2>4. ~missed \/ now = "verify"
    BY <2>1
  <2>5. inbox = None
    BY <1>2, <2>2, <2>3, <2>4 DEF OwnInv
  <2> QED BY <2>2, <2>5 DEF Answers
<1>3. TransferInv /\ OwnInv => [~Idle /\ (~missed \/ Stage = "verify") => OwnReply]_vars
  BY <1>2
<1> QED BY <1>1, <1>3, TransferInit, TransferNext, OwnNext, PTL DEF Spec, OwnUntilFailed
=============================================================================
